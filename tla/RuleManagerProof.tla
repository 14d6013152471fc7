-------------------------- MODULE RuleManagerProof --------------------------
(***************************************************************************)
(* RuleManager for any rules, any number of threads and any changes: the   *)
(* type invariant, and that the calls which take the four mutexes one      *)
(* after another are regular although the rules change between them.       *)
(***************************************************************************)
EXTENDS RuleManager, WellFoundedInduction, TLAPS

(* A call that is not over has found nothing and has been through every    *)
(* section before the one it takes next; a rule that it went past has been *)
(* added since, so those that stood all the time are still ahead of it.    *)
(* This is the inductive strengthening of CheckRegular and ClearRegular.   *)
InCall(c) ==
  /\ doing[c] # "nothing" => stood[c] \subseteq InForce /\ InForce \subseteq ever[c]
  /\ doing[c] = "check" /\ section[c] # Done => reason[c] = None
  /\ reason[c] # None =>
       \E r \in ever[c] : r[1] = reason[c] /\ Matches(r, query[c])
  /\ doing[c] = "check" =>
       \A r \in stood[c] : Matches(r, query[c]) =>
         IF reason[c] = None THEN section[c] <= r[1] ELSE reason[c] <= r[1]
  /\ doing[c] = "clear" => \A r \in stood[c] : section[c] <= r[1]

Progress == \A c \in Client : InCall(c)

----------------------------------------------------------------------------
(* What the operators do.                                                  *)

(* A sequence without one of its elements has no elements that are new.    *)
LEMMA RemoveAtKeeps ==
  ASSUME NEW S, NEW s \in Seq(S), NEW i \in 1..Len(s)
  PROVE  RemoveAt(s, i) \in Seq(S)
<1>1. SubSeq(s, 1, i - 1) \in Seq(S) /\ SubSeq(s, i + 1, Len(s)) \in Seq(S)
  OBVIOUS
<1> QED
  BY <1>1 DEF RemoveAt

LEMMA RemoveFirstKeeps ==
  ASSUME NEW S, NEW s \in Seq(S), NEW e
  PROVE  RemoveFirst(s, e) \in Seq(S)
<1>1. CASE ~ \E i \in 1..Len(s) : s[i] = e
  BY <1>1 DEF RemoveFirst
<1>2. CASE \E i \in 1..Len(s) : s[i] = e
  <2> DEFINE I == {n \in 1..Len(s) : s[n] = e}
  <2>1. I # {} /\ I \subseteq Nat
    BY <1>2
  <2>2. \E x \in I : \A y \in I : x <= y
    <3>1. PICK x \in I : \A y \in I : <<y, x>> \notin OpToRel(<, Nat)
      BY <2>1, WFMin, NatLessThanWellFounded
    <3>2. \A y \in I : ~ (y < x)
      BY <2>1, <3>1 DEF OpToRel
    <3> QED
      BY <2>1, <3>2
  <2>3. Min(I) \in I
    BY <2>2 DEF Min
  <2>4. SelectInSeq(s, LAMBDA v : v = e) = Min(I)
    BY <2>1 DEF SelectInSeq
  <2>5. RemoveFirst(s, e) = RemoveAt(s, Min(I))
    BY <1>2, <2>4 DEF RemoveFirst
  <2> QED
    BY <2>3, <2>5, RemoveAtKeeps
<1> QED
  BY <1>1, <1>2

(* A sequence is one of the elements that it has, and of no others.        *)
LEMMA RangeIsLeast ==
  ASSUME NEW S, NEW s \in Seq(S)
  PROVE  s \in Seq(Range(s)) /\ \A T : s \in Seq(T) => Range(s) \subseteq T
BY DEF Range

(* A pattern or a name that is added.                                      *)
LEMMA RangeAppend ==
  ASSUME NEW S, NEW s \in Seq(S), NEW e \in S
  PROVE  Range(Append(s, e)) = Range(s) \cup {e}
<1>1. \A i \in 1..Len(s) : Append(s, e)[i] = s[i]
  OBVIOUS
<1>2. Append(s, e)[Len(s) + 1] = e
  OBVIOUS
<1>3. DOMAIN Append(s, e) = (1..Len(s)) \cup {Len(s) + 1}
  OBVIOUS
<1> QED
  BY <1>1, <1>2, <1>3 DEF Range

(* Only rules of the four kinds are in force.                              *)
LEMMA InForceType == RulesOK => InForce \subseteq Rule
BY DEF RulesOK, InForce, Rule, Range

(* The rules in force, kind by kind.                                      *)
LEMMA InForceIs ==
  ASSUME NEW r
  PROVE  r \in InForce <=>
           \/ \E a \in blocked_ips_ : r = <<IP, a>>
           \/ \E a \in blocked_apps_ : r = <<APP, a>>
           \/ \E d \in blocked_domains_ \cup Range(domain_patterns_) : r = <<DOMAIN_RULE, d>>
           \/ \E n \in blocked_ports_ : r = <<PORT, n>>
BY DEF InForce

(* A lookup finds something when a rule of its kind in force matches.      *)
LEMMA FoundMeans ==
  ASSUME RulesOK, NEW kind \in Kinds, NEW q
  PROVE  Found(kind, q) <=> \E r \in InForce : r[1] = kind /\ Matches(r, q)
<1> USE DEF IP, APP, DOMAIN_RULE, PORT
<1>1. kind \in {1, 2, 3, 4}
  BY DEF Kinds
<1>2. \A d \in blocked_domains_ :
        MatchesText(q.domain, d) <=> domainMatchesBaseDomain(q.domain, d)
  BY DEF RulesOK, MatchesText
<1>3. \A d \in Range(domain_patterns_) :
        MatchesText(q.domain, d) <=> domainMatchesPattern(q.domain, d)
  BY DEF RulesOK, MatchesText
<1>4. ASSUME Found(kind, q) PROVE \E r \in InForce : r[1] = kind /\ Matches(r, q)
  <2>1. CASE kind = 1
    <3>1. <<1, q.ip>> \in InForce
      BY <1>4, <2>1, InForceIs DEF Found
    <3> QED
      BY <2>1, <3>1 DEF Matches
  <2>2. CASE kind = 2
    <3>1. <<2, q.app>> \in InForce
      BY <1>4, <2>2, InForceIs DEF Found
    <3> QED
      BY <2>2, <3>1 DEF Matches
  <2>3. CASE kind = 3
    <3>1. PICK d \in blocked_domains_ \cup Range(domain_patterns_) :
            MatchesText(q.domain, d)
      BY <1>2, <1>3, <1>4, <2>3 DEF Found
    <3>2. <<3, d>> \in InForce
      BY InForceIs
    <3>3. q.domain # <<>>
      BY <1>4, <2>3 DEF Found
    <3> QED
      BY <2>3, <3>1, <3>2, <3>3 DEF Matches
  <2>4. CASE kind = 4
    <3>1. <<4, q.port>> \in InForce
      BY <1>4, <2>4, InForceIs DEF Found
    <3> QED
      BY <2>4, <3>1 DEF Matches
  <2> QED
    BY <1>1, <2>1, <2>2, <2>3, <2>4
<1>5. ASSUME NEW r \in InForce, r[1] = kind, Matches(r, q) PROVE Found(kind, q)
  <2>1. CASE \E a \in blocked_ips_ : r = <<1, a>>
    BY <1>5, <2>1 DEF Found, Matches
  <2>2. CASE \E a \in blocked_apps_ : r = <<2, a>>
    BY <1>5, <2>2 DEF Found, Matches
  <2>3. CASE \E d \in blocked_domains_ \cup Range(domain_patterns_) : r = <<3, d>>
    <3>1. PICK d \in blocked_domains_ \cup Range(domain_patterns_) : r = <<3, d>>
      BY <2>3
    <3>2. q.domain # <<>> /\ MatchesText(q.domain, d)
      BY <1>5, <3>1 DEF Matches
    <3> QED
      BY <1>2, <1>3, <1>5, <3>1, <3>2 DEF Found
  <2>4. CASE \E n \in blocked_ports_ : r = <<4, n>>
    BY <1>5, <2>4 DEF Found, Matches
  <2> QED
    BY <2>1, <2>2, <2>3, <2>4, InForceIs
<1> QED
  BY <1>4, <1>5

----------------------------------------------------------------------------
(* The type invariant.                                                     *)

LEMMA ANoQuery == NoQuery \in Query
BY RuleAssumption DEF NoQuery

(* Every change of the rules keeps them rules.                             *)
LEMMA BlockType == RulesOK /\ Block => RulesOK'
<1> SUFFICES ASSUME RulesOK, Block PROVE RulesOK'
  OBVIOUS
<1>1. ASSUME NEW a \in Address, blockIP(a) PROVE RulesOK'
  BY <1>1 DEF RulesOK, blockIP
<1>2. ASSUME NEW a \in App, blockApp(a) PROVE RulesOK'
  BY <1>2 DEF RulesOK, blockApp
<1>3. ASSUME NEW n \in Port, blockPort(n) PROVE RulesOK'
  BY <1>3 DEF RulesOK, blockPort
<1>4. ASSUME NEW text \in Text, blockDomain(text) PROVE RulesOK'
  <2>1. CASE IsPattern(text)
    <3>1. domain_patterns_' = Append(domain_patterns_, text)
          /\ UNCHANGED blocked_domains_
      BY <1>4, <2>1 DEF blockDomain
    <3>2. Range(domain_patterns_') = Range(domain_patterns_) \cup {text}
      BY <3>1, RangeAppend DEF RulesOK
    <3> QED
      BY <1>4, <2>1, <3>1, <3>2 DEF RulesOK, blockDomain
  <2>2. CASE ~IsPattern(text)
    BY <1>4, <2>2 DEF RulesOK, blockDomain
  <2> QED
    BY <2>1, <2>2
<1> QED
  BY <1>1, <1>2, <1>3, <1>4 DEF Block

LEMMA UnblockType == RulesOK /\ Unblock => RulesOK'
<1> SUFFICES ASSUME RulesOK, Unblock PROVE RulesOK'
  OBVIOUS
<1>1. ASSUME NEW a \in Address, unblockIP(a) PROVE RulesOK'
  BY <1>1 DEF RulesOK, unblockIP
<1>2. ASSUME NEW a \in App, unblockApp(a) PROVE RulesOK'
  BY <1>2 DEF RulesOK, unblockApp
<1>3. ASSUME NEW n \in Port, unblockPort(n) PROVE RulesOK'
  BY <1>3 DEF RulesOK, unblockPort
<1>4. ASSUME NEW text \in Text, unblockDomain(text) PROVE RulesOK'
  <2>1. CASE IsPattern(text)
    <3>1. domain_patterns_' = RemoveFirst(domain_patterns_, text)
          /\ UNCHANGED blocked_domains_
      BY <1>4, <2>1 DEF unblockDomain
    <3>2. domain_patterns_' \in Seq(Text)
          /\ domain_patterns_' \in Seq(Range(domain_patterns_))
      BY <3>1, RemoveFirstKeeps, RangeIsLeast DEF RulesOK
    <3>3. Range(domain_patterns_') \subseteq Range(domain_patterns_)
      BY <3>2, RangeIsLeast
    <3> QED
      BY <1>4, <3>1, <3>2, <3>3 DEF RulesOK, unblockDomain
  <2>2. CASE ~IsPattern(text)
    BY <1>4, <2>2 DEF RulesOK, unblockDomain
  <2> QED
    BY <2>1, <2>2
<1> QED
  BY <1>1, <1>2, <1>3, <1>4 DEF Unblock

(* clearAll leaves rules behind, in the sections it has not reached.       *)
LEMMA ClearType ==
  ASSUME RulesOK, NEW c \in Client, ClearSection(c)
  PROVE  RulesOK'
<1>1. CASE domain_patterns_' = <<>>
  BY <1>1 DEF RulesOK, ClearSection, Range
<1>2. CASE domain_patterns_' = domain_patterns_
  BY <1>2 DEF RulesOK, ClearSection
<1> QED
  BY <1>1, <1>2 DEF ClearSection

(* The history follows the rules.                                          *)
LEMMA ObserveType ==
  ASSUME CallsOK, RulesOK', Observe,
         UNCHANGED <<doing, query, reason>>, section' \in [Client -> IP..Done]
  PROVE  CallsOK'
<1>1. InForce' \subseteq Rule
  BY DEF RulesOK, InForce, Rule, Range
<1>2. Rule' = Rule
  BY DEF Rule
<1> QED
  BY <1>1, <1>2 DEF CallsOK, Observe

LEMMA TypeStep == TypeOK /\ [Next]_vars => TypeOK'
<1> SUFFICES ASSUME TypeOK, [Next]_vars PROVE TypeOK'
  OBVIOUS
<1> USE DEF TypeOK
<1>1. CASE UNCHANGED vars
  BY <1>1 DEF vars, rules, calls, RulesOK, CallsOK, Rule
<1>2. CASE ChangeRule
  BY <1>2, BlockType, UnblockType, ObserveType DEF ChangeRule, calls, CallsOK
<1>3. ASSUME NEW c \in Client, NEW call \in {"check", "clear"}, NEW q \in Query,
             Begin(c, call, q)
      PROVE  TypeOK'
  <2>1. RulesOK'
    BY <1>3 DEF Begin, rules, RulesOK
  <2>2. IP \in IP..Done
    BY DEF IP, Done
  <2> QED
    BY <1>3, <2>1, <2>2, InForceType DEF Begin, CallsOK, Rule
<1>4. ASSUME NEW c \in Client, CheckSection(c) PROVE TypeOK'
  <2>1. RulesOK'
    BY <1>4 DEF CheckSection, rules, RulesOK
  <2>2. section[c] \in Kinds /\ section[c] + 1 \in IP..Done /\ Done \in IP..Done
    BY <1>4 DEF CheckSection, CallsOK, Kinds, IP, PORT, Done
  <2> QED
    BY <1>4, <2>1, <2>2 DEF CheckSection, CallsOK, Rule
<1>5. ASSUME NEW c \in Client, ClearSection(c) PROVE TypeOK'
  <2>1. RulesOK'
    BY <1>5, ClearType
  <2>2. section[c] + 1 \in IP..Done
    BY <1>5 DEF ClearSection, CallsOK, IP, Done
  <2>3. section' \in [Client -> IP..Done]
    BY <1>5, <2>2 DEF ClearSection, CallsOK
  <2> QED
    BY <1>5, <2>1, <2>3, ObserveType DEF ClearSection
<1>6. ASSUME NEW c \in Client, End(c) PROVE TypeOK'
  BY <1>6, ANoQuery DEF End, rules, RulesOK, CallsOK, Rule
<1> QED
  BY <1>1, <1>2, <1>3, <1>4, <1>5, <1>6, ANoQuery DEF Next, BeginClear

LEMMA InitType == Init => TypeOK
BY ANoQuery DEF Init, TypeOK, RulesOK, CallsOK, Kinds, None, IP, Done, Range

(* The rules and the calls in progress have their types in every state.    *)
THEOREM TypeCorrect == Spec => []TypeOK
BY InitType, TypeStep, PTL DEF Spec

----------------------------------------------------------------------------
(* Regularity.                                                             *)

(* While the rules change, a call in progress keeps what it knows.         *)
LEMMA ObserveKeeps ==
  ASSUME TypeOK, NEW c \in Client, InCall(c), Observe,
         UNCHANGED <<doing, query, reason>>, section'[c] = section[c]
  PROVE  InCall(c)'
<1>1. stood'[c] = stood[c] \cap InForce'
  BY DEF Observe, TypeOK, CallsOK
<1>2. doing[c] # "nothing" => ever'[c] = ever[c] \cup InForce'
  BY DEF Observe, TypeOK, CallsOK
<1>3. reason[c] # None => doing[c] # "nothing"
  BY DEF TypeOK, CallsOK
<1> QED
  BY <1>1, <1>2, <1>3 DEF InCall, Matches

(* A step of another client that leaves the rules alone.                   *)
LEMMA OtherKeeps ==
  ASSUME NEW c \in Client, InCall(c), UNCHANGED rules,
         doing'[c] = doing[c], section'[c] = section[c], query'[c] = query[c],
         reason'[c] = reason[c], stood'[c] = stood[c], ever'[c] = ever[c]
  PROVE  InCall(c)'
BY DEF InCall, Matches, InForce, rules

(* The lookup of one section.  A rule that stood all the time is in force, *)
(* so if it matches and is of this section it is found now.                *)
LEMMA CheckKeeps ==
  ASSUME TypeOK, NEW c \in Client, InCall(c), CheckSection(c)
  PROVE  InCall(c)'
<1> DEFINE k == section[c]
<1>1. /\ doing[c] = "check" /\ k \in Kinds /\ reason[c] = None
      /\ stood[c] \subseteq InForce /\ InForce \subseteq ever[c]
  BY DEF CheckSection, InCall, TypeOK, CallsOK, Kinds, IP, PORT, Done
<1>2. /\ doing' = doing /\ query' = query /\ stood' = stood /\ ever' = ever
      /\ InForce' = InForce
  BY DEF CheckSection, rules, InForce
<1>3. \A r \in stood[c] : Matches(r, query[c]) => k <= r[1]
  BY <1>1 DEF InCall
<1>4. \A r : Matches(r, query[c])' <=> Matches(r, query[c])
  BY <1>2 DEF Matches
<1>5. CASE Found(k, query[c])
  <2>1. reason'[c] = k /\ section'[c] = Done
    BY <1>1, <1>5 DEF CheckSection, TypeOK, CallsOK
  <2>2. \E r \in ever[c] : r[1] = k /\ Matches(r, query[c])
    BY <1>1, <1>5, FoundMeans DEF TypeOK
  <2>3. k # None
    BY <1>1 DEF Kinds, IP, PORT, None
  <2> QED
    BY <1>1, <1>2, <1>3, <1>4, <2>1, <2>2, <2>3 DEF InCall
<1>6. CASE ~Found(k, query[c])
  <2>1. reason'[c] = None /\ section'[c] = k + 1
    BY <1>1, <1>6 DEF CheckSection, TypeOK, CallsOK
  <2>2. \A r \in stood[c] : Matches(r, query[c]) => r[1] # k
    BY <1>1, <1>6, FoundMeans DEF TypeOK
  <2>3. \A r \in stood[c] : r[1] \in Int
    BY DEF TypeOK, CallsOK, Rule, IP, APP, DOMAIN_RULE, PORT
  <2>4. \A r \in stood[c] : Matches(r, query[c]) => k + 1 <= r[1]
    BY <1>1, <1>3, <2>2, <2>3 DEF Kinds, IP, PORT
  <2> QED
    BY <1>1, <1>2, <1>4, <2>1, <2>4 DEF InCall
<1> QED
  BY <1>5, <1>6

(* Once a section has been emptied, none of its rules has stood.           *)
LEMMA ClearKeeps ==
  ASSUME TypeOK, NEW c \in Client, InCall(c), ClearSection(c)
  PROVE  InCall(c)'
<1> DEFINE k == section[c]
<1>1. doing[c] = "clear" /\ doing' = doing /\ k \in Kinds
  BY DEF ClearSection, TypeOK, CallsOK, Kinds, IP, PORT, Done
<1>2. stood'[c] = stood[c] \cap InForce' /\ ever'[c] = ever[c] \cup InForce'
  BY <1>1 DEF ClearSection, Observe, TypeOK, CallsOK
<1>3. reason'[c] = None /\ section'[c] = k + 1
  BY <1>1 DEF ClearSection, TypeOK, CallsOK
<1>4. \A r \in InForce' : r[1] # k
  BY <1>1 DEF ClearSection, InForce, Kinds, IP, APP, DOMAIN_RULE, PORT, Range
<1>5. \A r \in stood[c] : r[1] \in Int /\ k <= r[1]
  BY <1>1 DEF InCall, TypeOK, CallsOK, Rule, IP, APP, DOMAIN_RULE, PORT
<1>6. \A r \in stood'[c] : k + 1 <= r[1]
  BY <1>1, <1>2, <1>4, <1>5 DEF Kinds, IP, PORT
<1> QED
  BY <1>1, <1>2, <1>3, <1>6 DEF InCall

LEMMA BeginProgress ==
  ASSUME TypeOK, NEW c \in Client, NEW call \in {"check", "clear"},
         NEW q \in Query, Begin(c, call, q)
  PROVE  InCall(c)'
<1>1. reason'[c] = None /\ section'[c] = IP /\ doing'[c] = call
      /\ stood'[c] = InForce /\ ever'[c] = InForce /\ InForce' = InForce
  BY DEF Begin, TypeOK, CallsOK, rules, InForce
<1>2. \A r \in InForce : IP <= r[1]
  BY InForceType DEF TypeOK, Rule, IP, APP, DOMAIN_RULE, PORT
<1> QED
  BY <1>1, <1>2 DEF InCall

LEMMA ProgressStep == TypeOK /\ Progress /\ [Next]_vars => Progress'
<1> SUFFICES ASSUME TypeOK, Progress, [Next]_vars, NEW c \in Client PROVE InCall(c)'
  BY DEF Progress
<1>0. InCall(c)
  BY DEF Progress
<1>1. CASE UNCHANGED vars
  BY <1>0, <1>1, OtherKeeps DEF vars, calls
<1>2. CASE ChangeRule
  BY <1>0, <1>2, ObserveKeeps DEF ChangeRule, calls
<1>3. ASSUME NEW d \in Client, NEW call \in {"check", "clear"}, NEW q \in Query,
             Begin(d, call, q)
      PROVE  InCall(c)'
  <2>1. CASE c = d
    BY <1>3, <2>1, BeginProgress
  <2>2. CASE c # d
    BY <1>0, <1>3, <2>2, OtherKeeps DEF Begin, TypeOK, CallsOK
  <2> QED
    BY <2>1, <2>2
<1>4. ASSUME NEW d \in Client, CheckSection(d) PROVE InCall(c)'
  <2>1. CASE c = d
    BY <1>0, <1>4, <2>1, CheckKeeps
  <2>2. CASE c # d
    BY <1>0, <1>4, <2>2, OtherKeeps DEF CheckSection, TypeOK, CallsOK
  <2> QED
    BY <2>1, <2>2
<1>5. ASSUME NEW d \in Client, ClearSection(d) PROVE InCall(c)'
  <2>1. CASE c = d
    BY <1>0, <1>5, <2>1, ClearKeeps
  <2>2. CASE c # d
    BY <1>0, <1>5, <2>2, ObserveKeeps DEF ClearSection, TypeOK, CallsOK
  <2> QED
    BY <2>1, <2>2
<1>6. ASSUME NEW d \in Client, End(d) PROVE InCall(c)'
  <2>1. CASE c = d
    BY <1>6, <2>1 DEF End, InCall, TypeOK, CallsOK
  <2>2. CASE c # d
    BY <1>0, <1>6, <2>2, OtherKeeps DEF End, TypeOK, CallsOK
  <2> QED
    BY <2>1, <2>2
<1> QED
  BY <1>1, <1>2, <1>3, <1>4, <1>5, <1>6, ANoQuery DEF Next, BeginClear

THEOREM ProgressHolds == Spec => []Progress
<1>1. Init => Progress
  BY DEF Init, Progress, InCall, None
<1> QED
  BY <1>1, ProgressStep, TypeCorrect, PTL DEF Spec

(* Whatever other threads do to the rules during a check, its answer is    *)
(* one that some rule in force justifies, and no rule that stood all the   *)
(* time is passed over.                                                    *)
THEOREM ChecksAreRegular == Spec => []CheckRegular
<1>1. TypeOK /\ Progress => CheckRegular
  <2> SUFFICES ASSUME TypeOK, Progress, NEW c \in Client, Checked(c)
               PROVE  /\ reason[c] # None =>
                           \E r \in ever[c] : r[1] = reason[c] /\ Matches(r, query[c])
                      /\ \A r \in stood[c] : Matches(r, query[c]) =>
                           reason[c] # None /\ reason[c] <= r[1]
    BY DEF CheckRegular
  <2>1. InCall(c) /\ doing[c] = "check" /\ section[c] = Done
    BY DEF Progress, Checked
  <2>2. \A r \in stood[c] : r[1] \in Kinds
    BY DEF TypeOK, CallsOK, Rule, Kinds, IP, APP, DOMAIN_RULE, PORT
  <2> QED
    BY <2>1, <2>2 DEF InCall, Kinds, IP, PORT, Done
<1> QED
  BY <1>1, TypeCorrect, ProgressHolds, PTL

(* No rule that was there when clearAll began, and has not been set again, *)
(* is left when it returns.                                                *)
THEOREM ClearsAreRegular == Spec => []ClearRegular
<1>1. TypeOK /\ Progress => ClearRegular
  <2> SUFFICES ASSUME TypeOK, Progress, NEW c \in Client,
                      doing[c] = "clear", section[c] = Done
               PROVE  stood[c] = {}
    BY DEF ClearRegular
  <2>1. \A r \in stood[c] : r[1] \in Kinds /\ Done <= r[1]
    BY DEF Progress, InCall, TypeOK, CallsOK, Rule, Kinds, IP, APP, DOMAIN_RULE, PORT
  <2> QED
    BY <2>1 DEF Kinds, IP, PORT, Done
<1> QED
  BY <1>1, TypeCorrect, ProgressHolds, PTL

=============================================================================
