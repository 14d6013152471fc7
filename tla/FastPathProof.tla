--------------------------- MODULE FastPathProof ---------------------------
(***************************************************************************)
(* A fast path with its flow table, for any packets, any rules and any     *)
(* threads that change them: the type invariant, that the fast path uses   *)
(* the rules as RuleManager lets any thread use them, so that what is      *)
(* proved of RuleManager holds of its verdicts, and, while rules are only  *)
(* added, that a blocked flow stays blocked and no host is overlooked;     *)
(* at last the limit of the table and the counters of the tracker.         *)
(***************************************************************************)
EXTENDS FastPath, FiniteSetTheorems, TLAPS

(* The theorems about the rules.  R and Rules are the same instance twice. *)
R == INSTANCE RuleManagerProof WITH Client <- Admin \cup {Fp}

LEMMA RulesAssumed == R!RuleAssumption
<1>1. PICK t \in Tuple : TRUE
  BY FastPathAssumption
<1>2. [ip |-> SrcIp[t], app |-> UNKNOWN, domain |-> NoHost, port |-> DstPort[t]] \in Query
  BY FastPathAssumption DEF Query
<1>3. Host \cup {NoHost} \subseteq Seq(STRING)
  <2>1. <<>> \in Seq(STRING)
    OBVIOUS
  <2> QED
    BY <2>1, FastPathAssumption DEF NoHost
<1>4. Query \subseteq [ip : Address, app : App, domain : Seq(STRING), port : Port]
  BY <1>3 DEF Query
<1> QED
  BY <1>2, <1>4, FastPathAssumption DEF R!RuleAssumption

LEMMA SameInit == R!Init <=> Rules!Init
BY DEF R!Init, R!NoQuery, R!Done, R!None, Rules!Init, Rules!NoQuery,
       Rules!Done, Rules!None

LEMMA SameStep == [R!Next]_(R!vars) <=> [Rules!Next]_(Rules!vars)
BY DEF R!Init, R!Next, R!vars, R!rules, R!calls, R!ChangeRule,
       R!Block, R!Unblock, R!blockIP, R!unblockIP, R!blockApp,
       R!unblockApp, R!blockPort, R!unblockPort, R!blockDomain,
       R!unblockDomain, R!Observe, R!InForce, R!Begin, R!End,
       R!CheckSection, R!ClearSection, R!BeginClear, R!Found,
       R!NoQuery, R!IsPattern, R!domainMatchesBaseDomain,
       R!domainMatchesPattern, R!IP, R!APP, R!DOMAIN_RULE, R!PORT,
       R!Done, R!None, R!Range, R!IsSuffix, R!IsPrefix, R!Reverse,
       R!RemoveFirst, R!RemoveAt, R!SelectInSeq, R!Min, Rules!Init,
       Rules!Next, Rules!vars, Rules!rules, Rules!calls,
       Rules!ChangeRule, Rules!Block, Rules!Unblock, Rules!blockIP,
       Rules!unblockIP, Rules!blockApp, Rules!unblockApp,
       Rules!blockPort, Rules!unblockPort, Rules!blockDomain,
       Rules!unblockDomain, Rules!Observe, Rules!InForce, Rules!Begin,
       Rules!End, Rules!CheckSection, Rules!ClearSection,
       Rules!BeginClear, Rules!Found, Rules!NoQuery, Rules!IsPattern,
       Rules!domainMatchesBaseDomain, Rules!domainMatchesPattern,
       Rules!IP, Rules!APP, Rules!DOMAIN_RULE, Rules!PORT, Rules!Done,
       Rules!None, Rules!Range, Rules!IsSuffix, Rules!IsPrefix,
       Rules!Reverse, Rules!RemoveFirst, Rules!RemoveAt,
       Rules!SelectInSeq, Rules!Min

LEMMA SameTypeOK == R!TypeOK <=> Rules!TypeOK
BY DEF R!TypeOK, R!RulesOK, R!CallsOK, R!Rule, R!IP, R!APP,
       R!DOMAIN_RULE, R!PORT, R!Done, R!None, R!Kinds, R!IsPattern,
       R!Range, Rules!TypeOK, Rules!RulesOK, Rules!CallsOK,
       Rules!Rule, Rules!IP, Rules!APP, Rules!DOMAIN_RULE, Rules!PORT,
       Rules!Done, Rules!None, Rules!Kinds, Rules!IsPattern,
       Rules!Range

LEMMA SameProgress ==
  R!Progress <=>
    \A c \in Admin \cup {Fp} :
      /\ doing[c] # "nothing" =>
           stood[c] \subseteq Rules!InForce /\ Rules!InForce \subseteq ever[c]
      /\ doing[c] = "check" /\ section[c] # Rules!Done => reason[c] = Rules!None
      /\ reason[c] # Rules!None =>
           \E r \in ever[c] : r[1] = reason[c] /\ Rules!Matches(r, query[c])
      /\ doing[c] = "check" =>
           \A r \in stood[c] : Rules!Matches(r, query[c]) =>
             IF reason[c] = Rules!None THEN section[c] <= r[1] ELSE reason[c] <= r[1]
      /\ doing[c] = "clear" => \A r \in stood[c] : section[c] <= r[1]
BY DEF R!Progress, R!InCall, R!InForce, R!Range, R!IP, R!APP, R!DOMAIN_RULE, R!PORT, R!Done,
       R!None, R!Kinds, R!IsPattern, R!MatchesText,
       R!domainMatchesBaseDomain, R!domainMatchesPattern, R!Matches,
       R!IsSuffix, R!IsPrefix, R!Reverse, Rules!InForce, Rules!Range,
       Rules!IP, Rules!APP, Rules!DOMAIN_RULE, Rules!PORT, Rules!Done,
       Rules!None, Rules!Kinds, Rules!IsPattern, Rules!MatchesText,
       Rules!domainMatchesBaseDomain, Rules!domainMatchesPattern,
       Rules!Matches, Rules!IsSuffix, Rules!IsPrefix, Rules!Reverse

LEMMA SameCheckRegular == R!CheckRegular <=> Rules!CheckRegular
BY DEF R!CheckRegular, R!Checked, R!IP, R!APP, R!DOMAIN_RULE, R!PORT,
       R!Done, R!None, R!Kinds, R!IsPattern, R!MatchesText,
       R!domainMatchesBaseDomain, R!domainMatchesPattern, R!Matches,
       R!IsSuffix, R!IsPrefix, R!Reverse, Rules!CheckRegular,
       Rules!Checked, Rules!IP, Rules!APP, Rules!DOMAIN_RULE,
       Rules!PORT, Rules!Done, Rules!None, Rules!Kinds,
       Rules!IsPattern, Rules!MatchesText,
       Rules!domainMatchesBaseDomain, Rules!domainMatchesPattern,
       Rules!Matches, Rules!IsSuffix, Rules!IsPrefix, Rules!Reverse

----------------------------------------------------------------------------
(* Types.                                                                  *)

LEMMA InspectedType ==
  ASSUME NEW conn, NEW host \in Host \cup {NoHost},
         conn = NewConnection \/ conn \in Connection, Now \in Nat
  PROVE  Inspected(Updated(conn), host) \in Connection
<1>1. NoHost \notin Host /\ UNKNOWN \in App /\ AppOf \in [Host -> App]
  BY FastPathAssumption
<1>2. \/ conn \in Connection
      \/ conn \in [state : {"NEW"}, app_type : App, sni : Host \cup {NoHost}, last_seen : Nat]
  BY <1>1 DEF NewConnection
<1>3. Updated(conn) \in Connection
  BY <1>2 DEF Updated, Connection
<1> QED
  BY <1>1, <1>3 DEF Inspected, Connection

(* What processPacket does before it checks the rules.                     *)
LEMMA TakeType ==
  ASSUME TypeOK, Rules!TypeOK, NEW packet \in Packet, TakePacket(packet)
  PROVE  /\ TypeOK'
         /\ \E q \in Query : Rules!Begin(Fp, "check", q)
<1> DEFINE t == packet.tuple
           before == IF t \in DOMAIN connections_ THEN connections_[t] ELSE NewConnection
           conn == Inspected(Updated(before), packet.host)
           q == [ip |-> SrcIp[t], app |-> conn.app_type, domain |-> conn.sni,
                 port |-> DstPort[t]]
<1>1. t \in Tuple /\ packet.host \in Host \cup {NoHost}
  BY FastPathAssumption
<1>2. Now \in Nat
  BY DEF TypeOK, Now
<1>3. before = NewConnection \/ before \in Connection
  BY DEF TypeOK
<1>4. conn \in Connection
  BY <1>1, <1>2, <1>3, InspectedType
<1>5. PICK kept \in Kept(t) :
        connections_' = [u \in kept \cup {t} |-> IF u = t THEN conn ELSE connections_[u]]
  BY DEF TakePacket
<1>6. kept \subseteq DOMAIN connections_
  BY DEF Kept
<1>7. /\ job' = packet /\ Rules!Begin(Fp, "check", q)
      /\ total_seen_' \in Nat /\ classified_count_' \in Nat
      /\ UNCHANGED <<blocked_count_, packets_processed_, packets_dropped_, condemned>>
  BY DEF TakePacket, TypeOK
<1>8. q \in Query
  <2>1. SrcIp[t] \in Address /\ DstPort[t] \in Port
    BY <1>1, FastPathAssumption
  <2> QED
    BY <1>4, <2>1 DEF Query, Connection
<1>9. doing'[Fp] = "check" /\ query'[Fp] = q
  BY <1>7 DEF Rules!Begin, Rules!TypeOK, Rules!CallsOK
<1> HIDE DEF conn
<1>10. /\ DOMAIN connections_' \subseteq Tuple /\ t \in DOMAIN connections_'
       /\ connections_' \in [DOMAIN connections_' -> Connection]
       /\ connections_'[t] = conn
  BY <1>1, <1>4, <1>5, <1>6 DEF TypeOK
<1>11. TypeOK'
  BY <1>7, <1>9, <1>10 DEF TypeOK, Asks
<1> QED
  BY <1>7, <1>8, <1>11

LEMMA VerdictType ==
  ASSUME TypeOK, Rules!TypeOK, Drop \/ Accept
  PROVE  TypeOK' /\ Rules!End(Fp) /\ doing[Fp] = "check"
<1>1. Rules!End(Fp) /\ doing[Fp] = "check"
  BY DEF Drop, Accept, Rules!Checked
<1>2. doing'[Fp] = "nothing"
  BY <1>1 DEF Rules!End, Rules!TypeOK, Rules!CallsOK
<1>3. CASE Drop
  <2>1. job.tuple \in DOMAIN connections_
    BY <1>1 DEF TypeOK
  <2>2. connections_' \in [DOMAIN connections_ -> Connection]
    BY <1>3, <2>1 DEF Drop, TypeOK, Connection
  <2>3. job.tuple \in Tuple
    BY <2>1 DEF TypeOK
  <2> QED
    BY <1>1, <1>2, <1>3, <2>2, <2>3 DEF Drop, TypeOK
<1>4. CASE Accept
  BY <1>1, <1>2, <1>4 DEF Accept, TypeOK
<1> QED
  BY <1>3, <1>4

(* Other threads do not touch the call of the fast path.                   *)
LEMMA AdminLeaves ==
  ASSUME Rules!TypeOK, AdminStep
  PROVE  /\ doing'[Fp] = doing[Fp] /\ query'[Fp] = query[Fp] /\ reason'[Fp] = reason[Fp]
         /\ section'[Fp] = section[Fp]
<1>1. Fp \notin Admin
  BY FastPathAssumption
<1> QED
  BY <1>1 DEF AdminStep, Rules!TypeOK, Rules!CallsOK, Rules!ChangeRule, Rules!calls,
              Rules!BeginClear, Rules!Begin, Rules!ClearSection, Rules!End

(* Every step is one of RuleManager's, or leaves the rules alone.          *)
LEMMA TypeStep ==
  ASSUME TypeOK, Rules!TypeOK, [Next]_vars
  PROVE  TypeOK' /\ [Rules!Next]_(Rules!vars)
<1>1. CASE UNCHANGED vars
  BY <1>1 DEF vars, ruleVars, flowVars, TypeOK, Asks, Rules!vars, Rules!rules, Rules!calls
<1>2. ASSUME NEW packet \in Packet, TakePacket(packet)
      PROVE  TypeOK' /\ Rules!Next
  BY <1>2, TakeType DEF Rules!Next
<1>3. CASE CheckRules
  <2>1. Rules!Next
    BY <1>3 DEF CheckRules, Rules!Next
  <2> QED
    BY <1>3, <2>1 DEF CheckRules, Rules!CheckSection, TypeOK, Asks, flowVars
<1>4. CASE Drop \/ Accept
  BY <1>4, VerdictType DEF Rules!Next
<1>5. CASE AdminStep
  <2>1. Rules!Next
    BY <1>5 DEF AdminStep, Rules!Next
  <2> QED
    BY <1>5, <2>1, AdminLeaves DEF AdminStep, TypeOK, Asks, flowVars
<1> QED
  BY <1>1, <1>2, <1>3, <1>4, <1>5 DEF Next

LEMMA BothTypes == Spec => [](TypeOK /\ Rules!TypeOK)
<1>1. Init => TypeOK /\ Rules!TypeOK
  <2> SUFFICES ASSUME Init PROVE TypeOK /\ Rules!TypeOK
    OBVIOUS
  <2>1. Rules!Init => Rules!TypeOK
    BY RulesAssumed, SameInit, SameTypeOK, R!InitType
  <2>2. Fp \in Admin \cup {Fp}
    OBVIOUS
  <2>3. doing[Fp] = "nothing"
    BY <2>2 DEF Init, Rules!Init
  <2> QED
    BY <2>1, <2>3 DEF Init, TypeOK
<1>2. TypeOK /\ Rules!TypeOK /\ [Next]_vars => TypeOK' /\ [Rules!Next]_(Rules!vars)
  BY TypeStep
<1>3. R!TypeOK /\ [R!Next]_(R!vars) => R!TypeOK'
  BY RulesAssumed, R!TypeStep
<1> QED
  BY <1>1, <1>2, <1>3, SameStep, SameTypeOK, PTL DEF Spec

(* The flow table, the counters and the packet in hand have their types,   *)
(* and the connection that processPacket points at stays in the table.     *)
THEOREM TypeCorrect == Spec => []TypeOK
BY BothTypes, PTL

----------------------------------------------------------------------------
(* The rules.                                                              *)

(* What a fast path and the other threads do to the rules, and in their    *)
(* checks of them, is a behaviour of RuleManager.                          *)
THEOREM FastPathUsesRules == Spec => UsesRules
<1>1. Init => Rules!Init
  BY DEF Init
<1>2. TypeOK /\ Rules!TypeOK /\ [Next]_vars => [Rules!Next]_(Rules!vars)
  BY TypeStep
<1> QED
  BY <1>1, <1>2, BothTypes, PTL DEF Spec, Rules!Spec, UsesRules

LEMMA AsR == Spec => R!Spec
<1>1. UsesRules => R!Spec
  BY SameInit, SameStep, PTL DEF UsesRules, Rules!Spec, R!Spec
<1> QED
  BY <1>1, FastPathUsesRules, PTL

(* Every verdict is justified by the rules in force during the check, and  *)
(* no matching rule that stands all the time is passed over.               *)
THEOREM VerdictsAreRegular == Spec => []VerdictRegular
<1>1. R!Spec => []R!CheckRegular
  BY RulesAssumed, R!ChecksAreRegular
<1>2. R!CheckRegular => VerdictRegular
  BY SameCheckRegular DEF VerdictRegular
<1> QED
  BY <1>1, <1>2, AsR, PTL

----------------------------------------------------------------------------
(* Rules that are only added.                                              *)

HasRule(S, q) == \E r \in S : Rules!Matches(r, q)

State(t) == connections_[t].state

(* The inductive invariant: a blocked connection is one that a rule still  *)
(* in force is against, and so is every check of its packets; a classified *)
(* one carries a host and its application; a packet that shows a host is   *)
(* of a connection that is one or the other.                               *)
Justified ==
  /\ \A c \in Admin : doing[c] # "clear"
  /\ ever[Fp] \subseteq Rules!InForce
  /\ \A t \in DOMAIN connections_ :
       /\ State(t) = "BLOCKED" => HasRule(Rules!InForce, Asks(t))
       /\ State(t) = "CLASSIFIED" => /\ connections_[t].sni \in Host
                                     /\ connections_[t].app_type = AppOf[connections_[t].sni]
  /\ doing[Fp] = "check" =>
       /\ State(job.tuple) = "BLOCKED" => HasRule(stood[Fp], query[Fp])
       /\ job.host # NoHost => State(job.tuple) \in {"CLASSIFIED", "BLOCKED"}

(* A connection once blocked is in the table, and blocked.                 *)
Remembered ==
  \A t \in condemned : t \in DOMAIN connections_ /\ State(t) = "BLOCKED"

(* What is known of the rules in every state, from RuleManager.            *)
Known == TypeOK /\ Rules!TypeOK /\ R!Progress /\ Rules!CheckRegular

LEMMA KnownHolds == Spec => []Known
<1>1. R!Spec => []R!Progress
  BY RulesAssumed, R!ProgressHolds
<1> QED
  BY <1>1, AsR, BothTypes, VerdictsAreRegular, PTL DEF Known, VerdictRegular

(* What updating and inspecting a connection leaves of it.                 *)
LEMMA InspectedKeeps ==
  ASSUME NEW old, NEW host \in Host \cup {NoHost},
         old = NewConnection \/ old \in Connection, Now \in Nat,
         NEW conn, conn = Inspected(Updated(old), host)
  PROVE  /\ conn.state = "BLOCKED" <=> old.state = "BLOCKED"
         /\ \/ conn.app_type = old.app_type /\ conn.sni = old.sni
               /\ (conn.state = "CLASSIFIED" <=> old.state = "CLASSIFIED")
            \/ conn.state = "CLASSIFIED" /\ conn.sni = host /\ host \in Host
               /\ conn.app_type = AppOf[host]
         /\ conn.state = "BLOCKED" => conn.app_type = old.app_type /\ conn.sni = old.sni
         /\ host # NoHost => conn.state \in {"CLASSIFIED", "BLOCKED"}
<1>1. NoHost \notin Host /\ UNKNOWN \in App /\ AppOf \in [Host -> App]
  BY FastPathAssumption
<1>2. \/ old \in Connection
      \/ old \in [state : {"NEW"}, app_type : App, sni : Host \cup {NoHost}, last_seen : Nat]
  BY <1>1 DEF NewConnection
<1>3. PICK up : up = Updated(old)
  OBVIOUS
<1>4. /\ up \in Connection /\ up.app_type = old.app_type /\ up.sni = old.sni
      /\ up.state = "BLOCKED" <=> old.state = "BLOCKED"
      /\ up.state = "CLASSIFIED" <=> old.state = "CLASSIFIED"
  BY <1>2, <1>3 DEF Updated, Connection
<1>5. CASE host = NoHost \/ up.state \in {"CLASSIFIED", "BLOCKED", "CLOSED"}
  <2>1. conn = up
    BY <1>3, <1>5 DEF Inspected
  <2> QED
    BY <1>4, <1>5, <2>1 DEF Connection
<1>6. CASE ~ (host = NoHost \/ up.state \in {"CLASSIFIED", "BLOCKED", "CLOSED"})
  <2>1. conn = [up EXCEPT !.app_type = AppOf[host], !.sni = host, !.state = "CLASSIFIED"]
    BY <1>3, <1>6 DEF Inspected
  <2>2. conn.app_type = AppOf[host] /\ conn.sni = host /\ conn.state = "CLASSIFIED"
    BY <1>4, <2>1 DEF Connection
  <2> QED
    BY <1>4, <1>6, <2>2
<1> QED
  BY <1>5, <1>6

LEMMA TakeJustified ==
  ASSUME Known, Known', Justified, NEW packet \in Packet, TakePacket(packet)
  PROVE  Justified'
<1> DEFINE t == packet.tuple
<1>1. PICK old : old = IF t \in DOMAIN connections_ THEN connections_[t] ELSE NewConnection
  OBVIOUS
<1>2. PICK conn : conn = Inspected(Updated(old), packet.host)
  OBVIOUS
<1>3. /\ t \in Tuple /\ packet.host \in Host \cup {NoHost}
      /\ NoHost \notin Host /\ Fp \notin Admin
  BY FastPathAssumption
<1>4. Now \in Nat /\ (old = NewConnection \/ old \in Connection)
  BY <1>1 DEF Known, TypeOK, Now
<1>5. PICK kept \in Kept(t) :
        connections_' = [u \in kept \cup {t} |-> IF u = t THEN conn ELSE connections_[u]]
  BY <1>1, <1>2 DEF TakePacket
<1>6. kept \subseteq DOMAIN connections_
  BY DEF Kept
<1>7. /\ connections_'[t] = conn /\ t \in DOMAIN connections_'
      /\ \A u \in DOMAIN connections_' : u # t =>
           u \in DOMAIN connections_ /\ connections_'[u] = connections_[u]
  BY <1>5, <1>6
<1>8. PICK q \in Query : Rules!Begin(Fp, "check", q)
  BY TakeType DEF Known
<1>9. /\ job' = packet /\ Rules!InForce' = Rules!InForce
      /\ doing' = [doing EXCEPT ![Fp] = "check"]
      /\ stood'[Fp] = Rules!InForce /\ ever'[Fp] = Rules!InForce
  BY <1>8 DEF Rules!Begin, Rules!rules, Rules!InForce, Known, Rules!TypeOK, Rules!CallsOK,
              TakePacket
<1>10. doing'[Fp] = "check" /\ \A c \in Admin : doing'[c] = doing[c]
  BY <1>3, <1>9 DEF Known, Rules!TypeOK, Rules!CallsOK
<1>11. query'[Fp] = Asks(t)'
  BY <1>9, <1>10 DEF Known, TypeOK, Asks
<1>12. old.state = "BLOCKED" \/ old.state = "CLASSIFIED" => t \in DOMAIN connections_ /\ old = connections_[t]
  BY <1>1 DEF NewConnection
<1>13. conn.state = "BLOCKED" => HasRule(Rules!InForce, Asks(t)')
  <2> SUFFICES ASSUME conn.state = "BLOCKED" PROVE HasRule(Rules!InForce, Asks(t)')
    OBVIOUS
  <2>1. old.state = "BLOCKED" /\ conn.app_type = old.app_type /\ conn.sni = old.sni
    BY <1>2, <1>3, <1>4, InspectedKeeps
  <2>2. Asks(t)' = Asks(t)
    BY <1>7, <1>12, <2>1 DEF Asks
  <2> QED
    BY <1>12, <2>1, <2>2 DEF Justified, State
<1>14. conn.state = "CLASSIFIED" => conn.sni \in Host /\ conn.app_type = AppOf[conn.sni]
  <2> SUFFICES ASSUME conn.state = "CLASSIFIED"
               PROVE  conn.sni \in Host /\ conn.app_type = AppOf[conn.sni]
    OBVIOUS
  <2>1. \/ conn.app_type = old.app_type /\ conn.sni = old.sni /\ old.state = "CLASSIFIED"
        \/ conn.sni \in Host /\ conn.app_type = AppOf[conn.sni]
    BY <1>2, <1>3, <1>4, InspectedKeeps
  <2> QED
    BY <1>12, <2>1 DEF Justified, State
<1>15. packet.host # NoHost => conn.state \in {"CLASSIFIED", "BLOCKED"}
  BY <1>2, <1>3, <1>4, InspectedKeeps
<1>16. \A u \in DOMAIN connections_' : u # t => Asks(u)' = Asks(u)
  BY <1>7 DEF Asks
<1> QED
  BY <1>7, <1>9, <1>10, <1>11, <1>13, <1>14, <1>15, <1>16 DEF Justified, State, HasRule, Rules!Matches

(* A dropped packet marks its connection for a rule that is still there.   *)
LEMMA DropJustified ==
  ASSUME Known, Justified, Drop
  PROVE  Justified'
<1> DEFINE t == job.tuple
<1>1. /\ Rules!End(Fp) /\ doing[Fp] = "check" /\ t \in DOMAIN connections_
      /\ query[Fp] = Asks(t) /\ reason[Fp] # Rules!None /\ Fp \notin Admin
  BY FastPathAssumption DEF Drop, Rules!Checked, Known, TypeOK
<1>2. /\ doing' = [doing EXCEPT ![Fp] = "nothing"] /\ ever'[Fp] = {}
      /\ Rules!InForce' = Rules!InForce
  BY <1>1 DEF Rules!End, Rules!rules, Rules!InForce, Known, Rules!TypeOK, Rules!CallsOK
<1>3. doing'[Fp] # "check" /\ \A c \in Admin : doing'[c] = doing[c]
  BY <1>1, <1>2 DEF Known, Rules!TypeOK, Rules!CallsOK
<1>4. HasRule(Rules!InForce, Asks(t))
  <2>1. \E r \in ever[Fp] : Rules!Matches(r, query[Fp])
    BY <1>1, SameProgress DEF Known
  <2> QED
    BY <1>1, <2>1 DEF Justified, HasRule
<1>5. /\ DOMAIN connections_' = DOMAIN connections_ /\ connections_'[t].state = "BLOCKED"
      /\ \A u \in DOMAIN connections_ :
           /\ connections_'[u].app_type = connections_[u].app_type
           /\ connections_'[u].sni = connections_[u].sni
           /\ u # t => connections_'[u].state = connections_[u].state
  BY <1>1 DEF Drop, Known, TypeOK, Connection
<1>6. \A u \in DOMAIN connections_ : Asks(u)' = Asks(u)
  BY <1>5 DEF Asks
<1> QED
  BY <1>2, <1>3, <1>4, <1>5, <1>6 DEF Justified, State, HasRule, Rules!Matches

LEMMA AcceptJustified ==
  ASSUME Known, Justified, Accept
  PROVE  Justified'
<1>1. Rules!End(Fp) /\ Fp \notin Admin
  BY FastPathAssumption DEF Accept
<1>2. /\ doing' = [doing EXCEPT ![Fp] = "nothing"] /\ ever'[Fp] = {}
      /\ Rules!InForce' = Rules!InForce
  BY <1>1 DEF Rules!End, Rules!rules, Rules!InForce, Known, Rules!TypeOK, Rules!CallsOK
<1>3. doing'[Fp] # "check" /\ \A c \in Admin : doing'[c] = doing[c]
  BY <1>1, <1>2 DEF Known, Rules!TypeOK, Rules!CallsOK
<1> QED
  BY <1>2, <1>3 DEF Accept, Justified, State, Asks, HasRule, Rules!Matches

LEMMA CheckJustified ==
  ASSUME Known, Justified, CheckRules
  PROVE  Justified'
BY DEF CheckRules, Rules!CheckSection, Rules!rules, Rules!InForce, flowVars,
       Justified, State, Asks, HasRule, Rules!Matches

(* Blocking something more takes no rule away.                             *)
LEMMA BlockAdds ==
  ASSUME Rules!TypeOK, Rules!Block
  PROVE  Rules!InForce \subseteq Rules!InForce'
<1>1. ASSUME NEW a \in Address, Rules!blockIP(a) PROVE Rules!InForce \subseteq Rules!InForce'
  BY <1>1 DEF Rules!blockIP, Rules!InForce
<1>2. ASSUME NEW a \in App, Rules!blockApp(a) PROVE Rules!InForce \subseteq Rules!InForce'
  BY <1>2 DEF Rules!blockApp, Rules!InForce
<1>3. ASSUME NEW n \in Port, Rules!blockPort(n) PROVE Rules!InForce \subseteq Rules!InForce'
  BY <1>3 DEF Rules!blockPort, Rules!InForce
<1>4. ASSUME NEW text \in Text, Rules!blockDomain(text)
      PROVE  Rules!InForce \subseteq Rules!InForce'
  <2>1. CASE Rules!IsPattern(text)
    <3>1. domain_patterns_' = Append(domain_patterns_, text)
          /\ UNCHANGED <<blocked_ips_, blocked_apps_, blocked_domains_, blocked_ports_>>
      BY <1>4, <2>1 DEF Rules!blockDomain
    <3>2. Rules!Range(domain_patterns_) \subseteq Rules!Range(domain_patterns_')
      BY <3>1 DEF Rules!Range, Rules!TypeOK, Rules!RulesOK
    <3> QED
      BY <3>1, <3>2 DEF Rules!InForce
  <2>2. CASE ~Rules!IsPattern(text)
    BY <1>4, <2>2 DEF Rules!blockDomain, Rules!InForce
  <2> QED
    BY <2>1, <2>2
<1> QED
  BY <1>1, <1>2, <1>3, <1>4 DEF Rules!Block

LEMMA AdminJustified ==
  ASSUME Ops = {"block"}, Known, Justified, AdminStep
  PROVE  Justified'
<1>1. Fp \notin Admin
  BY FastPathAssumption
<1>2. UNCHANGED flowVars
  BY DEF AdminStep
<1>3. CASE Rules!ChangeRule
  <2>1. /\ Rules!Block /\ Rules!Observe /\ doing' = doing /\ query' = query
        /\ "block" # "unblock"
    BY <1>3 DEF Rules!ChangeRule, Rules!calls
  <2>2. Rules!InForce \subseteq Rules!InForce'
    BY <2>1, BlockAdds DEF Known
  <2>3. stood'[Fp] = stood[Fp] \cap Rules!InForce' /\ ever'[Fp] \subseteq ever[Fp] \cup Rules!InForce'
    BY <2>1 DEF Rules!Observe
  <2>4. stood[Fp] \subseteq Rules!InForce
    BY SameProgress DEF Known, Rules!TypeOK, Rules!CallsOK
  <2>5. stood'[Fp] = stood[Fp] /\ ever'[Fp] \subseteq Rules!InForce'
    BY <2>2, <2>3, <2>4 DEF Justified
  <2> QED
    BY <1>2, <2>1, <2>2, <2>5 DEF flowVars, Justified, State, Asks, HasRule, Rules!Matches
<1>4. ASSUME NEW c \in Admin, Rules!BeginClear(c) \/ Rules!ClearSection(c) PROVE FALSE
  BY <1>4 DEF Justified, Rules!BeginClear, Rules!ClearSection
<1>5. ASSUME NEW c \in Admin, Rules!End(c) PROVE Justified'
  <2>1. /\ doing' = [doing EXCEPT ![c] = "nothing"] /\ Rules!InForce' = Rules!InForce
        /\ stood'[Fp] = stood[Fp] /\ ever'[Fp] = ever[Fp] /\ query'[Fp] = query[Fp]
    BY <1>1, <1>5 DEF Rules!End, Rules!rules, Rules!InForce, Known, Rules!TypeOK, Rules!CallsOK
  <2>2. doing'[Fp] = doing[Fp] /\ \A d \in Admin : doing'[d] # "clear"
    BY <1>1, <2>1 DEF Known, Rules!TypeOK, Rules!CallsOK, Justified
  <2> QED
    BY <1>2, <2>1, <2>2 DEF flowVars, Justified, State, Asks, HasRule, Rules!Matches
<1> QED
  BY <1>3, <1>4, <1>5 DEF AdminStep

LEMMA JustifiedStep ==
  ASSUME Ops = {"block"}, Known, Known', Justified, [Next]_vars
  PROVE  Justified'
<1>1. CASE UNCHANGED vars
  BY <1>1 DEF vars, ruleVars, flowVars, Justified, State, Asks, HasRule, Rules!Matches,
              Rules!InForce
<1> QED
  BY <1>1, TakeJustified, DropJustified, AcceptJustified, CheckJustified, AdminJustified
     DEF Next

LEMMA JustifiedHolds ==
  ASSUME Ops = {"block"}
  PROVE  Spec => []Justified
<1>1. Init => Justified
  <2> SUFFICES ASSUME Init PROVE Justified
    OBVIOUS
  <2>1. \A c \in Admin \cup {Fp} : doing[c] = "nothing" /\ ever[c] = {}
    BY DEF Init, Rules!Init
  <2> QED
    BY <2>1 DEF Init, Justified
<1>2. Known /\ Known' /\ Justified /\ [Next]_vars => Justified'
  BY JustifiedStep
<1> QED
  BY <1>1, <1>2, KnownHolds, PTL DEF Spec

(* A check that a standing rule matches finds one.                         *)
LEMMA StandingRuleFound ==
  ASSUME Known, Rules!Checked(Fp), HasRule(stood[Fp], query[Fp])
  PROVE  reason[Fp] # Rules!None
BY DEF Known, Rules!CheckRegular, HasRule

(* While rules are only added, no packet passes with the first host of its *)
(* flow against a rule that stands, and the blocked flows are no exception.*)
THEOREM FirstHostsEnforced ==
  ASSUME Ops = {"block"}
  PROVE  Spec => []FirstHostEnforced
<1>1. Known /\ Justified => FirstHostEnforced
  <2> SUFFICES ASSUME Known, Justified, Rules!Checked(Fp), job.host # NoHost,
                      connections_[job.tuple].sni \in {NoHost, job.host},
                      HasRule(stood[Fp], OwnQuery)
               PROVE  reason[Fp] # Rules!None
    BY DEF FirstHostEnforced, HasRule
  <2>1. doing[Fp] = "check" /\ query[Fp] = Asks(job.tuple) /\ job.tuple \in DOMAIN connections_
    BY DEF Rules!Checked, Known, TypeOK
  <2>2. CASE State(job.tuple) = "BLOCKED"
    BY <2>1, <2>2, StandingRuleFound DEF Justified
  <2>3. CASE State(job.tuple) = "CLASSIFIED"
    <3>1. connections_[job.tuple].sni = job.host
          /\ connections_[job.tuple].app_type = AppOf[job.host]
      BY <2>1, <2>3, FastPathAssumption DEF Justified
    <3>2. query[Fp] = OwnQuery
      BY <2>1, <3>1 DEF Asks, OwnQuery
    <3> QED
      BY <3>2, StandingRuleFound
  <2> QED
    BY <2>1, <2>2, <2>3 DEF Justified
<1> QED
  BY <1>1, KnownHolds, JustifiedHolds, PTL

(* A table with room for every flow evicts none.                           *)
LEMMA NoEviction ==
  ASSUME IsFiniteSet(Tuple), Cardinality(Tuple) <= max_connections_, TypeOK,
         NEW t \in Tuple, NEW kept \in Kept(t)
  PROVE  kept = DOMAIN connections_
<1>1. CASE t \in DOMAIN connections_
  BY <1>1 DEF Kept
<1>2. CASE t \notin DOMAIN connections_
  <2>1. DOMAIN connections_ \subseteq Tuple \ {t}
    BY <1>2 DEF TypeOK
  <2>2. /\ IsFiniteSet(Tuple \ {t}) /\ Cardinality(Tuple \ {t}) = Cardinality(Tuple) - 1
        /\ Cardinality(Tuple) \in Nat
    BY FS_RemoveElement, FS_CardinalityType
  <2>3. Cardinality(DOMAIN connections_) <= Cardinality(Tuple \ {t})
        /\ Cardinality(DOMAIN connections_) \in Nat
    BY <2>1, <2>2, FS_Subset, FS_CardinalityType
  <2>4. Cardinality(DOMAIN connections_) < max_connections_
    BY <2>2, <2>3, FastPathAssumption
  <2> QED
    BY <2>4 DEF Kept
<1> QED
  BY <1>1, <1>2

LEMMA RememberedStep ==
  ASSUME IsFiniteSet(Tuple), Cardinality(Tuple) <= max_connections_,
         Known, Remembered, [Next]_vars
  PROVE  Remembered'
<1>1. CASE UNCHANGED vars
  BY <1>1 DEF vars, flowVars, Remembered, State
<1>2. ASSUME NEW packet \in Packet, TakePacket(packet) PROVE Remembered'
  <2> DEFINE t == packet.tuple
  <2>1. PICK old : old = IF t \in DOMAIN connections_ THEN connections_[t] ELSE NewConnection
    OBVIOUS
  <2>2. PICK conn : conn = Inspected(Updated(old), packet.host)
    OBVIOUS
  <2>3. t \in Tuple /\ packet.host \in Host \cup {NoHost}
    BY FastPathAssumption
  <2>4. Now \in Nat /\ (old = NewConnection \/ old \in Connection)
    BY <2>1 DEF Known, TypeOK, Now
  <2>5. PICK kept \in Kept(t) :
          connections_' = [u \in kept \cup {t} |-> IF u = t THEN conn ELSE connections_[u]]
    BY <1>2, <2>1, <2>2 DEF TakePacket
  <2>6. kept = DOMAIN connections_
    BY <2>3, NoEviction DEF Known
  <2>7. old.state = "BLOCKED" => conn.state = "BLOCKED"
    BY <2>2, <2>3, <2>4, InspectedKeeps
  <2>8. condemned' = condemned
    BY <1>2 DEF TakePacket
  <2> QED
    BY <2>1, <2>5, <2>6, <2>7, <2>8 DEF Remembered, State
<1>3. CASE CheckRules \/ AdminStep
  BY <1>3 DEF CheckRules, AdminStep, flowVars, Remembered, State
<1>4. CASE Drop
  <2>1. job.tuple \in DOMAIN connections_
    BY <1>4 DEF Drop, Rules!Checked, Known, TypeOK
  <2> QED
    BY <1>4, <2>1 DEF Drop, Known, TypeOK, Connection, Remembered, State
<1>5. CASE Accept
  BY <1>5 DEF Accept, Remembered, State
<1> QED
  BY <1>1, <1>2, <1>3, <1>4, <1>5 DEF Next

(* While rules are only added and the table has room for every flow, no    *)
(* packet of a flow is accepted once one has been dropped.                 *)
THEOREM BlockedFlowsStayBlocked ==
  ASSUME Ops = {"block"}, IsFiniteSet(Tuple), Cardinality(Tuple) <= max_connections_
  PROVE  Spec => []FlowStaysBlocked
<1>1. Init => Remembered
  BY DEF Init, Remembered
<1>2. Known /\ Remembered /\ [Next]_vars => Remembered'
  BY RememberedStep
<1>3. Known /\ Justified /\ Remembered => FlowStaysBlocked
  BY StandingRuleFound DEF FlowStaysBlocked, Justified, Remembered, Rules!Checked
<1> QED
  BY <1>1, <1>2, <1>3, KnownHolds, JustifiedHolds, PTL DEF Spec

----------------------------------------------------------------------------
(* The limit of the flow table.                                            *)

Bounded == IsFiniteSet(DOMAIN connections_) /\ TableBounded

LEMMA TakeBounded ==
  ASSUME Bounded, NEW t, NEW kept \in Kept(t)
  PROVE  IsFiniteSet(kept \cup {t})
         /\ Cardinality(kept \cup {t}) <= IF max_connections_ = 0 THEN 1 ELSE max_connections_
<1> DEFINE D == DOMAIN connections_
<1>1. IsFiniteSet(D) /\ Cardinality(D) \in Nat /\ max_connections_ \in Nat
  BY FS_CardinalityType, FastPathAssumption DEF Bounded
<1>2. CASE t \in D
  <2>1. kept = D /\ kept \cup {t} = D
    BY <1>2 DEF Kept
  <2> QED
    BY <2>1 DEF Bounded, TableBounded
<1>3. CASE t \notin D /\ (Cardinality(D) < max_connections_ \/ D = {})
  <2>1. kept = D
    BY <1>3 DEF Kept
  <2>2. IsFiniteSet(D \cup {t}) /\ Cardinality(D \cup {t}) = Cardinality(D) + 1
    BY <1>1, <1>3, FS_AddElement
  <2>3. D = {} => Cardinality(D) = 0
    BY FS_EmptySet
  <2> QED
    BY <1>1, <1>3, <2>1, <2>2, <2>3
<1>4. CASE t \notin D /\ ~ (Cardinality(D) < max_connections_ \/ D = {})
  <2>1. PICK o \in D : kept = D \ {o}
    BY <1>4 DEF Kept, Oldest
  <2>2. IsFiniteSet(kept) /\ Cardinality(kept) = Cardinality(D) - 1
    BY <1>1, <2>1, FS_RemoveElement
  <2>3. t \notin kept
    BY <1>4, <2>1
  <2>4. IsFiniteSet(kept \cup {t}) /\ Cardinality(kept \cup {t}) = Cardinality(kept) + 1
    BY <2>2, <2>3, FS_AddElement
  <2> QED
    BY <1>1, <2>2, <2>4 DEF Bounded, TableBounded
<1> QED
  BY <1>2, <1>3, <1>4

LEMMA BoundedStep == Known /\ Bounded /\ [Next]_vars => Bounded'
<1> SUFFICES ASSUME Known, Bounded, [Next]_vars PROVE Bounded'
  OBVIOUS
<1>1. ASSUME NEW packet \in Packet, TakePacket(packet) PROVE Bounded'
  <2>1. PICK kept \in Kept(packet.tuple) : DOMAIN connections_' = kept \cup {packet.tuple}
    BY <1>1 DEF TakePacket
  <2> QED
    BY <2>1, TakeBounded DEF Bounded, TableBounded
<1>2. ASSUME ~ \E packet \in Packet : TakePacket(packet) PROVE Bounded'
  <2>1. DOMAIN connections_' = DOMAIN connections_
    BY <1>2 DEF Next, CheckRules, Drop, Accept, AdminStep, vars, flowVars
  <2> QED
    BY <2>1 DEF Bounded, TableBounded
<1> QED
  BY <1>1, <1>2

(* Whatever packets come, the table does not outgrow its limit.            *)
THEOREM TableNeverOverfull == Spec => []TableBounded
<1>1. Init => Bounded
  <2> SUFFICES ASSUME Init PROVE Bounded
    OBVIOUS
  <2>1. DOMAIN connections_ = {}
    BY DEF Init
  <2> QED
    BY <2>1, FS_EmptySet, FastPathAssumption DEF Bounded, TableBounded
<1>2. Bounded => TableBounded
  BY DEF Bounded
<1> QED
  BY <1>1, <1>2, BoundedStep, KnownHolds, PTL DEF Spec

----------------------------------------------------------------------------
(* The counters of the tracker.                                            *)

Blocked    == {t \in DOMAIN connections_ : connections_[t].state = "BLOCKED"}
Classified == {t \in DOMAIN connections_ : connections_[t].app_type # UNKNOWN}

(* The inductive strengthening of CountersAgree: a connection that is not  *)
(* yet classified or blocked has no application, so that none is lost when *)
(* it gets one.                                                            *)
Counted ==
  /\ \A t \in DOMAIN connections_ :
       connections_[t].state = "ESTABLISHED" => connections_[t].app_type = UNKNOWN
  /\ blocked_count_    - Cardinality(Blocked)    \in 0..Evicted
  /\ classified_count_ - Cardinality(Classified) \in 0..Evicted
  /\ blocked_count_ <= packets_dropped_

(* A connection that is evicted leaves the set of those counted, if it is  *)
(* in it; the one that takes its place is in the set if it was counted.    *)
LEMMA Recount ==
  ASSUME NEW D, IsFiniteSet(D), NEW S \in SUBSET D, NEW t, t \notin D,
         NEW kept, kept = D \/ \E o \in D : kept = D \ {o},
         NEW count \in Nat, NEW seen \in Nat, NEW new \in SUBSET {t},
         count - Cardinality(S) \in 0 .. seen - Cardinality(D)
  PROVE  /\ count + Cardinality(new) - Cardinality((S \cap kept) \cup new)
              \in 0 .. (seen + 1) - Cardinality(kept \cup {t})
         /\ Cardinality((S \cap kept) \cup new) \in Nat /\ Cardinality(kept \cup {t}) \in Nat
<1>1. /\ IsFiniteSet(S) /\ Cardinality(S) \in Nat /\ Cardinality(D) \in Nat
      /\ Cardinality(S) <= Cardinality(D)
  BY FS_Subset, FS_CardinalityType
<1>2. /\ IsFiniteSet(kept) /\ IsFiniteSet(S \cap kept)
      /\ Cardinality(kept) \in Nat /\ Cardinality(S \cap kept) \in Nat
      /\ Cardinality(S) - Cardinality(S \cap kept) \in 0 .. Cardinality(D) - Cardinality(kept)
  <2>1. CASE kept = D
    <3>1. S \cap kept = S
      BY <2>1
    <3> QED
      BY <1>1, <2>1, <3>1
  <2>2. ASSUME NEW o \in D, kept = D \ {o}, o \in S
        PROVE  <1>2
    <3>1. S \cap kept = S \ {o}
      BY <2>2
    <3>2. IsFiniteSet(kept) /\ Cardinality(kept) = Cardinality(D) - 1
      BY <2>2, FS_RemoveElement
    <3>3. IsFiniteSet(S \ {o}) /\ Cardinality(S \ {o}) = Cardinality(S) - 1
      BY <1>1, <2>2, FS_RemoveElement
    <3>4. Cardinality(kept) \in Nat /\ Cardinality(S \ {o}) \in Nat
      BY <3>2, <3>3, FS_CardinalityType
    <3> QED
      BY <1>1, <3>1, <3>2, <3>3, <3>4
  <2>3. ASSUME NEW o \in D, kept = D \ {o}, o \notin S
        PROVE  <1>2
    <3>1. S \cap kept = S
      BY <2>3
    <3>2. IsFiniteSet(kept) /\ Cardinality(kept) = Cardinality(D) - 1
      BY <2>3, FS_RemoveElement
    <3>3. Cardinality(kept) \in Nat
      BY <3>2, FS_CardinalityType
    <3> QED
      BY <1>1, <3>1, <3>2, <3>3
  <2> QED
    BY <2>1, <2>2, <2>3
<1>3. Cardinality(kept \cup {t}) = Cardinality(kept) + 1
  <2>1. t \notin kept
    OBVIOUS
  <2> QED
    BY <1>2, <2>1, FS_AddElement
<1>4. count - Cardinality(S \cap kept) \in 0 .. seen - Cardinality(kept)
  BY <1>1, <1>2
<1>5. CASE new = {}
  <2>1. Cardinality(new) = 0 /\ (S \cap kept) \cup new = S \cap kept
    BY <1>5, FS_EmptySet
  <2>2. Cardinality((S \cap kept) \cup new) = Cardinality(S \cap kept)
    BY <2>1, Zenon
  <2> QED
    BY <1>2, <1>3, <1>4, <2>1, <2>2
<1>6. CASE new = {t}
  <2>1. t \notin S \cap kept
    OBVIOUS
  <2>2. /\ Cardinality(new) = 1
        /\ Cardinality((S \cap kept) \cup new) = Cardinality(S \cap kept) + 1
    BY <1>2, <1>6, <2>1, FS_Singleton, FS_AddElement
  <2>3. count + Cardinality(new) - Cardinality((S \cap kept) \cup new)
          = count - Cardinality(S \cap kept)
    BY <1>2, <2>2
  <2>4. (seen + 1) - Cardinality(kept \cup {t}) = seen - Cardinality(kept)
    BY <1>2, <1>3
  <2> QED
    BY <1>2, <1>3, <1>4, <2>2, <2>3, <2>4
<1> QED
  BY <1>5, <1>6

(* A connection is created or looked up, updated, and perhaps classified.  *)
LEMMA TakeCounted ==
  ASSUME TypeOK, Bounded, Counted, NEW packet \in Packet, TakePacket(packet)
  PROVE  Counted'
<1> DEFINE t == packet.tuple
           D == DOMAIN connections_
           known == t \in D
           before == IF known THEN connections_[t] ELSE NewConnection
           conn == Inspected(Updated(before), packet.host)
           gains == before.app_type = UNKNOWN /\ conn.app_type # UNKNOWN
<1>1. PICK kept \in Kept(t) :
        connections_' = [u \in kept \cup {t} |-> IF u = t THEN conn ELSE connections_[u]]
  BY DEF TakePacket
<1>2. /\ kept = D \/ \E o \in D : kept = D \ {o}
      /\ known => kept = D /\ kept \cup {t} = D
  BY DEF Kept, Oldest
<1>3. /\ total_seen_' = IF known THEN total_seen_ ELSE total_seen_ + 1
      /\ classified_count_' = IF gains THEN classified_count_ + 1 ELSE classified_count_
      /\ UNCHANGED <<blocked_count_, packets_dropped_>>
  BY DEF TakePacket
<1>4. /\ before = NewConnection \/ (known /\ before \in Connection)
      /\ packet.host \in Host \cup {NoHost}
      /\ before.state \in {"NEW", "ESTABLISHED"} => before.app_type = UNKNOWN
  <2>1. packet.host \in Host \cup {NoHost}
    BY FastPathAssumption
  <2>2. CASE known
    BY <2>1, <2>2 DEF TypeOK, Counted, Connection
  <2>3. CASE ~known
    BY <2>1, <2>3 DEF NewConnection
  <2> QED
    BY <2>2, <2>3
<1>5. /\ conn.state = "BLOCKED" <=> before.state = "BLOCKED"
      /\ conn.state = "ESTABLISHED" => conn.app_type = UNKNOWN
      /\ before.app_type # UNKNOWN => conn.app_type # UNKNOWN
      /\ ~known => before.state # "BLOCKED" /\ before.app_type = UNKNOWN
  BY <1>4 DEF NewConnection, Connection, Updated, Inspected
<1>6. /\ IsFiniteSet(D) /\ Blocked \in SUBSET D /\ Classified \in SUBSET D
      /\ total_seen_ \in Nat /\ blocked_count_ \in Nat /\ classified_count_ \in Nat
  BY DEF Bounded, TypeOK, Blocked, Classified
<1> HIDE DEF conn, before, known
<1>7. /\ DOMAIN connections_' = kept \cup {t}
      /\ \A u \in kept \cup {t} : connections_'[u] = IF u = t THEN conn ELSE connections_[u]
  BY <1>1
<1>8. \A u \in DOMAIN connections_' :
        connections_'[u].state = "ESTABLISHED" => connections_'[u].app_type = UNKNOWN
  BY <1>2, <1>5, <1>7 DEF Counted
<1>9. CASE known
  <2>1. DOMAIN connections_' = D /\ t \in D /\ before = connections_[t] /\ total_seen_' = total_seen_
    BY <1>2, <1>3, <1>7, <1>9 DEF known, before
  <2>2. Evicted' = Evicted
    BY <2>1 DEF Evicted
  <2>3. Blocked' = Blocked
    BY <1>5, <1>7, <2>1 DEF Blocked
  <2>4. Classified' = IF gains THEN Classified \cup {t} ELSE Classified
    BY <1>5, <1>7, <2>1 DEF Classified
  <2>5. gains => t \notin Classified
    BY <2>1 DEF Classified
  <2>6. IsFiniteSet(Classified) /\ Cardinality(Classified) \in Nat
    BY <1>6, FS_Subset, FS_CardinalityType
  <2>7. classified_count_' - Cardinality(Classified') = classified_count_ - Cardinality(Classified)
    <3>1. CASE gains
      <4>1. /\ classified_count_' = classified_count_ + 1
            /\ Classified' = Classified \cup {t} /\ t \notin Classified
        BY <1>3, <2>4, <2>5, <3>1
      <4>2. Cardinality(Classified') = Cardinality(Classified) + 1
        BY <2>6, <4>1, FS_AddElement
      <4> QED
        BY <1>6, <2>6, <4>1, <4>2
    <3>2. CASE ~gains
      BY <1>3, <2>4, <3>2
    <3> QED
      BY <3>1, <3>2
  <2> QED
    BY <1>3, <1>8, <2>2, <2>3, <2>7 DEF Counted
<1>10. CASE ~known
  <2>1. t \notin D /\ total_seen_' = total_seen_ + 1
    BY <1>3, <1>10 DEF known
  <2>2. Evicted' = (total_seen_ + 1) - Cardinality(kept \cup {t})
    BY <1>7, <2>1 DEF Evicted
  <2>3. Blocked' = (Blocked \cap kept) \cup {}
    BY <1>2, <1>5, <1>7, <1>10, <2>1 DEF Blocked
  <2>4. Classified' = (Classified \cap kept) \cup (IF gains THEN {t} ELSE {})
    BY <1>2, <1>5, <1>7, <1>10, <2>1 DEF Classified
  <2>5. blocked_count_' - Cardinality(Blocked') \in 0..Evicted'
    <3>1. /\ blocked_count_ + Cardinality({}) - Cardinality((Blocked \cap kept) \cup {})
               \in 0 .. (total_seen_ + 1) - Cardinality(kept \cup {t})
          /\ Cardinality((Blocked \cap kept) \cup {}) \in Nat
          /\ Cardinality(kept \cup {t}) \in Nat
      BY <1>2, <1>6, <2>1, Recount DEF Counted, Evicted
    <3>2. blocked_count_ + Cardinality({}) = blocked_count_'
      <4>1. Cardinality({}) = 0 /\ blocked_count_' = blocked_count_
        BY <1>3, FS_EmptySet
      <4> QED
        BY <1>6, <4>1
    <3>3. Cardinality(Blocked') = Cardinality((Blocked \cap kept) \cup {})
      BY <2>3, Zenon
    <3>4. blocked_count_' \in Nat /\ total_seen_ + 1 \in Nat
      BY <1>3, <1>6
    <3>5. Cardinality({}) \in Nat
      BY FS_EmptySet
    <3> QED
      BY <1>6, <2>2, <3>1, <3>2, <3>3, <3>4, <3>5
  <2>6. classified_count_' - Cardinality(Classified') \in 0..Evicted'
    <3> DEFINE new == IF gains THEN {t} ELSE {}
    <3>1. new \in SUBSET {t}
      OBVIOUS
    <3>2. classified_count_' = classified_count_ + Cardinality(new)
      <4>1. Cardinality(new) = IF gains THEN 1 ELSE 0
        BY FS_EmptySet, FS_Singleton
      <4> QED
        BY <1>3, <1>6, <4>1
    <3>3. Classified' = (Classified \cap kept) \cup new
      BY <2>4
    <3> HIDE DEF new
    <3>4. /\ classified_count_ + Cardinality(new) - Cardinality((Classified \cap kept) \cup new)
               \in 0 .. (total_seen_ + 1) - Cardinality(kept \cup {t})
          /\ Cardinality((Classified \cap kept) \cup new) \in Nat
          /\ Cardinality(kept \cup {t}) \in Nat
      BY <1>2, <1>6, <2>1, <3>1, Recount DEF Counted, Evicted
    <3>5. classified_count_' \in Nat /\ total_seen_ + 1 \in Nat
      BY <1>3, <1>6
    <3>6. Cardinality(Classified') = Cardinality((Classified \cap kept) \cup new)
      BY <3>3, Zenon
    <3>7. Cardinality(new) \in Nat
      BY FS_EmptySet, FS_Singleton DEF new
    <3> QED
      BY <1>6, <2>2, <3>2, <3>4, <3>5, <3>6, <3>7
  <2> QED
    BY <1>3, <1>8, <2>5, <2>6 DEF Counted
<1> QED
  BY <1>9, <1>10

(* blockConnection counts a connection that is not blocked yet.            *)
LEMMA DropCounted ==
  ASSUME TypeOK, Bounded, Counted, Drop
  PROVE  Counted'
<1> DEFINE t == job.tuple
<1>1. t \in DOMAIN connections_
  BY DEF Drop, Rules!Checked, TypeOK
<1>2. /\ DOMAIN connections_' = DOMAIN connections_
      /\ \A u \in DOMAIN connections_ :
           /\ connections_'[u].app_type = connections_[u].app_type
           /\ connections_'[u].state = IF u = t THEN "BLOCKED" ELSE connections_[u].state
      /\ UNCHANGED <<total_seen_, classified_count_>>
      /\ blocked_count_' = IF t \in Blocked THEN blocked_count_ ELSE blocked_count_ + 1
      /\ packets_dropped_' = packets_dropped_ + 1
  BY <1>1 DEF Drop, TypeOK, Connection, Blocked
<1>3. Evicted' = Evicted /\ Classified' = Classified /\ Blocked' = Blocked \cup {t}
  BY <1>1, <1>2 DEF Evicted, Classified, Blocked
<1>4. IsFiniteSet(Blocked) /\ Cardinality(Blocked) \in Nat
  <2>1. Blocked \subseteq DOMAIN connections_
    BY DEF Blocked
  <2> QED
    BY <2>1, FS_Subset, FS_CardinalityType DEF Bounded
<1>5. blocked_count_ \in Nat /\ packets_dropped_ \in Nat
  BY DEF TypeOK
<1>6. blocked_count_' - Cardinality(Blocked') = blocked_count_ - Cardinality(Blocked)
  <2>1. CASE t \in Blocked
    <3>1. Blocked' = Blocked /\ blocked_count_' = blocked_count_
      BY <1>2, <1>3, <2>1
    <3> QED
      BY <3>1
  <2>2. CASE t \notin Blocked
    <3>1. Blocked' = Blocked \cup {t} /\ blocked_count_' = blocked_count_ + 1
      BY <1>2, <1>3, <2>2
    <3>2. Cardinality(Blocked') = Cardinality(Blocked) + 1
      BY <1>4, <2>2, <3>1, FS_AddElement
    <3> QED
      BY <1>4, <1>5, <3>1, <3>2
  <2> QED
    BY <2>1, <2>2
<1>7. blocked_count_' <= packets_dropped_'
  BY <1>2, <1>5 DEF Counted
<1> QED
  BY <1>2, <1>3, <1>6, <1>7 DEF Counted

(* Whatever comes, the tracker counts connections and not packets: those   *)
(* it counts as blocked or classified are those in the table that are, and *)
(* at most all of the evicted ones.                                        *)
THEOREM CountersAlwaysAgree == Spec => []CountersAgree
<1>1. Init => Bounded /\ Counted
  <2> SUFFICES ASSUME Init PROVE Bounded /\ Counted
    OBVIOUS
  <2>1. DOMAIN connections_ = {} /\ Blocked = {} /\ Classified = {}
    BY DEF Init, Blocked, Classified
  <2> QED
    BY <2>1, FS_EmptySet, FastPathAssumption
       DEF Init, Bounded, TableBounded, Counted, Evicted
<1>2. Known /\ Bounded /\ Counted /\ [Next]_vars => Counted'
  <2> SUFFICES ASSUME Known, Bounded, Counted, [Next]_vars PROVE Counted'
    OBVIOUS
  <2>1. ASSUME UNCHANGED flowVars PROVE Counted'
    BY <2>1 DEF flowVars, Counted, Blocked, Classified, Evicted
  <2>2. CASE Accept
    <3>1. UNCHANGED <<connections_, total_seen_, classified_count_, blocked_count_, packets_dropped_>>
      BY <2>2 DEF Accept
    <3> QED
      BY <3>1 DEF Counted, Blocked, Classified, Evicted
  <2> QED
    BY <2>1, <2>2, TakeCounted, DropCounted DEF Known, Next, CheckRules, AdminStep, vars
<1>3. Counted => CountersAgree
  BY DEF Counted, CountersAgree, Tracked, Blocked, Classified
<1> QED
  BY <1>1, <1>2, <1>3, BoundedStep, KnownHolds, PTL DEF Spec

=============================================================================
