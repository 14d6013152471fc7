---------------------------- MODULE RuleFileProof ----------------------------
(***************************************************************************)
(* RuleFile for any rules, threads, words and files: its types, that the   *)
(* rules do nothing under saveRules and loadRules that they do not do      *)
(* without (so what RuleManagerProof says of checks and of clearAll holds  *)
(* here too), what saveRules writes while the rules change, and what       *)
(* loadRules makes of a file that saveRules has written.                   *)
(***************************************************************************)
EXTENDS RuleFile, RuleManagerProof, FiniteSetTheorems, SequenceTheorems

(* The sets of rules are finite, so that they can be listed.               *)
Finite ==
  /\ IsFiniteSet(blocked_ips_) /\ IsFiniteSet(blocked_apps_)
  /\ IsFiniteSet(blocked_ports_) /\ IsFiniteSet(blocked_domains_)

(* How far saveRules has come: rules of the kinds it has copied are saved, *)
(* those in force all the time among them.  This is the inductive          *)
(* strengthening of SaveRegular.                                           *)
Copied ==
  /\ call = "nothing" => saved = {} /\ ~ours
  /\ call = "save" =>
       /\ ours
       /\ \A r \in saved : r[1] < part
       /\ kept \subseteq InForce /\ InForce \subseteq seen
       /\ \A r \in kept : r[1] < part => r \in saved
       /\ saved \subseteq seen

(* Rule r is the line at position i of file f.                             *)
Line(f, i, r) ==
  i % 2 = 1 /\ i + 1 <= Len(f) /\ f[i] = Key[r[1]] /\ f[i + 1] = Word[r]

Early == {Key[IP], Key[APP]}

(* A file that saveRules has written: one line for each rule, and those of *)
(* addresses and applications first.                                       *)
Written ==
  ours =>
    /\ Len(file) % 2 = 0
    /\ \A i \in DOMAIN file : i % 2 = 1 => \E r \in saved : Line(file, i, r)
    /\ \A r \in saved : \E i \in DOMAIN file : Line(file, i, r)
    /\ \A i, j \in DOMAIN file :
         i % 2 = 1 /\ j % 2 = 1 /\ i < j /\ file[j] \in Early => file[i] \in Early

(* The rules in the first n words.                                         *)
ReadUpTo(n) ==
  {r \in saved : \E i \in DOMAIN file : i + 1 <= n /\ Line(file, i, r)}

NoEmptyYet == \A i \in DOMAIN file : i < pos => file[i] # NoWord

(* How far loadRules has come in such a file.  Until it meets the empty    *)
(* word it takes types for types and values for values; after it only a    *)
(* domain can come of what it reads, for what is taken for a type is none. *)
(* This is the inductive strengthening of RoundTrip.                       *)
Aligned ==
  ours /\ call \in {"load", "loaded"} =>
    /\ NoEmptyYet =>
         /\ loaded = ReadUpTo(pos - 1)
         /\ IF pos % 2 = 1 THEN type = NoWord ELSE type = file[pos - 1]
         /\ call = "loaded" => pos = Len(file) + 1
    /\ ~NoEmptyYet => {r \in saved : r[1] \in {IP, APP}} \subseteq loaded
    /\ call = "load" /\ type \notin {NoWord, Key[DOMAIN_RULE]} =>
         IF pos % 2 = 0 THEN type = file[pos - 1] ELSE type \notin Range(Key)
    /\ {r \in loaded : r[1] # DOMAIN_RULE} \subseteq saved

----------------------------------------------------------------------------
(* Words.                                                                  *)

LEMMA Keys ==
  /\ Key[IP] = "IP" /\ Key[APP] = "APP" /\ Key[DOMAIN_RULE] = "DOMAIN" /\ Key[PORT] = "PORT"
  /\ Range(Key) = {"IP", "APP", "DOMAIN", "PORT"}
  /\ \A k \in Kinds : Key[k] = Key[PORT] => k = PORT
<1>1. \A k \in Kinds : k = IP \/ k = APP \/ k = DOMAIN_RULE \/ k = PORT
  BY DEF Kinds, IP, APP, DOMAIN_RULE, PORT
<1>2. Key[IP] = "IP" /\ Key[APP] = "APP" /\ Key[DOMAIN_RULE] = "DOMAIN" /\ Key[PORT] = "PORT"
  BY DEF Key, IP, APP, DOMAIN_RULE, PORT
<1>3. Range(Key) = {"IP", "APP", "DOMAIN", "PORT"}
  BY DEF Key, Range
<1> QED
  BY <1>1, <1>2, <1>3

(* What is saved of a rule and what is loaded from it.                     *)
LEMMA WordOfRule ==
  ASSUME NEW r \in Rule
  PROVE  /\ r[1] \in Kinds /\ r = <<r[1], r[2]>>
         /\ Key[r[1]] \in Words /\ Key[r[1]] # NoWord /\ Key[r[1]] \in Range(Key)
         /\ Word[r] \notin Range(Key)
         /\ Word[r] \in Words \cup {NoWord}
         /\ Word[r] = NoWord <=> r = EmptyDomain
         /\ r # EmptyDomain => Entry(Key[r[1]], Word[r]) = {r}
         /\ r # EmptyDomain /\ r[1] = PORT => Numbers[Word[r]] # {}
<1>1. r[1] \in Kinds /\ r = <<r[1], r[2]>>
  BY DEF Rule, Kinds, IP, APP, DOMAIN_RULE, PORT
<1>2. Key[r[1]] \in Range(Key)
  BY <1>1, Keys DEF Kinds, IP, APP, DOMAIN_RULE, PORT
<1>3. Range(Key) \subseteq Words /\ NoWord \notin Words
  BY FileAssumption
<1>4. Word[r] \notin Range(Key)
  <2>1. \A k \in Kinds : Word[r] # Key[k]
    BY FileAssumption DEF Rule
  <2> QED
    BY <2>1, Keys DEF Kinds, IP, APP, DOMAIN_RULE, PORT
<1>5. ASSUME r = EmptyDomain PROVE Word[r] = NoWord
  BY <1>5, FileAssumption
<1>6. ASSUME r # EmptyDomain
      PROVE  /\ Word[r] \in Words /\ Entry(Key[r[1]], Word[r]) = {r}
             /\ r[1] = PORT => Numbers[Word[r]] # {}
  <2>1. CASE r \in {IP} \X Address
    <3>1. PICK a \in Address : r = <<IP, a>>
      BY <2>1
    <3>2. Word[r] \in Words /\ parseIP[Word[r]] = a
      BY <3>1, FileAssumption
    <3> QED
      BY <3>1, <3>2, Keys DEF Entry, IP, PORT
  <2>2. CASE r \in {APP} \X App
    <3>1. PICK a \in App : r = <<APP, a>>
      BY <2>2
    <3>2. Word[r] \in Words /\ AppsNamed[Word[r]] = {a}
      BY <3>1, FileAssumption
    <3>3. Entry(Key[r[1]], Word[r]) = {APP} \X {a}
      BY <3>1, <3>2, Keys DEF Entry
    <3> QED
      BY <3>1, <3>2, <3>3 DEF APP, PORT
  <2>3. CASE r \in {DOMAIN_RULE} \X Text
    <3>1. PICK t \in Text : r = <<DOMAIN_RULE, t>>
      BY <2>3
    <3>2. t # <<>>
      BY <1>6, <3>1 DEF EmptyDomain
    <3>3. Word[r] \in Words /\ TextOf[Word[r]] = t
      BY <3>1, <3>2, FileAssumption
    <3> QED
      BY <3>1, <3>3, Keys DEF Entry, DOMAIN_RULE, PORT
  <2>4. CASE r \in {PORT} \X Port
    <3>1. PICK n \in Port : r = <<PORT, n>>
      BY <2>4
    <3>2. Word[r] \in Words /\ Numbers[Word[r]] = {n} /\ n \in 0..2^16 - 1
      BY <3>1, FileAssumption
    <3>3. n % 2^16 = n
      BY <3>2
    <3> QED
      BY <3>1, <3>2, <3>3, Keys DEF Entry
  <2> QED
    BY <2>1, <2>2, <2>3, <2>4 DEF Rule
<1> QED
  BY <1>1, <1>2, <1>3, <1>4, <1>5, <1>6

(* What loadRules makes of a type and a word is a rule.                    *)
LEMMA EntryType ==
  ASSUME NEW t, NEW w \in Words
  PROVE  Entry(t, w) \subseteq Rule
<1>1. /\ parseIP[w] \in Address /\ AppsNamed[w] \subseteq App /\ TextOf[w] \in Text
      /\ \A n \in Numbers[w] : n % 2^16 \in Port
  BY FileAssumption
<1> QED
  BY <1>1 DEF Entry, Rule

LEMMA BlockRuleChanges ==
  ASSUME NEW r \in Rule, BlockRule(r)
  PROVE  Block
<1>1. CASE r[1] = IP /\ blockIP(r[2])
  <2>1. r[2] \in Address
    BY <1>1 DEF Rule, IP, APP, DOMAIN_RULE, PORT
  <2> QED
    BY <1>1, <2>1 DEF Block
<1>2. CASE r[1] = APP /\ blockApp(r[2])
  <2>1. r[2] \in App
    BY <1>2 DEF Rule, IP, APP, DOMAIN_RULE, PORT
  <2> QED
    BY <1>2, <2>1 DEF Block
<1>3. CASE r[1] = DOMAIN_RULE /\ blockDomain(r[2])
  <2>1. r[2] \in Text
    BY <1>3 DEF Rule, IP, APP, DOMAIN_RULE, PORT
  <2> QED
    BY <1>3, <2>1 DEF Block
<1>4. CASE r[1] = PORT /\ blockPort(r[2])
  <2>1. r[2] \in Port
    BY <1>4 DEF Rule, IP, APP, DOMAIN_RULE, PORT
  <2> QED
    BY <1>4, <2>1 DEF Block
<1> QED
  BY <1>1, <1>2, <1>3, <1>4 DEF BlockRule

LEMMA FiniteStep ==
  ASSUME Finite, [Next]_vars
  PROVE  Finite'
<1>1. CASE Block
  BY <1>1, FS_AddElement DEF Finite, Block, blockIP, blockApp, blockDomain, blockPort
<1>2. CASE Unblock
  BY <1>2, FS_RemoveElement DEF Finite, Unblock, unblockIP, unblockApp, unblockDomain,
     unblockPort
<1>3. CASE \E c \in Client : ClearSection(c)
  BY <1>3, FS_EmptySet DEF Finite, ClearSection
<1>4. CASE UNCHANGED rules
  BY <1>4 DEF Finite, rules
<1> QED
  BY <1>1, <1>2, <1>3, <1>4 DEF Next, ChangeRule, BeginClear, Begin, CheckSection, End, vars

LEMMA RangeConcat ==
  ASSUME NEW S, NEW T, NEW s \in Seq(S), NEW t \in Seq(T)
  PROVE  /\ Range(s \o t) = Range(s) \cup Range(t)
         /\ s \o t \in Seq(Range(s \o t))
<1> DEFINE u == s \o t
<1>1. /\ Len(s) \in Nat /\ DOMAIN s = 1..Len(s)
      /\ Len(t) \in Nat /\ DOMAIN t = 1..Len(t)
      /\ Len(u) = Len(s) + Len(t) /\ DOMAIN u = 1..Len(u)
  OBVIOUS
<1>0. u = [i \in 1..Len(u) |-> u[i]]
  <2>1. s \in Seq(S \cup T) /\ t \in Seq(S \cup T)
    OBVIOUS
  <2>2. u \in Seq(S \cup T)
    BY <2>1
  <2> HIDE DEF u
  <2> QED
    BY <2>2
<1>2. \A i \in 1..Len(u) : u[i] = IF i <= Len(s) THEN s[i] ELSE t[i - Len(s)]
  OBVIOUS
<1> HIDE DEF u
<1>3. ASSUME NEW i \in 1..Len(u) PROVE u[i] \in Range(s) \cup Range(t)
  <2>1. CASE i <= Len(s)
    BY <1>1, <1>2, <1>3, <2>1 DEF Range
  <2>2. CASE ~(i <= Len(s))
    <3>1. i - Len(s) \in DOMAIN t /\ u[i] = t[i - Len(s)]
      BY <1>1, <1>2, <1>3, <2>2
    <3> QED
      BY <3>1 DEF Range
  <2> QED
    BY <2>1, <2>2
<1>4. ASSUME NEW i \in 1..Len(s) PROVE s[i] \in Range(u)
  <2>1. i \in DOMAIN u /\ u[i] = s[i]
    BY <1>1, <1>2
  <2> QED
    BY <2>1 DEF Range
<1>5. ASSUME NEW i \in 1..Len(t) PROVE t[i] \in Range(u)
  <2>1. Len(s) + i \in DOMAIN u /\ u[Len(s) + i] = t[i]
    BY <1>1, <1>2
  <2> QED
    BY <2>1 DEF Range
<1>6. Range(u) = Range(s) \cup Range(t)
  BY <1>1, <1>3, <1>4, <1>5 DEF Range
<1>7. u \in Seq(Range(u))
  BY <1>0, <1>1 DEF Range
<1> QED
  BY <1>6, <1>7 DEF u

(* A list of the rules of a kind has all of them and nothing else.         *)
LEMMA Listed ==
  ASSUME Finite, RulesOK, NEW k \in Kinds, NEW values \in Listings(k)
  PROVE  /\ values \in Seq(Range(values))
         /\ {k} \X Range(values) = {r \in InForce : r[1] = k}
<1>1. ASSUME NEW S, IsFiniteSet(S), NEW s \in Orders(S)
      PROVE  s \in Seq(S) /\ Range(s) = S
  BY <1>1, FS_CardinalityType DEF Orders
<1>2. CASE k = IP
  BY <1>1, <1>2 DEF Listings, Finite, InForce, IP, APP, DOMAIN_RULE, PORT
<1>3. CASE k = APP
  BY <1>1, <1>3 DEF Listings, Finite, InForce, IP, APP, DOMAIN_RULE, PORT
<1>4. CASE k = PORT
  BY <1>1, <1>4 DEF Listings, Finite, InForce, IP, APP, DOMAIN_RULE, PORT
<1>5. CASE k = DOMAIN_RULE
  <2>1. PICK s \in Orders(blocked_domains_) : values = s \o domain_patterns_
    BY <1>5 DEF Listings, IP, APP, DOMAIN_RULE, PORT
  <2>2. s \in Seq(blocked_domains_) /\ Range(s) = blocked_domains_
    BY <1>1 DEF Finite
  <2>3. domain_patterns_ \in Seq(Text)
    BY DEF RulesOK
  <2>4. Range(values) = Range(s) \cup Range(domain_patterns_) /\ values \in Seq(Range(values))
    BY <2>1, <2>2, <2>3, RangeConcat
  <2> QED
    BY <1>5, <2>2, <2>4 DEF InForce, IP, APP, DOMAIN_RULE, PORT
<1> QED
  BY <1>2, <1>3, <1>4, <1>5 DEF Kinds, IP, APP, DOMAIN_RULE, PORT

----------------------------------------------------------------------------
(* Types.                                                                  *)

(* Under saveRules and loadRules the rules do what they do without them.   *)
LEMMA StepsOfRules ==
  ASSUME FileTypeOK, [FileNext]_allVars
  PROVE  [Next]_vars
<1>1. CASE ReadRule
  <2>1. file[pos] \in Words
    BY <1>1 DEF ReadRule, ReadWord, FileTypeOK
  <2>2. Block /\ Observe /\ UNCHANGED calls
    BY <1>1, <2>1, EntryType, BlockRuleChanges DEF ReadRule
  <2> QED
    BY <2>2, FileAssumption DEF Next, ChangeRule
<1>2. CASE \E c \in Client : CallStep(c)
  BY <1>2 DEF CallStep, Next
<1>3. CASE FileStep /\ ~ReadRule
  BY <1>3 DEF FileStep, BeginSave, LoadByHand, SaveSection, EndSave, LoadSaved,
     SkipEmpty, ReadType, ReadIgnored, ReadThrows, EndOfFile, ReturnLoaded
<1> QED
  BY <1>1, <1>2, <1>3 DEF FileNext, Next, allVars

(* What saveRules writes for the rules of a kind.                          *)
LEMMA LinesAre ==
  ASSUME RulesOK, Finite, NEW k \in Kinds, NEW values \in Listings(k)
  PROVE  LET lines == Lines(k, values)
         IN  /\ lines \in Seq(Words \cup {NoWord})
             /\ Len(values) \in Nat /\ Len(lines) = 2 * Len(values)
             /\ \A n \in 1..Len(values) :
                  /\ lines[2 * n - 1] = Key[k]
                  /\ lines[2 * n] = Word[<<k, values[n]>>]
                  /\ <<k, values[n]>> \in InForce
             /\ \A r \in InForce :
                  r[1] = k => \E n \in 1..Len(values) : r = <<k, values[n]>>
<1> DEFINE lines == Lines(k, values)
<1>1. values \in Seq(Range(values)) /\ Len(values) \in Nat
  BY Listed
<1>2. ASSUME NEW n \in 1..Len(values) PROVE <<k, values[n]>> \in InForce
  <2>1. values[n] \in Range(values)
    BY <1>1 DEF Range
  <2> QED
    BY <2>1, Listed
<1>3. ASSUME NEW r \in InForce, r[1] = k PROVE \E n \in 1..Len(values) : r = <<k, values[n]>>
  <2>1. r \in {k} \X Range(values)
    BY <1>3, Listed
  <2> QED
    BY <1>1, <2>1 DEF Range
<1>4. \A n \in 1..Len(values) : lines[2 * n - 1] = Key[k] /\ lines[2 * n] = Word[<<k, values[n]>>]
  <2> SUFFICES ASSUME NEW n \in 1..Len(values)
               PROVE  lines[2 * n - 1] = Key[k] /\ lines[2 * n] = Word[<<k, values[n]>>]
    OBVIOUS
  <2>1. /\ 2 * n - 1 \in 1 .. 2 * Len(values) /\ (2 * n - 1) % 2 = 1
        /\ 2 * n \in 1 .. 2 * Len(values) /\ (2 * n) % 2 # 1 /\ (2 * n) \div 2 = n
    BY <1>1
  <2> QED
    BY <2>1 DEF Lines
<1>5. lines \in Seq(Words \cup {NoWord}) /\ Len(lines) = 2 * Len(values)
  <2>1. ASSUME NEW i \in 1 .. 2 * Len(values) PROVE lines[i] \in Words \cup {NoWord}
    <3>1. PICK n \in 1..Len(values) : i = 2 * n - 1 \/ i = 2 * n
      <4>1. (i + 1) \div 2 \in 1..Len(values)
            /\ (i = 2 * ((i + 1) \div 2) - 1 \/ i = 2 * ((i + 1) \div 2))
        BY <1>1
      <4> QED
        BY <4>1
    <3>2. <<k, values[n]>> \in Rule
      BY <1>2, InForceType
    <3>3. Key[k] \in Words
      BY FileAssumption, Keys DEF Kinds, IP, APP, DOMAIN_RULE, PORT
    <3> QED
      BY <1>4, <3>1, <3>2, <3>3, WordOfRule
  <2>2. lines = [i \in 1 .. 2 * Len(values) |-> lines[i]]
    BY DEF Lines
  <2> QED
    BY <1>1, <2>1, <2>2
<1> QED
  BY <1>1, <1>2, <1>3, <1>4, <1>5


(* What the clauses of FileTypeOK beside TypeOK say of a step of the file. *)
LEMMA PlaceStep ==
  ASSUME FileTypeOK, Finite, FileStep
  PROVE  /\ user' \in Client \cup {Nobody}
         /\ call' \in {"nothing", "save", "saved", "load", "loaded"}
         /\ file' \in Seq(Words \cup {NoWord})
         /\ part' \in IP..Done /\ pos' \in 1..Len(file') + 1
         /\ type' \in Words \cup {NoWord} /\ ours' \in BOOLEAN
         /\ saved' \subseteq Rule /\ loaded' \subseteq Rule
         /\ kept' \subseteq Rule /\ seen' \subseteq Rule
         /\ user' = Nobody <=> call' = "nothing"
         /\ user' # Nobody => doing'[user'] = "nothing"
         /\ call' # "save" => part' = Done /\ kept' = {} /\ seen' = {}
         /\ call' \in {"nothing", "save", "saved"} => pos' = 1 /\ type' = NoWord /\ loaded' = {}
<1> USE DEF FileTypeOK
<1>2. CASE \E c \in Client : BeginSave(c)
  <2>1. PICK c \in Client : BeginSave(c)
    BY <1>2
  <2>2. InForce \subseteq Rule
    BY InForceType DEF TypeOK
  <2>3. IP \in IP..Done /\ c # Nobody
    BY FileAssumption DEF IP, Done
  <2> QED
    BY <2>1, <2>2, <2>3 DEF BeginSave, vars, calls
<1>3. CASE \E c \in Client : LoadByHand(c)
  <2>1. PICK c \in Client : LoadByHand(c)
    BY <1>3
  <2>2. c # Nobody /\ HandFiles \subseteq Seq(Words) /\ Seq(Words) \subseteq Seq(Words \cup {NoWord})
    BY FileAssumption
  <2>3. file' \in Seq(Words \cup {NoWord})
    BY <2>1, <2>2 DEF LoadByHand
  <2> QED
    BY <2>1, <2>2, <2>3 DEF LoadByHand, vars, calls
<1>4. CASE SaveSection
  <2>1. PICK values \in Listings(part) :
          /\ file'  = file \o Lines(part, values)
          /\ saved' = saved \cup ({part} \X Range(values))
    BY <1>4 DEF SaveSection
  <2>2. part \in Kinds /\ part + 1 \in IP..Done
    BY <1>4 DEF SaveSection, IP, Done, PORT, Kinds
  <2>3. {part} \X Range(values) \subseteq Rule
    BY <2>2, Listed, InForceType DEF TypeOK
  <2>4. Lines(part, values) \in Seq(Words \cup {NoWord})
    BY <2>2, LinesAre DEF TypeOK
  <2>5. file' \in Seq(Words \cup {NoWord})
    BY <2>1, <2>4
  <2>6. pos' = 1 /\ call' = "save"
    BY <1>4 DEF SaveSection
  <2>7. pos' \in 1..Len(file') + 1
    BY <2>5, <2>6
  <2> QED
    BY <1>4, <2>1, <2>2, <2>3, <2>5, <2>7 DEF SaveSection, vars, calls
<1>5. CASE EndSave \/ LoadSaved
  BY <1>5 DEF EndSave, LoadSaved, vars, calls
<1>6. CASE SkipEmpty \/ ReadType \/ ReadIgnored \/ ReadThrows
  BY <1>6 DEF SkipEmpty, ReadType, ReadIgnored, ReadThrows, ReadWord, vars, calls
<1>7. CASE ReadRule
  <2>1. file[pos] \in Words
    BY <1>7 DEF ReadRule, ReadWord
  <2>2. loaded' \subseteq Rule
    BY <1>7, <2>1, EntryType DEF ReadRule
  <2> QED
    BY <1>7, <2>2 DEF ReadRule, ReadWord, calls
<1>8. CASE EndOfFile
  BY <1>8 DEF EndOfFile, vars, calls
<1>9. CASE ReturnLoaded
  <2>1. file' \in Seq(Words \cup {NoWord}) /\ pos' \in 1..Len(file') + 1
    BY <1>9 DEF ReturnLoaded
  <2> QED
    BY <1>9, <2>1 DEF ReturnLoaded, vars, calls
<1> QED
  BY <1>2, <1>3, <1>4, <1>5, <1>6, <1>7, <1>8, <1>9 DEF FileStep

LEMMA FileTypeStep ==
  ASSUME FileTypeOK, Finite, [FileNext]_allVars
  PROVE  FileTypeOK' /\ Finite'
<1>1. TypeOK' /\ Finite'
  BY StepsOfRules, TypeStep, FiniteStep DEF FileTypeOK
<1>2. Rule' = Rule
  BY DEF Rule
<1>3. CASE FileStep
  BY <1>1, <1>2, <1>3, PlaceStep DEF FileTypeOK
<1>4. CASE UNCHANGED place /\ UNCHANGED <<saved, loaded>> /\ ObserveSave
           /\ (user # Nobody => doing'[user] = doing[user])
  <2>1. InForce' \subseteq Rule
    BY <1>1, <1>2, InForceType DEF TypeOK, RulesOK, InForce, Rule, Range
  <2> QED
    BY <1>1, <1>2, <1>4, <2>1 DEF FileTypeOK, place, ObserveSave
<1>5. CASE UNCHANGED allVars
  BY <1>1, <1>2, <1>5 DEF FileTypeOK, allVars, fileVars, place, vars, calls
<1>6. CASE ChangeRule /\ ObserveSave
  BY <1>4, <1>6 DEF ChangeRule, ObserveSave, calls
<1>7. ASSUME NEW c \in Client, c # user, CallStep(c), ObserveSave
      PROVE  UNCHANGED place /\ UNCHANGED <<saved, loaded>>
             /\ (user # Nobody => doing'[user] = doing[user])
  BY <1>7 DEF CallStep, ObserveSave, Begin, BeginClear, CheckSection, ClearSection, End,
     FileTypeOK, TypeOK, CallsOK, place
<1> QED
  BY <1>3, <1>4, <1>5, <1>6, <1>7 DEF FileNext

LEMMA FileTypeInit == FileInit => FileTypeOK /\ Finite
<1> SUFFICES ASSUME FileInit PROVE FileTypeOK /\ Finite
  OBVIOUS
<1>1. TypeOK
  BY InitType DEF FileInit
<1>2. Finite
  BY FS_EmptySet DEF FileInit, Init, Finite
<1>3. Done \in IP..Done
  BY DEF IP, Done
<1>4. file \in Seq(Words \cup {NoWord}) /\ pos \in 1..Len(file) + 1
  BY DEF FileInit, NoFile
<1> QED
  BY <1>1, <1>2, <1>3, <1>4 DEF FileInit, NoFile, FileTypeOK

LEMMA FileTypes == FileSpec => [](FileTypeOK /\ Finite)
BY FileTypeInit, FileTypeStep, PTL DEF FileSpec

(* Types and what is idle when, in every state, rules and file.            *)
THEOREM FileTypeCorrect == FileSpec => []FileTypeOK
BY FileTypes, PTL

(* Whatever saveRules and loadRules do, the rules do nothing that they do  *)
(* not do without them.                                                    *)
THEOREM FileStepsAreChanges == FileSpec => Spec
<1>1. FileInit => Init
  BY DEF FileInit
<1> QED
  BY <1>1, StepsOfRules, FileTypeCorrect, PTL DEF FileSpec, Spec

(* So checks and clearAll are regular while files are saved and loaded.    *)
THEOREM ChecksAreRegularWithFiles == FileSpec => []CheckRegular
BY FileStepsAreChanges, ChecksAreRegular, PTL

THEOREM ClearsAreRegularWithFiles == FileSpec => []ClearRegular
BY FileStepsAreChanges, ClearsAreRegular, PTL

----------------------------------------------------------------------------
(* What saveRules writes.                                                  *)

LEMMA CopiedStep ==
  ASSUME FileTypeOK, FileTypeOK', Finite, Copied, [FileNext]_allVars
  PROVE  Copied'
<1>0. \A r \in Rule : r[1] \in Kinds
  BY WordOfRule
<1>1. CASE UNCHANGED place /\ UNCHANGED <<saved, loaded>> /\ ObserveSave
  <2>1. CASE call = "save"
    <3>1. /\ call' = call /\ part' = part /\ ours' = ours /\ saved' = saved
          /\ kept' = kept \cap InForce' /\ seen' = seen \cup InForce'
      BY <1>1, <2>1 DEF ObserveSave, place
    <3> QED
      BY <2>1, <3>1 DEF Copied
  <2>2. CASE call # "save"
    BY <1>1, <2>2 DEF Copied, place
  <2> QED
    BY <2>1, <2>2
<1>2. CASE UNCHANGED allVars
  BY <1>2 DEF Copied, allVars, fileVars, place, vars, rules, InForce
<1>3. CASE \E c \in Client : BeginSave(c)
  <2>1. /\ call = "nothing" /\ call' = "save" /\ ours' = TRUE /\ saved' = saved /\ saved = {}
        /\ part' = IP /\ kept' = InForce /\ seen' = InForce /\ InForce' = InForce
    BY <1>3 DEF BeginSave, FileTypeOK, Copied, vars, rules, InForce
  <2>2. \A r \in InForce : IP <= r[1]
    BY <1>0, InForceType DEF FileTypeOK, TypeOK, Kinds, IP, PORT
  <2>3. \A r \in InForce : ~ (r[1] < IP)
    BY <1>0, <2>2, InForceType DEF FileTypeOK, TypeOK, Kinds, IP, PORT
  <2> QED
    BY <2>1, <2>3 DEF Copied
<1>4. CASE SaveSection
  <2>1. PICK values \in Listings(part) : saved' = saved \cup ({part} \X Range(values))
    BY <1>4 DEF SaveSection
  <2>2. part \in Kinds /\ part' = part + 1 /\ call = "save" /\ call' = "save"
    BY <1>4 DEF SaveSection, FileTypeOK, Kinds, IP, PORT, Done
  <2>3. saved' = saved \cup {r \in InForce : r[1] = part}
    BY <2>1, <2>2, Listed DEF FileTypeOK, TypeOK
  <2>4. ours' = ours /\ kept' = kept /\ seen' = seen /\ InForce' = InForce
    BY <1>4 DEF SaveSection, vars, rules, InForce
  <2>5. \A r \in saved \cup kept : r[1] \in Kinds
    BY <1>0 DEF FileTypeOK
  <2>6. \A k \in Kinds : k < part + 1 <=> k < part \/ k = part
    BY <2>2 DEF Kinds, IP, PORT
  <2>7. \A r \in saved' : r[1] < part'
    BY <2>2, <2>3, <2>5, <2>6 DEF Copied
  <2>8. \A r \in kept' : r[1] < part' => r \in saved'
    BY <2>2, <2>3, <2>4, <2>5, <2>6 DEF Copied
  <2> QED
    BY <2>2, <2>3, <2>4, <2>7, <2>8 DEF Copied
<1>5. CASE FileStep /\ ~SaveSection /\ ~(\E c \in Client : BeginSave(c))
  BY <1>5 DEF FileStep, LoadByHand, EndSave, LoadSaved, SkipEmpty, ReadType, ReadRule,
     ReadIgnored, ReadThrows, ReadWord, EndOfFile, ReturnLoaded, Copied, FileTypeOK
<1> QED
  BY <1>1, <1>2, <1>3, <1>4, <1>5 DEF FileNext, ObserveSave

LEMMA CopiedHolds == FileSpec => []Copied
<1>1. FileInit => Copied
  BY DEF FileInit, NoFile, Copied
<1> QED
  BY <1>1, CopiedStep, FileTypes, PTL DEF FileSpec

(* However the rules change while saveRules copies them kind by kind, it   *)
(* writes every rule that is there all the time, and none that is not      *)
(* there at some time.                                                     *)
THEOREM SavesAreRegular == FileSpec => []SaveRegular
<1>1. FileTypeOK /\ Copied => SaveRegular
  <2> SUFFICES ASSUME FileTypeOK, Copied, call = "save", part = Done
               PROVE  kept \subseteq saved /\ saved \subseteq seen
    BY DEF SaveRegular
  <2>1. \A r \in kept : r[1] < part
    BY WordOfRule DEF FileTypeOK, Kinds, PORT, IP, Done
  <2> QED
    BY <2>1 DEF Copied
<1> QED
  BY <1>1, CopiedHolds, FileTypes, PTL

LEMMA OddPlace ==
  ASSUME NEW i \in Int, NEW o \in Nat, NEW s \in Nat,
         i % 2 = 1, o % 2 = 0, o < i, i <= o + 2 * s
  PROVE  LET n == (i - o + 1) \div 2 IN n \in 1..s /\ i = o + 2 * n - 1
OBVIOUS

(* A section adds its lines behind those of the sections before it.        *)
LEMMA WrittenSection ==
  ASSUME FileTypeOK, FileTypeOK', Finite, Copied, Written, SaveSection
  PROVE  Written'
<1>1. PICK values \in Listings(part) :
        /\ file'  = file \o Lines(part, values)
        /\ saved' = saved \cup ({part} \X Range(values))
  BY DEF SaveSection
<1>2. part \in Kinds /\ ours /\ ours'
  BY DEF SaveSection, FileTypeOK, Copied, Kinds, IP, PORT, Done
<1> DEFINE lines == Lines(part, values)
           size  == Len(values)
           old   == Len(file)
<1>3. /\ lines \in Seq(Words \cup {NoWord}) /\ size \in Nat /\ Len(lines) = 2 * size
      /\ \A n \in 1..size : /\ lines[2 * n - 1] = Key[part]
                            /\ lines[2 * n] = Word[<<part, values[n]>>]
                            /\ <<part, values[n]>> \in InForce
      /\ \A r \in InForce : r[1] = part => \E n \in 1..size : r = <<part, values[n]>>
  BY <1>2, LinesAre DEF FileTypeOK, TypeOK
<1>4. saved' = saved \cup {r \in InForce : r[1] = part}
  BY <1>1, <1>2, Listed DEF FileTypeOK, TypeOK
<1>5. /\ file \in Seq(Words \cup {NoWord}) /\ old \in Nat /\ old % 2 = 0
      /\ DOMAIN file = 1..old
  BY <1>2 DEF FileTypeOK, Written
<1>6. /\ Len(file') = old + 2 * size /\ DOMAIN file' = 1 .. old + 2 * size
      /\ \A i \in 1..old : file'[i] = file[i]
      /\ \A n \in 1..size : /\ file'[old + 2 * n - 1] = Key[part]
                            /\ file'[old + 2 * n] = Word[<<part, values[n]>>]
  <2> HIDE DEF lines
  <2>1. file' = file \o lines
    BY <1>1 DEF lines
  <2>2. /\ Len(file') = old + 2 * size /\ DOMAIN file' = 1 .. old + 2 * size
        /\ \A i \in 1 .. old + 2 * size :
             file'[i] = IF i <= old THEN file[i] ELSE lines[i - old]
    <3>1. /\ file' \in Seq(Words \cup {NoWord}) /\ Len(file') = Len(file) + Len(lines)
          /\ \A i \in 1 .. Len(file) + Len(lines) :
               file'[i] = IF i <= Len(file) THEN file[i] ELSE lines[i - Len(file)]
      BY <1>3, <1>5, <2>1, ConcatProperties
    <3>2. DOMAIN file' = 1..Len(file')
      BY <3>1
    <3> QED
      BY <1>3, <3>1, <3>2
  <2>3. ASSUME NEW n \in 1..size
        PROVE  file'[old + 2 * n - 1] = lines[2 * n - 1] /\ file'[old + 2 * n] = lines[2 * n]
    <3>1. /\ old + 2 * n - 1 \in 1 .. old + 2 * size /\ ~(old + 2 * n - 1 <= old)
          /\ old + 2 * n \in 1 .. old + 2 * size /\ ~(old + 2 * n <= old)
          /\ (old + 2 * n - 1) - old = 2 * n - 1 /\ (old + 2 * n) - old = 2 * n
      BY <1>3, <1>5
    <3> QED
      BY <2>2, <3>1
  <2> QED
    BY <1>3, <1>5, <2>2, <2>3
<1> HIDE DEF lines, size
<1>domains. /\ old \in Nat /\ size \in Nat /\ Len(file) = old
            /\ DOMAIN file = 1..old /\ DOMAIN file' = 1 .. old + 2 * size
            /\ Len(file') = old + 2 * size
  BY <1>3, <1>5, <1>6
<1> HIDE DEF old
<1>7. ASSUME NEW i \in DOMAIN file, NEW r, Line(file, i, r) PROVE Line(file', i, r)
  <2>1. i \in 1..old /\ i + 1 \in 1..old /\ i + 1 <= Len(file')
    BY <1>domains, <1>7 DEF Line
  <2>2. file'[i] = file[i] /\ file'[i + 1] = file[i + 1]
    BY <1>6, <2>1
  <2> QED
    BY <1>7, <2>1, <2>2 DEF Line
<1>8. ASSUME NEW n \in 1..size
      PROVE  Line(file', old + 2 * n - 1, <<part, values[n]>>)
  <2>1. (old + 2 * n - 1) % 2 = 1 /\ (old + 2 * n - 1) + 1 = old + 2 * n
        /\ old + 2 * n <= old + 2 * size
    <3>1. old \in Nat /\ old % 2 = 0 /\ n \in 1..size /\ size \in Nat
      BY <1>5, <1>domains
    <3> QED
      BY <3>1
  <2> QED
    BY <1>6, <2>1 DEF Line
<1>9. ASSUME NEW i \in DOMAIN file', i % 2 = 1
      PROVE  i \in DOMAIN file \/ \E n \in 1..size : i = old + 2 * n - 1
  <2>1. CASE i > old
    <3> DEFINE n == (i - old + 1) \div 2
    <3>1. i \in Int /\ old < i /\ i <= old + 2 * size
      BY <1>3, <1>5, <1>6, <2>1
    <3>2. n \in 1..size /\ i = old + 2 * n - 1
      BY <1>3, <1>5, <1>9, <3>1, OddPlace
    <3> QED
      BY <3>2
  <2> QED
    BY <1>5, <1>6, <2>1
<1>10. Len(file') % 2 = 0
  BY <1>3, <1>5, <1>6
<1>11. ASSUME NEW i \in DOMAIN file', i % 2 = 1 PROVE \E r \in saved' : Line(file', i, r)
  <2>1. CASE i \in DOMAIN file
    BY <1>2, <1>4, <1>7, <1>11, <2>1 DEF Written
  <2>2. CASE \E n \in 1..size : i = old + 2 * n - 1
    BY <1>3, <1>4, <1>8, <2>2
  <2> QED
    BY <1>9, <1>11, <2>1, <2>2
<1>12. ASSUME NEW r \in saved' PROVE \E i \in DOMAIN file' : Line(file', i, r)
  <2>1. CASE r \in saved
    <3>1. PICK i \in DOMAIN file : Line(file, i, r)
      BY <1>2, <2>1 DEF Written
    <3>2. i \in DOMAIN file'
      BY <1>domains, <3>1
    <3> QED
      BY <1>7, <3>1, <3>2
  <2>2. CASE r \in InForce /\ r[1] = part
    <3>1. PICK n \in 1..size : r = <<part, values[n]>>
      BY <1>3, <2>2
    <3>2. old + 2 * n - 1 \in DOMAIN file'
      BY <1>3, <1>5, <1>6
    <3> QED
      BY <1>8, <3>1, <3>2
  <2> QED
    BY <1>4, <1>12, <2>1, <2>2
<1>13. ASSUME NEW i \in DOMAIN file', NEW j \in DOMAIN file',
              i % 2 = 1, j % 2 = 1, i < j, file'[j] \in Early
       PROVE  file'[i] \in Early
  <2>1. CASE j \in DOMAIN file
    <3>1. i \in DOMAIN file /\ file'[i] = file[i] /\ file'[j] = file[j]
      BY <1>5, <1>6, <1>13, <2>1
    <3> QED
      BY <1>2, <1>13, <2>1, <3>1 DEF Written
  <2>2. CASE \E n \in 1..size : j = old + 2 * n - 1
    <3>1. file'[j] = Key[part] /\ part \in {IP, APP}
      <4>1. file'[j] = Key[part]
        BY <1>6, <2>2
      <4>2. Key[part] \in {Key[IP], Key[APP]}
        BY <1>13, <4>1 DEF Early
      <4> QED
        BY <1>2, <4>1, <4>2, Keys DEF Kinds, IP, APP, DOMAIN_RULE, PORT
    <3>2. CASE i \in DOMAIN file
      <4>1. PICK r \in saved : Line(file, i, r)
        BY <1>2, <1>13, <3>2 DEF Written
      <4>2. r[1] \in {IP, APP}
        <5>1. r[1] < part /\ r[1] \in Kinds
          BY WordOfRule DEF Copied, SaveSection, FileTypeOK
        <5> QED
          BY <3>1, <5>1 DEF Kinds, IP, APP, PORT
      <4> QED
        BY <1>5, <1>6, <3>2, <4>1, <4>2 DEF Line, Early
    <3>3. CASE \E n \in 1..size : i = old + 2 * n - 1
      BY <1>6, <3>1, <3>3 DEF Early
    <3> QED
      BY <1>9, <1>13, <3>2, <3>3
  <2> QED
    BY <1>9, <1>13, <2>1, <2>2
<1> QED
  BY <1>10, <1>11, <1>12, <1>13 DEF Written

LEMMA WrittenStep ==
  ASSUME FileTypeOK, FileTypeOK', Finite, Copied, Written, [FileNext]_allVars
  PROVE  Written'
<1>1. CASE \E c \in Client : BeginSave(c)
  <2>1. file' = <<>> /\ saved' = {}
    BY <1>1 DEF BeginSave, FileTypeOK, Copied
  <2> QED
    BY <2>1 DEF Written
<1>2. CASE SaveSection
  BY <1>2, WrittenSection
<1>3. CASE ~ours'
  BY <1>3 DEF Written
<1>4. CASE file' = file /\ saved' = saved /\ ours' = ours
  BY <1>4 DEF Written
<1> QED
  BY <1>1, <1>2, <1>3, <1>4 DEF FileNext, FileStep, ObserveSave, place, allVars, fileVars,
     LoadByHand, EndSave, LoadSaved, SkipEmpty, ReadType, ReadRule, ReadIgnored,
     ReadThrows, EndOfFile, ReturnLoaded, Copied, FileTypeOK

LEMMA WrittenHolds == FileSpec => []Written
<1>1. FileInit => Written
  BY DEF FileInit, NoFile, Written
<1> QED
  BY <1>1, WrittenStep, CopiedHolds, FileTypes, PTL DEF FileSpec

----------------------------------------------------------------------------
(* What loadRules makes of it.                                             *)

(* Types stand at the odd places and values at the even ones.              *)
LEMMA WordAt ==
  ASSUME FileTypeOK, Written, ours, NEW i \in DOMAIN file
  PROVE  /\ i \in Nat /\ i >= 1 /\ i <= Len(file) /\ Len(file) \in Nat
         /\ i % 2 = 1 => file[i] \in Range(Key) /\ file[i] # NoWord
         /\ i % 2 # 1 =>
              /\ i - 1 \in DOMAIN file
              /\ \E r \in saved : r \in Rule /\ Line(file, i - 1, r) /\ file[i] = Word[r]
<1>1. i \in Nat /\ i >= 1 /\ i <= Len(file) /\ Len(file) \in Nat /\ DOMAIN file = 1..Len(file)
  BY DEF FileTypeOK
<1>2. CASE i % 2 = 1
  <2>1. PICK r \in saved : Line(file, i, r)
    BY <1>2 DEF Written
  <2>2. r \in Rule
    BY DEF FileTypeOK
  <2> QED
    BY <1>1, <1>2, <2>1, <2>2, WordOfRule DEF Line
<1>3. CASE i % 2 # 1
  <2>1. i - 1 \in DOMAIN file /\ (i - 1) % 2 = 1 /\ (i - 1) + 1 = i
    BY <1>1, <1>3
  <2>2. PICK r \in saved : Line(file, i - 1, r)
    BY <2>1 DEF Written
  <2>3. r \in Rule /\ file[i] = Word[r]
    BY <2>1, <2>2 DEF FileTypeOK, Line
  <2> QED
    BY <1>1, <1>3, <2>1, <2>2, <2>3
<1> QED
  BY <1>2, <1>3

LEMMA LoadingPos ==
  ASSUME FileTypeOK
  PROVE  /\ pos \in Nat /\ Len(file) \in Nat /\ DOMAIN file = 1..Len(file)
         /\ pos >= 1 /\ pos <= Len(file) + 1
BY DEF FileTypeOK

(* One word more that is not empty: a type tells nothing of a rule yet.    *)
LEMMA ReadOneMore ==
  ASSUME FileTypeOK, Written, ours, pos \in DOMAIN file
  PROVE  /\ pos % 2 = 1 => ReadUpTo(pos) = ReadUpTo(pos - 1)
         /\ pos % 2 # 1 => ReadUpTo(pos) = ReadUpTo(pos - 1)
                             \cup {r \in saved : Line(file, pos - 1, r)}
<1>1. /\ pos \in Nat /\ pos >= 1 /\ \A i \in DOMAIN file : i \in Nat
      /\ pos % 2 # 1 => pos - 1 \in DOMAIN file
  BY WordAt, LoadingPos
<1>2. \A i \in DOMAIN file : i + 1 <= pos <=> i + 1 <= pos - 1 \/ i = pos - 1
  BY <1>1
<1>3. CASE pos % 2 = 1
  <2>1. \A r : ~Line(file, pos - 1, r)
    BY <1>1, <1>3 DEF Line
  <2> QED
    BY <1>1, <1>2, <1>3, <2>1 DEF ReadUpTo
<1>4. CASE pos % 2 # 1
  BY <1>1, <1>2, <1>4 DEF ReadUpTo
<1> QED
  BY <1>3, <1>4

(* The line in front of the word that is read, once its type has been.     *)
LEMMA LineRead ==
  ASSUME FileTypeOK, Written, ours, pos \in DOMAIN file, pos % 2 # 1,
         file[pos] # NoWord
  PROVE  \E r \in saved :
           /\ {q \in saved : Line(file, pos - 1, q)} = {r}
           /\ Entry(file[pos - 1], file[pos]) = {r}
           /\ file[pos - 1] = Key[PORT] => Numbers[file[pos]] # {}
<1>1. PICK r \in saved : r \in Rule /\ Line(file, pos - 1, r) /\ file[pos] = Word[r]
  BY WordAt
<1>2. r # EmptyDomain /\ file[pos - 1] = Key[r[1]]
  BY <1>1, WordOfRule DEF Line
<1>3. Entry(file[pos - 1], file[pos]) = {r}
  BY <1>1, <1>2, WordOfRule
<1>4. ASSUME NEW q \in saved, Line(file, pos - 1, q) PROVE q = r
  <2>1. q \in Rule /\ file[pos - 1] = Key[q[1]] /\ file[pos] = Word[q]
    <3>1. (pos - 1) + 1 = pos
      BY LoadingPos
    <3> QED
      BY <1>4, <3>1 DEF Line, FileTypeOK
  <2>2. Entry(file[pos - 1], file[pos]) = {q}
    BY <2>1, WordOfRule
  <2> QED
    BY <1>3, <2>2
<1>5. file[pos - 1] = Key[PORT] => r[1] = PORT
  <2>1. r[1] \in Kinds
    BY <1>1, WordOfRule
  <2> QED
    BY <1>2, <2>1, Keys
<1> QED
  BY <1>1, <1>2, <1>3, <1>4, <1>5, WordOfRule

(* What a step of loadRules that reads a word keeps, and how it adds to it.*)
LEMMA CleanStep ==
  ASSUME FileTypeOK, Written, ours, call = "load", ReadWord, file' = file
  PROVE  /\ pos \in DOMAIN file /\ pos' = pos + 1 /\ pos' - 1 = pos
         /\ NoEmptyYet' <=> NoEmptyYet /\ file[pos] # NoWord
         /\ pos % 2 = 1 <=> pos' % 2 # 1
         /\ pos % 2 = 1 <=> pos' % 2 = 0
<1>1. pos \in DOMAIN file /\ pos' = pos + 1 /\ pos' - 1 = pos /\ pos \in Nat
  BY LoadingPos DEF ReadWord
<1>2. \A i \in DOMAIN file : i < pos + 1 <=> i < pos \/ i = pos
  BY <1>1, LoadingPos
<1>3. NoEmptyYet' <=> NoEmptyYet /\ file[pos] # NoWord
  BY <1>1, <1>2 DEF NoEmptyYet
<1> QED
  BY <1>1, <1>3

(* The first empty word is that of the empty domain, so the addresses and  *)
(* the applications have been read before it.                              *)
LEMMA EarlyRead ==
  ASSUME FileTypeOK, Written, ours, pos \in DOMAIN file, file[pos] = NoWord,
         loaded = ReadUpTo(pos - 1)
  PROVE  /\ pos % 2 # 1 /\ file[pos - 1] = Key[DOMAIN_RULE]
         /\ {r \in saved : r[1] \in {IP, APP}} \subseteq loaded
<1>1. pos % 2 # 1
  BY WordAt
<1>2. PICK e \in saved : e \in Rule /\ Line(file, pos - 1, e) /\ file[pos] = Word[e]
  BY <1>1, WordAt
<1>3. e = EmptyDomain
  BY <1>2, WordOfRule
<1>4. file[pos - 1] = Key[DOMAIN_RULE] /\ file[pos - 1] \notin Early
  BY <1>2, <1>3, Keys DEF Line, EmptyDomain, Early
<1>5. ASSUME NEW r \in saved, r[1] \in {IP, APP} PROVE r \in loaded
  <2>1. PICK i \in DOMAIN file : Line(file, i, r)
    BY Written DEF Written
  <2>2. i % 2 = 1 /\ file[i] \in Early
    BY <1>5, <2>1 DEF Line, Early
  <2>3. pos - 1 \in DOMAIN file /\ (pos - 1) % 2 = 1 /\ pos - 1 \in Nat /\ i \in Nat
    <3>1. pos \in Nat /\ pos % 2 # 1 /\ pos - 1 \in DOMAIN file
      BY <1>1, WordAt, LoadingPos
    <3>2. i \in Nat /\ pos - 1 \in Nat
      BY <3>1, LoadingPos
    <3> QED
      BY <3>1, <3>2
  <2>4. ~(pos - 1 < i) /\ i # pos - 1
    BY <1>4, <2>2, <2>3 DEF Written
  <2>5. i + 1 <= pos - 1
    BY <2>3, <2>4
  <2> QED
    BY <2>1, <2>5 DEF ReadUpTo
<1> QED
  BY <1>1, <1>4, <1>5

LEMMA AlignedSkip ==
  ASSUME FileTypeOK, Written, Aligned, ours, call = "load", SkipEmpty
  PROVE  Aligned'
<1>1. /\ file' = file /\ ours' = ours /\ call' = call /\ type' = type
      /\ saved' = saved /\ loaded' = loaded /\ ReadWord /\ file[pos] = NoWord
  BY DEF SkipEmpty
<1>2. ~NoEmptyYet'
  BY <1>1, CleanStep
<1>3. {r \in saved : r[1] \in {IP, APP}} \subseteq loaded
  <2>1. CASE NoEmptyYet
    BY <1>1, <2>1, CleanStep, EarlyRead DEF Aligned
  <2> QED
    BY <2>1 DEF Aligned
<1>4. type \notin {NoWord, Key[DOMAIN_RULE]} =>
        IF pos' % 2 = 0 THEN type = file[pos' - 1] ELSE type \notin Range(Key)
  <2> SUFFICES ASSUME type \notin {NoWord, Key[DOMAIN_RULE]}
               PROVE  IF pos' % 2 = 0 THEN type = file[pos' - 1] ELSE type \notin Range(Key)
    OBVIOUS
  <2>1. pos \in DOMAIN file /\ pos % 2 # 1 /\ (pos % 2 = 0 <=> pos % 2 # 1) /\ pos' % 2 # 0
    BY <1>1, CleanStep, WordAt, LoadingPos
  <2>2. type = file[pos - 1]
    BY <2>1 DEF Aligned
  <2>3. PICK e \in saved : e \in Rule /\ Line(file, pos - 1, e) /\ file[pos] = Word[e]
    BY <2>1, WordAt
  <2>4. e = EmptyDomain
    BY <1>1, <2>3, WordOfRule
  <2>5. file[pos - 1] = Key[DOMAIN_RULE]
    BY <2>3, <2>4 DEF Line, EmptyDomain
  <2> QED
    BY <2>2, <2>5
<1> QED
  BY <1>1, <1>2, <1>3, <1>4 DEF Aligned

LEMMA AlignedType ==
  ASSUME FileTypeOK, Written, Aligned, ours, call = "load", ReadType
  PROVE  Aligned'
<1>1. /\ file' = file /\ ours' = ours /\ call' = call /\ type' = file[pos]
      /\ saved' = saved /\ loaded' = loaded /\ ReadWord
      /\ file[pos] # NoWord /\ type = NoWord
  BY DEF ReadType
<1>2. /\ pos \in DOMAIN file /\ pos' - 1 = pos /\ (NoEmptyYet' <=> NoEmptyYet)
      /\ pos % 2 = 1 <=> pos' % 2 # 1
      /\ pos % 2 = 1 <=> pos' % 2 = 0
  BY <1>1, CleanStep
<1>3. ASSUME NoEmptyYet
      PROVE  /\ loaded' = (ReadUpTo(pos - 1))'
             /\ IF pos' % 2 = 1 THEN type' = NoWord ELSE type' = file[pos' - 1]
  <2>1. pos % 2 = 1
    <3>1. CASE pos % 2 # 1
      <4>1. type = file[pos - 1] /\ pos - 1 \in DOMAIN file
        BY <1>2, <1>3, <3>1, WordAt DEF Aligned
      <4>2. (pos - 1) % 2 = 1
        BY <3>1, LoadingPos
      <4>3. file[pos - 1] # NoWord
        BY <4>1, <4>2, WordAt
      <4> QED
        BY <1>1, <4>1, <4>3
    <3> QED
      BY <3>1
  <2>2. loaded = ReadUpTo(pos)
    BY <1>2, <1>3, <2>1, ReadOneMore DEF Aligned
  <2>3. (ReadUpTo(pos - 1))' = ReadUpTo(pos)
    BY <1>1, <1>2 DEF ReadUpTo
  <2> QED
    BY <1>1, <1>2, <2>1, <2>2, <2>3
<1>4. IF pos' % 2 = 0 THEN type' = file[pos' - 1] ELSE type' \notin Range(Key)
  <2>1. CASE pos % 2 = 1
    BY <1>1, <1>2, <2>1
  <2>2. CASE pos % 2 # 1
    <3>1. PICK e \in saved : e \in Rule /\ file[pos] = Word[e]
      BY <1>2, <2>2, WordAt
    <3> QED
      BY <1>1, <1>2, <2>2, <3>1, WordOfRule
  <2> QED
    BY <2>1, <2>2
<1> QED
  BY <1>1, <1>2, <1>3, <1>4 DEF Aligned

(* A rule is read: after an empty word it can only be a domain.            *)
LEMMA AlignedRule ==
  ASSUME FileTypeOK, Written, Aligned, ours, call = "load", ReadRule
  PROVE  Aligned'
<1>1. PICK r \in Entry(type, file[pos]) : loaded' = loaded \cup {r}
  BY DEF ReadRule
<1>2. /\ file' = file /\ ours' = ours /\ call' = call /\ type' = NoWord
      /\ saved' = saved /\ ReadWord /\ file[pos] # NoWord /\ type # NoWord
  BY DEF ReadRule
<1>3. /\ pos \in DOMAIN file /\ pos' - 1 = pos /\ (NoEmptyYet' <=> NoEmptyYet)
      /\ pos % 2 = 1 <=> pos' % 2 # 1
      /\ pos % 2 = 0 <=> pos % 2 # 1
  BY <1>2, CleanStep, LoadingPos
<1>4. (ReadUpTo(pos - 1))' = ReadUpTo(pos)
  BY <1>2, <1>3 DEF ReadUpTo
<1>5. ASSUME NoEmptyYet
      PROVE  /\ loaded' = ReadUpTo(pos)
             /\ pos' % 2 = 1
  <2>1. pos % 2 # 1 /\ type = file[pos - 1] /\ loaded = ReadUpTo(pos - 1)
    BY <1>2, <1>5 DEF Aligned
  <2>2. PICK q \in saved : {p \in saved : Line(file, pos - 1, p)} = {q}
                           /\ Entry(file[pos - 1], file[pos]) = {q}
    BY <1>2, <1>3, <2>1, LineRead
  <2> QED
    BY <1>1, <1>3, <2>1, <2>2, ReadOneMore
<1>6. r[1] # DOMAIN_RULE => r \in saved
  <2> SUFFICES ASSUME r[1] # DOMAIN_RULE PROVE r \in saved
    OBVIOUS
  <2>1. type # Key[DOMAIN_RULE] /\ type \in Range(Key)
    BY <1>1, Keys DEF Entry
  <2>2. pos % 2 # 1 /\ type = file[pos - 1]
    BY <1>2, <1>3, <2>1 DEF Aligned
  <2> QED
    BY <1>1, <1>2, <1>3, <2>2, LineRead
<1>7. {q \in loaded' : q[1] # DOMAIN_RULE} \subseteq saved
  BY <1>1, <1>6 DEF Aligned
<1>8. ~NoEmptyYet => {q \in saved : q[1] \in {IP, APP}} \subseteq loaded'
  BY <1>1 DEF Aligned
<1> QED
  BY <1>2, <1>3, <1>4, <1>5, <1>7, <1>8 DEF Aligned

LEMMA AlignedIgnored ==
  ASSUME FileTypeOK, Written, Aligned, ours, call = "load", ReadIgnored
  PROVE  Aligned'
<1>1. /\ file' = file /\ ours' = ours /\ call' = call /\ type' = NoWord
      /\ saved' = saved /\ loaded' = loaded /\ ReadWord
      /\ file[pos] # NoWord /\ type # NoWord /\ Entry(type, file[pos]) = {}
  BY DEF ReadIgnored
<1>2. pos \in DOMAIN file /\ (NoEmptyYet' <=> NoEmptyYet)
  BY <1>1, CleanStep
<1>3. ~NoEmptyYet
  <2>1. SUFFICES ASSUME NoEmptyYet PROVE FALSE
    OBVIOUS
  <2>2. pos % 2 # 1 /\ type = file[pos - 1]
    BY <1>1, <2>1 DEF Aligned
  <2> QED
    BY <1>1, <1>2, <2>2, LineRead
<1> QED
  BY <1>1, <1>2, <1>3 DEF Aligned

LEMMA AlignedThrows ==
  ASSUME FileTypeOK, Written, Aligned, ours, call = "load", ReadThrows
  PROVE  Aligned'
<1>1. /\ file' = file /\ ours' = ours /\ call' = "loaded"
      /\ saved' = saved /\ loaded' = loaded /\ ReadWord
      /\ file[pos] # NoWord /\ type = Key[PORT] /\ Numbers[file[pos]] = {}
  BY DEF ReadThrows, Throws
<1>2. pos \in DOMAIN file /\ (NoEmptyYet' <=> NoEmptyYet)
  BY <1>1, CleanStep
<1>3. ~NoEmptyYet
  <2>1. SUFFICES ASSUME NoEmptyYet PROVE FALSE
    OBVIOUS
  <2>2. Key[PORT] # NoWord
    BY Keys DEF NoWord
  <2>3. pos % 2 # 1 /\ type = file[pos - 1]
    BY <1>1, <2>1, <2>2 DEF Aligned
  <2> QED
    BY <1>1, <1>2, <2>3, LineRead
<1> QED
  BY <1>1, <1>2, <1>3 DEF Aligned

LEMMA AlignedStep ==
  ASSUME FileTypeOK, FileTypeOK', Copied, Written, Aligned, [FileNext]_allVars
  PROVE  Aligned'
<1>1. CASE ~ours' \/ call' \notin {"load", "loaded"}
  BY <1>1 DEF Aligned
<1>2. CASE SkipEmpty \/ ReadType \/ ReadRule \/ ReadIgnored \/ ReadThrows
  <2>1. call = "load" /\ ours' = ours
    BY <1>2 DEF SkipEmpty, ReadType, ReadRule, ReadIgnored, ReadThrows, ReadWord
  <2> QED
    BY <1>1, <1>2, <2>1, AlignedSkip, AlignedType, AlignedRule, AlignedIgnored, AlignedThrows
<1>3. CASE LoadSaved
  <2>1. pos' = 1 /\ type' = NoWord /\ loaded' = {} /\ call' = "load"
    BY <1>3 DEF LoadSaved, FileTypeOK
  <2>2. NoEmptyYet' /\ (ReadUpTo(pos - 1))' = {}
    <3>1. \A i \in DOMAIN file' : i \in Nat /\ i >= 1
      BY DEF FileTypeOK
    <3> QED
      BY <2>1, <3>1 DEF NoEmptyYet, ReadUpTo
  <2> QED
    BY <2>1, <2>2 DEF Aligned
<1>4. CASE EndOfFile
  <2>1. call' = "loaded" /\ call = "load" /\ pos > Len(file)
        /\ UNCHANGED <<pos, type, file, ours, saved, loaded>>
    BY <1>4 DEF EndOfFile
  <2>2. pos = Len(file) + 1
    BY <2>1, LoadingPos
  <2> QED
    BY <2>1, <2>2 DEF Aligned, NoEmptyYet, ReadUpTo
<1>5. CASE UNCHANGED <<call, pos, type, file, ours, saved, loaded>>
  BY <1>5 DEF Aligned, NoEmptyYet, ReadUpTo
<1>6. CASE FileStep
  BY <1>1, <1>2, <1>3, <1>4, <1>6 DEF FileStep, BeginSave, LoadByHand, SaveSection, EndSave,
     ReturnLoaded, Copied, FileTypeOK
<1> QED
  BY <1>5, <1>6 DEF FileNext, ObserveSave, place, allVars, fileVars

(* What loadRules blocks when it reads what saveRules has written: the     *)
(* rules that were saved, if the empty domain was not; and even then no    *)
(* address, application or port that was not, and all of the first two.    *)
THEOREM SavedRulesComeBack == FileSpec => []RoundTrip
<1>1. FileInit => Aligned
  BY DEF FileInit, NoFile, Aligned
<1>2. FileSpec => []Aligned
  BY <1>1, AlignedStep, WrittenHolds, CopiedHolds, FileTypes, PTL DEF FileSpec
<1>3. FileTypeOK /\ Written /\ Aligned => RoundTrip
  <2> SUFFICES ASSUME FileTypeOK, Written, Aligned, call = "loaded", ours
               PROVE  /\ EmptyDomain \notin saved => loaded = saved
                      /\ {r \in loaded : r[1] # DOMAIN_RULE} \subseteq saved
                      /\ {r \in saved : r[1] \in {IP, APP}} \subseteq loaded
    BY DEF RoundTrip
  <2>1. ASSUME NoEmptyYet PROVE loaded = saved
    <3>1. loaded = ReadUpTo(pos - 1) /\ pos - 1 = Len(file)
      BY <2>1, LoadingPos DEF Aligned
    <3>2. ReadUpTo(Len(file)) = saved
      BY DEF Written, ReadUpTo, Line
    <3> QED
      BY <3>1, <3>2
  <2>2. ASSUME EmptyDomain \notin saved PROVE NoEmptyYet
    <3> SUFFICES ASSUME NEW i \in DOMAIN file PROVE file[i] # NoWord
      BY DEF NoEmptyYet
    <3>1. CASE i % 2 = 1
      BY <3>1, WordAt
    <3>2. CASE i % 2 # 1
      BY <2>2, <3>2, WordAt, WordOfRule
    <3> QED
      BY <3>1, <3>2
  <2> QED
    BY <2>1, <2>2 DEF Aligned
<1> QED
  BY <1>2, <1>3, WrittenHolds, FileTypes, PTL

=============================================================================
