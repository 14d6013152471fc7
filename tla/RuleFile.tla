------------------------------ MODULE RuleFile ------------------------------
(***************************************************************************)
(* saveRules and loadRules of src/rule_manager.cpp, beside the other calls *)
(* of RuleManager.  saveRules truncates the file and copies one kind of    *)
(* rules after the other, each under its own mutex, so that the rules may  *)
(* change in between.  loadRules takes the file apart into words, whatever *)
(* the lines, and reads them in pairs of a type and a value; each pair is  *)
(* one call of blockIP, blockApp, blockDomain or blockPort.                *)
(*                                                                         *)
(* One thread at a time uses the file, and keeps it from the save to the   *)
(* load: nothing else writes it, so loading it later is the same.  A text  *)
(* that is a rule has no blanks inside; an empty one is an empty word in   *)
(* the file, which operator>> never returns.                               *)
(***************************************************************************)
EXTENDS RuleManager, Integers

CONSTANTS
  Word,       (* Word[r]: the value of rule r as saveRules writes it       *)
  Words,      (* the words that files are made of                          *)
  parseIP,    (* what the conversions of loadRules make of a word: the     *)
  AppsNamed,  (* address; the application of that name, if any; the text   *)
  TextOf,     (* as normalizeDomain leaves it; and the number that stoi    *)
  Numbers,    (* reads, none if it throws                                  *)
  HandFiles,  (* files written by hand                                     *)
  Nobody      (* no client                                                 *)

(* The types in front of the values.                                       *)
Key == <<"IP", "APP", "DOMAIN", "PORT">>
NoWord == ""

EmptyDomain == <<DOMAIN_RULE, <<>>>>

(* What is written is read as what it was: nothing is written like a type, *)
(* and the conversions of a value there and back lose nothing.             *)
ASSUME FileAssumption ==
  /\ "block" \in Ops
  /\ NoWord \notin Words /\ Range(Key) \subseteq Words
  /\ Nobody \notin Client
  /\ parseIP \in [Words -> Address]
  /\ AppsNamed \in [Words -> SUBSET App]
  /\ TextOf \in [Words -> Text]
  /\ Numbers \in [Words -> SUBSET Int]
  /\ \A w \in Words : \A n \in Numbers[w] : n % 2^16 \in Port
  /\ \A a \in Address : LET w == Word[<<IP, a>>]  IN w \in Words /\ parseIP[w] = a
  /\ \A a \in App     : LET w == Word[<<APP, a>>] IN w \in Words /\ AppsNamed[w] = {a}
  /\ \A n \in Port    : LET w == Word[<<PORT, n>>]
                        IN  w \in Words /\ n \in 0..2^16 - 1 /\ Numbers[w] = {n}
  /\ \A t \in Text \ {<<>>} :
       LET w == Word[<<DOMAIN_RULE, t>>] IN w \in Words /\ TextOf[w] = t
  /\ Word[EmptyDomain] = NoWord
  /\ \A kind \in Kinds : \A r \in ({IP} \X Address) \cup ({APP} \X App)
       \cup ({DOMAIN_RULE} \X Text) \cup ({PORT} \X Port) : Word[r] # Key[kind]
  /\ HandFiles \subseteq Seq(Words)

VARIABLES
  user,     (* the thread that uses the file, or Nobody                    *)
  call,     (* what it does: "save", "saved", "load", "loaded", "nothing"  *)
  file,     (* the words of the file                                       *)
  part,     (* save: the kind whose rules it copies next                   *)
  pos,      (* load: the position of the next word                         *)
  type,     (* load: the type that it holds, or NoWord                     *)
  (* History.                                                              *)
  ours,     (* was the file written by saveRules?                          *)
  saved,    (* the rules that are in it                                    *)
  loaded,   (* the rules that this load has blocked                        *)
  kept,     (* the rules in force all the time since the save began        *)
  seen      (* the rules in force at some time since the save began        *)

place    == <<user, call, file, part, pos, type, ours>>
fileVars == <<place, saved, loaded, kept, seen>>
allVars  == <<vars, fileVars>>

NoFile ==
  /\ user = Nobody /\ call = "nothing" /\ file = <<>>
  /\ part = Done /\ pos = 1 /\ type = NoWord
  /\ ours = FALSE /\ saved = {} /\ loaded = {} /\ kept = {} /\ seen = {}

FileInit == Init /\ NoFile

----------------------------------------------------------------------------
(* saveRules                                                               *)

BeginSave(c) ==
  /\ user = Nobody /\ doing[c] = "nothing"
  /\ user' = c /\ call' = "save" /\ file' = <<>> /\ part' = IP
  /\ ours' = TRUE /\ kept' = InForce /\ seen' = InForce
  /\ UNCHANGED <<vars, pos, type, saved, loaded>>

(* The orders in which an unordered set may be listed.                     *)
Orders(S) == {s \in [1..Cardinality(S) -> S] : Range(s) = S}

(* Wrong: the patterns are forgotten.                                      *)
ListingsNoPattern(kind) ==
  CASE kind = IP   -> Orders(blocked_ips_)
    [] kind = APP  -> Orders(blocked_apps_)
    [] kind = PORT -> Orders(blocked_ports_)
    [] OTHER       -> Orders(blocked_domains_)

(* getBlockedIPs, getBlockedApps, getBlockedDomains: names before patterns;*)
(* and the loop over blocked_ports_.                                       *)
Listings(kind) ==
  CASE kind = IP   -> Orders(blocked_ips_)
    [] kind = APP  -> Orders(blocked_apps_)
    [] kind = PORT -> Orders(blocked_ports_)
    [] OTHER       -> {s \o domain_patterns_ : s \in Orders(blocked_domains_)}

(* One line for each value: its type and its word.                         *)
Lines(kind, values) ==
  [i \in 1 .. 2 * Len(values) |->
     IF i % 2 = 1 THEN Key[kind] ELSE Word[<<kind, values[i \div 2]>>]]

SaveSection ==
  /\ call = "save" /\ part # Done
  /\ \E values \in Listings(part) :
       /\ file'  = file \o Lines(part, values)
       /\ saved' = saved \cup ({part} \X Range(values))
  /\ part' = part + 1
  /\ UNCHANGED <<vars, user, call, pos, type, ours, loaded, kept, seen>>

EndSave ==
  /\ call = "save" /\ part = Done
  /\ call' = "saved" /\ kept' = {} /\ seen' = {}
  /\ UNCHANGED <<vars, user, file, part, pos, type, ours, saved, loaded>>

----------------------------------------------------------------------------
(* loadRules                                                               *)

LoadSaved ==
  /\ call = "saved"
  /\ call' = "load"
  /\ UNCHANGED <<vars, user, file, part, pos, type, ours, saved, loaded, kept, seen>>

LoadByHand(c) ==
  /\ user = Nobody /\ doing[c] = "nothing"
  /\ user' = c /\ call' = "load" /\ file' \in HandFiles
  /\ UNCHANGED <<vars, part, pos, type, ours, saved, loaded, kept, seen>>

ReadWord == call = "load" /\ pos <= Len(file) /\ pos' = pos + 1

SkipEmpty ==
  /\ ReadWord
  /\ file[pos] = NoWord
  /\ UNCHANGED <<vars, user, call, file, part, type, ours, saved, loaded, kept, seen>>

ReadType ==
  /\ ReadWord
  /\ file[pos] # NoWord /\ type = NoWord
  /\ type' = file[pos]
  /\ UNCHANGED <<vars, user, call, file, part, ours, saved, loaded, kept, seen>>

(* The rule that a type and a value stand for, if any; the cast of the     *)
(* number of a port keeps 16 bits.                                         *)
Entry(t, w) ==
  CASE t = Key[IP]          -> {<<IP, parseIP[w]>>}
    [] t = Key[APP]         -> {APP} \X AppsNamed[w]
    [] t = Key[DOMAIN_RULE] -> {<<DOMAIN_RULE, TextOf[w]>>}
    [] t = Key[PORT]        -> {<<PORT, n % 2^16>> : n \in Numbers[w]}
    [] OTHER                -> {}

BlockRule(r) ==
  \/ r[1] = IP          /\ blockIP(r[2])
  \/ r[1] = APP         /\ blockApp(r[2])
  \/ r[1] = DOMAIN_RULE /\ blockDomain(r[2])
  \/ r[1] = PORT        /\ blockPort(r[2])

ReadRule ==
  /\ ReadWord
  /\ file[pos] # NoWord /\ type # NoWord
  /\ \E r \in Entry(type, file[pos]) : BlockRule(r) /\ loaded' = loaded \cup {r}
  /\ Observe
  /\ type' = NoWord
  /\ UNCHANGED <<calls, user, call, file, part, ours, saved, kept, seen>>

(* stoi throws, and nobody catches it before the caller of loadRules.      *)
Throws == type = Key[PORT] /\ Numbers[file[pos]] = {}

ReadIgnored ==
  /\ ReadWord
  /\ file[pos] # NoWord /\ type # NoWord
  /\ Entry(type, file[pos]) = {} /\ ~Throws
  /\ type' = NoWord
  /\ UNCHANGED <<vars, user, call, file, part, ours, saved, loaded, kept, seen>>

ReadThrows ==
  /\ ReadWord
  /\ file[pos] # NoWord /\ Throws
  /\ call' = "loaded"
  /\ UNCHANGED <<vars, user, file, part, type, ours, saved, loaded, kept, seen>>

(* Wrong: one word too early.                                              *)
EndOfFileEarly ==
  /\ call = "load" /\ pos >= Len(file)
  /\ call' = "loaded"
  /\ UNCHANGED <<vars, user, file, part, pos, type, ours, saved, loaded, kept, seen>>

(* A type without a value is dropped.                                      *)
EndOfFile ==
  /\ call = "load" /\ pos > Len(file)
  /\ call' = "loaded"
  /\ UNCHANGED <<vars, user, file, part, pos, type, ours, saved, loaded, kept, seen>>

ReturnLoaded ==
  /\ call = "loaded"
  /\ user' = Nobody /\ call' = "nothing" /\ file' = <<>>
  /\ pos' = 1 /\ type' = NoWord
  /\ ours' = FALSE /\ saved' = {} /\ loaded' = {}
  /\ UNCHANGED <<vars, part, kept, seen>>

----------------------------------------------------------------------------
(* The calls of RuleManager, by the threads that do not use the file.      *)

ObserveSave ==
  /\ kept' = kept \cap InForce'
  /\ seen' = IF call = "save" THEN seen \cup InForce' ELSE {}
  /\ UNCHANGED <<place, saved, loaded>>

CallStep(c) ==
  \/ \E q \in Query : Begin(c, "check", q)
  \/ CheckSection(c) \/ BeginClear(c) \/ ClearSection(c) \/ End(c)

FileStep ==
  \/ \E c \in Client : BeginSave(c) \/ LoadByHand(c)
  \/ SaveSection \/ EndSave \/ LoadSaved
  \/ SkipEmpty \/ ReadType \/ ReadRule \/ ReadIgnored \/ ReadThrows
  \/ EndOfFile \/ ReturnLoaded

FileNext ==
  \/ ChangeRule /\ ObserveSave
  \/ \E c \in Client : c # user /\ CallStep(c) /\ ObserveSave
  \/ FileStep

FileSpec == FileInit /\ [][FileNext]_allVars

----------------------------------------------------------------------------
(* Properties.                                                             *)

(* Types; the file is used by one client, which is in no other call; what  *)
(* each call has of its own is idle outside it.                            *)
FileTypeOK ==
  /\ TypeOK
  /\ user \in Client \cup {Nobody}
  /\ call \in {"nothing", "save", "saved", "load", "loaded"}
  /\ file \in Seq(Words \cup {NoWord})
  /\ part \in IP..Done /\ pos \in 1..Len(file) + 1
  /\ type \in Words \cup {NoWord} /\ ours \in BOOLEAN
  /\ saved \subseteq Rule /\ loaded \subseteq Rule
  /\ kept \subseteq Rule /\ seen \subseteq Rule
  /\ user = Nobody <=> call = "nothing"
  /\ user # Nobody => doing[user] = "nothing"
  /\ call # "save" => part = Done /\ kept = {} /\ seen = {}
  /\ call \in {"nothing", "save", "saved"} => pos = 1 /\ type = NoWord /\ loaded = {}

(* What saveRules writes while other threads change the rules: rules that  *)
(* were in force at some moment of the call, and all that were in force    *)
(* during all of it.  (Both at once never need have been in force.)        *)
SaveRegular ==
  call = "save" /\ part = Done => kept \subseteq saved /\ saved \subseteq seen

(* What comes back from a file that saveRules wrote: exactly the rules in  *)
(* it, unless the empty domain is among them.  Then what follows it may be *)
(* lost or taken for a domain, but no address, application or port is      *)
(* blocked that was not saved, and those saved in front of it come back.   *)
RoundTrip ==
  call = "loaded" /\ ours =>
    /\ EmptyDomain \notin saved => loaded = saved
    /\ {r \in loaded : r[1] # DOMAIN_RULE} \subseteq saved
    /\ {r \in saved : r[1] \in {IP, APP}} \subseteq loaded

=============================================================================
