------------------------------ MODULE FastPath ------------------------------
(***************************************************************************)
(* A fast path at work (src/fast_path.cpp) with its flow table             *)
(* (src/connection_tracker.cpp) and the rules that it shares with other    *)
(* threads (RuleManager).  processPacket first tracks the flow of the      *)
(* packet and inspects the payload, which no other thread sees: one step.  *)
(* It then checks the rules kind by kind, while others change them, and    *)
(* records the verdict.  Which packets come, and in which order, is free.  *)
(*                                                                         *)
(* Payloads are abstracted to the TLS server name or HTTP host that        *)
(* inspectApplication finds in them, or to no name.  Byte and packet       *)
(* counts per flow and direction are left out: nothing depends on them.    *)
(***************************************************************************)
EXTENDS Naturals, Sequences, FiniteSets

CONSTANTS
  Address, App, Port, Text, Wild, Ops, MaxPatterns,  (* as in RuleManager  *)
  Fp,                (* the thread of the fast path                        *)
  Admin,             (* other threads, which clear the rules               *)
  Tuple,             (* the five-tuples of the packets                     *)
  SrcIp, DstPort,    (* SrcIp[t], DstPort[t]: two fields of a tuple        *)
  Host,              (* the names found in payloads, as label sequences    *)
  AppOf,             (* AppOf[h]: what classifyHost returns                *)
  UNKNOWN,           (* the application of a flow not classified           *)
  Packet,            (* the packets that may come                          *)
  max_connections_,  (* the limit of the flow table                        *)
  MaxPackets         (* bound on the number of packets                     *)

NoHost == <<>>

Query == [ip : Address, app : App, domain : Host \cup {NoHost}, port : Port]

ASSUME FastPathAssumption ==
  /\ Fp \notin Admin
  /\ Tuple # {}
  /\ SrcIp \in [Tuple -> Address] /\ DstPort \in [Tuple -> Port]
  /\ Text \subseteq Seq(STRING) /\ Host \subseteq Seq(STRING) /\ NoHost \notin Host
  /\ AppOf \in [Host -> App] /\ UNKNOWN \in App
  /\ Packet \subseteq [tuple : Tuple, host : Host \cup {NoHost}]
  /\ Ops \subseteq {"block", "unblock", "clear"} /\ MaxPatterns \in Nat
  /\ max_connections_ \in Nat /\ MaxPackets \in Nat

VARIABLES
  blocked_ips_, blocked_apps_, blocked_domains_, domain_patterns_, blocked_ports_,
  doing, section, query, reason, stood, ever,        (* as in RuleManager  *)
  job,                (* the packet in processPacket, or the last one      *)
  connections_,       (* the flow table, a function of tuples              *)
  total_seen_,        (* the counters of the tracker                       *)
  classified_count_,
  blocked_count_,
  packets_processed_, (* the counters of the fast path                     *)
  packets_dropped_,
  condemned           (* history: the tuples of the packets dropped        *)

ruleVars == <<blocked_ips_, blocked_apps_, blocked_domains_, domain_patterns_,
              blocked_ports_, doing, section, query, reason, stood, ever>>
flowVars == <<job, connections_, total_seen_, classified_count_, blocked_count_,
              packets_processed_, packets_dropped_, condemned>>
vars     == <<ruleVars, flowVars>>

Rules == INSTANCE RuleManager WITH Client <- Admin \cup {Fp}

----------------------------------------------------------------------------
(* The flow table.                                                         *)

(* steady_clock, in packets.                                               *)
Now == packets_processed_ + packets_dropped_

NewConnection ==
  [state |-> "NEW", app_type |-> UNKNOWN, sni |-> NoHost, last_seen |-> Now]

(* Wrong: forgets that a flow is established by its first packet.          *)
UpdatedStaysNew(conn) == [conn EXCEPT !.last_seen = Now]

(* updateConnection.                                                       *)
Updated(conn) ==
  [conn EXCEPT !.last_seen = Now,
               !.state = IF @ = "NEW" THEN "ESTABLISHED" ELSE @]

(* Wrong: inspects the packets of a blocked flow.                          *)
InspectedIfBlocked(conn, host) ==
  IF host = NoHost \/ conn.state \in {"CLASSIFIED", "CLOSED"}
  THEN conn
  ELSE [conn EXCEPT !.app_type = AppOf[host], !.sni = host,
                    !.state = IF @ = "BLOCKED" THEN @ ELSE "CLASSIFIED"]

(* Wrong: keeps the name only.                                             *)
InspectedNoApp(conn, host) ==
  IF host = NoHost \/ conn.state \in {"CLASSIFIED", "BLOCKED", "CLOSED"}
  THEN conn
  ELSE [conn EXCEPT !.sni = host, !.state = "CLASSIFIED"]

(* inspectApplication and classifyConnection.                              *)
Inspected(conn, host) ==
  IF host = NoHost \/ conn.state \in {"CLASSIFIED", "BLOCKED", "CLOSED"}
  THEN conn
  ELSE [conn EXCEPT !.app_type = AppOf[host], !.sni = host, !.state = "CLASSIFIED"]

Oldest ==
  {o \in DOMAIN connections_ :
     \A t \in DOMAIN connections_ : connections_[o].last_seen <= connections_[t].last_seen}

(* Wrong: makes room one connection too late.                              *)
KeptOneTooMany(tuple) ==
  IF tuple \in DOMAIN connections_ \/ Cardinality(DOMAIN connections_) <= max_connections_
  THEN {DOMAIN connections_}
  ELSE {DOMAIN connections_ \ {o} : o \in Oldest}

(* What the table may keep when getOrCreateConnection looks for a tuple:   *)
(* evictOldest makes room for a new one, if there is one to evict.         *)
Kept(tuple) ==
  IF \/ tuple \in DOMAIN connections_
     \/ Cardinality(DOMAIN connections_) < max_connections_
     \/ DOMAIN connections_ = {}
  THEN {DOMAIN connections_}
  ELSE {DOMAIN connections_ \ {o} : o \in Oldest}

----------------------------------------------------------------------------
Init ==
  /\ Rules!Init
  /\ job \in Packet
  /\ connections_ = <<>>
  /\ total_seen_ = 0 /\ classified_count_ = 0 /\ blocked_count_ = 0
  /\ packets_processed_ = 0 /\ packets_dropped_ = 0
  /\ condemned = {}

(* processPacket up to the call of shouldDrop.                             *)
TakePacket(packet) ==
  LET t      == packet.tuple
      known  == t \in DOMAIN connections_
      before == IF known THEN connections_[t] ELSE NewConnection
      conn   == Inspected(Updated(before), packet.host)
  IN  /\ Now < MaxPackets
      /\ \E kept \in Kept(t) :
           connections_' = [u \in kept \cup {t} |-> IF u = t THEN conn
                                                    ELSE connections_[u]]
      /\ total_seen_' = IF known THEN total_seen_ ELSE total_seen_ + 1
      /\ classified_count_' =
           IF before.app_type = UNKNOWN /\ conn.app_type # UNKNOWN
           THEN classified_count_ + 1 ELSE classified_count_
      /\ job' = packet
      /\ Rules!Begin(Fp, "check", [ip     |-> SrcIp[t],      app  |-> conn.app_type,
                                   domain |-> conn.sni,      port |-> DstPort[t]])
      /\ UNCHANGED <<blocked_count_, packets_processed_, packets_dropped_, condemned>>

(* Wrong: goes on after it has found a rule.                               *)
CheckRulesNoReturn ==
  /\ doing[Fp] = "check" /\ section[Fp] # Rules!Done
  /\ reason'  = IF Rules!Found(section[Fp], query[Fp])
                THEN [reason EXCEPT ![Fp] = section[Fp]] ELSE reason
  /\ section' = [section EXCEPT ![Fp] = @ + 1]
  /\ UNCHANGED <<blocked_ips_, blocked_apps_, blocked_domains_, domain_patterns_,
                 blocked_ports_, doing, query, stood, ever, flowVars>>

(* One step of shouldDrop.                                                 *)
CheckRules == Rules!CheckSection(Fp) /\ UNCHANGED flowVars

(* Wrong: counts a connection as blocked with each of its packets.         *)
DropCountsPackets ==
  /\ Rules!Checked(Fp) /\ reason[Fp] # Rules!None
  /\ Rules!End(Fp)
  /\ connections_' = [connections_ EXCEPT ![job.tuple].state = "BLOCKED"]
  /\ blocked_count_' = blocked_count_ + 1
  /\ packets_dropped_' = packets_dropped_ + 1
  /\ condemned' = condemned \cup {job.tuple}
  /\ UNCHANGED <<job, total_seen_, classified_count_, packets_processed_>>

(* blockConnection, and the packet is counted as dropped.                  *)
Drop ==
  /\ Rules!Checked(Fp) /\ reason[Fp] # Rules!None
  /\ Rules!End(Fp)
  /\ connections_' = [connections_ EXCEPT ![job.tuple].state = "BLOCKED"]
  /\ blocked_count_' = IF connections_[job.tuple].state = "BLOCKED"
                       THEN blocked_count_ ELSE blocked_count_ + 1
  /\ packets_dropped_' = packets_dropped_ + 1
  /\ condemned' = condemned \cup {job.tuple}
  /\ UNCHANGED <<job, total_seen_, classified_count_, packets_processed_>>

Accept ==
  /\ Rules!Checked(Fp) /\ reason[Fp] = Rules!None
  /\ Rules!End(Fp)
  /\ packets_processed_' = packets_processed_ + 1
  /\ UNCHANGED <<job, connections_, total_seen_, classified_count_, blocked_count_,
                 packets_dropped_, condemned>>

(* The other threads.                                                      *)
AdminStep ==
  /\ \/ Rules!ChangeRule
     \/ \E c \in Admin : Rules!BeginClear(c) \/ Rules!ClearSection(c) \/ Rules!End(c)
  /\ UNCHANGED flowVars

Next ==
  \/ \E packet \in Packet : TakePacket(packet)
  \/ CheckRules \/ Drop \/ Accept
  \/ AdminStep

Spec == Init /\ [][Next]_vars

----------------------------------------------------------------------------
(* Properties.                                                             *)

Connection == [state     : {"ESTABLISHED", "CLASSIFIED", "BLOCKED"},
               app_type  : App,
               sni       : Host \cup {NoHost},
               last_seen : Nat]

(* What a check of a packet of t asks for.                                 *)
Asks(t) == [ip |-> SrcIp[t], app |-> connections_[t].app_type,
            domain |-> connections_[t].sni, port |-> DstPort[t]]

(* Types; and the packet being checked is in the table with what the check *)
(* asks for: the pointer that processPacket keeps across the calls of the  *)
(* tracker is never to an evicted connection.                              *)
TypeOK ==
  /\ job \in Packet
  /\ DOMAIN connections_ \subseteq Tuple
  /\ connections_ \in [DOMAIN connections_ -> Connection]
  /\ total_seen_ \in Nat /\ classified_count_ \in Nat /\ blocked_count_ \in Nat
  /\ packets_processed_ \in Nat /\ packets_dropped_ \in Nat
  /\ condemned \subseteq Tuple
  /\ doing[Fp] \in {"nothing", "check"}
  /\ doing[Fp] = "check" =>
       /\ job.tuple \in DOMAIN connections_
       /\ query[Fp] = Asks(job.tuple)

(* Every verdict is one that the rules in force during the check justify.  *)
VerdictRegular == Rules!CheckRegular

(* A fast path uses the rules as RuleManager lets any thread use them.     *)
UsesRules == Rules!Spec

(* Once a packet of a flow has been dropped no packet of it is accepted.   *)
FlowStaysBlocked ==
  Rules!Checked(Fp) /\ job.tuple \in condemned => reason[Fp] # Rules!None

(* What the packet in hand itself shows to a check.                        *)
OwnQuery == [ip   |-> SrcIp[job.tuple], app |-> AppOf[job.host], domain |-> job.host,
             port |-> DstPort[job.tuple]]

(* If a rule against the host that a packet shows, or its application,     *)
(* stands, the packet is not accepted, unless an earlier packet of its     *)
(* flow showed another host: also when the flow has been blocked before    *)
(* it was classified, and its packets are not inspected any more.          *)
FirstHostEnforced ==
  Rules!Checked(Fp) /\ job.host # NoHost
    /\ connections_[job.tuple].sni \in {NoHost, job.host}
    /\ (\E r \in stood[Fp] : Rules!Matches(r, OwnQuery))
  => reason[Fp] # Rules!None

(* The flow table does not outgrow its limit, one entry at least.          *)
TableBounded ==
  Cardinality(DOMAIN connections_) <= IF max_connections_ = 0 THEN 1
                                      ELSE max_connections_

Tracked(Test(_)) ==
  Cardinality({t \in DOMAIN connections_ : Test(connections_[t])})

Evicted == total_seen_ - Cardinality(DOMAIN connections_)

(* The tracker counts connections, not packets: those it counts as blocked *)
(* or classified are those in the table that are, and some of the evicted. *)
CountersAgree ==
  /\ blocked_count_ - Tracked(LAMBDA c : c.state = "BLOCKED") \in 0..Evicted
  /\ classified_count_ - Tracked(LAMBDA c : c.app_type # UNKNOWN) \in 0..Evicted
  /\ blocked_count_ <= packets_dropped_

=============================================================================
