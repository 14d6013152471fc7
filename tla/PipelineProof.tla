---------------------------- MODULE PipelineProof ----------------------------
(***************************************************************************)
(* Pipeline for any packets, any hash function, any number of balancers    *)
(* and fast paths, any capacity and any number of restarts: its types, the *)
(* order in which the packets of a flow are processed, the accounts, the   *)
(* answers of getStats, and who waits for whom; and what the hash, used    *)
(* twice, makes of the fast paths.                                         *)
(***************************************************************************)
EXTENDS Pipeline, Sums

----------------------------------------------------------------------------
(* The numbering of the workers and the routes.                            *)

LEMMA Remainder == ASSUME NEW h \in Nat, NEW n \in Nat \ {0}
                   PROVE  h % n \in 0..n-1
OBVIOUS

LEMMA Blocks ==
  ASSUME NEW n \in Nat \ {0}, NEW f \in Nat \ {0}, NEW l \in 1..n
  PROVE  (l - 1) * f \in Nat /\ l * f = (l - 1) * f + f /\ l * f <= n * f
<1>1. (l - 1) * f \in Nat
  OBVIOUS
<1>2. l * f = (l - 1) * f + f
  OBVIOUS
<1>3. l * f <= n * f
  OBVIOUS
<1> QED
  BY <1>1, <1>2, <1>3

LEMMA Sizes ==
  /\ NumLBs \in Nat \ {0} /\ FpsPerLb \in Nat \ {0} /\ NumFPs \in Nat \ {0}
  /\ LBs \cup FPs = Worker /\ LBs \cap FPs = {}
  /\ Worker \subseteq Nat \ {0} /\ LBs \subseteq Worker /\ FPs \subseteq Worker
  /\ \A w \in Worker : w # 1 => w - 1 \in Worker
  /\ 1 \in LBs
<1>1. NumLBs \in Nat \ {0} /\ FpsPerLb \in Nat \ {0}
  BY DispatchAssumption
<1>2. NumFPs \in Nat \ {0}
  BY <1>1 DEF NumFPs
<1> QED
  BY <1>1, <1>2 DEF LBs, FPs, Worker

(* A balancer gives a packet to a fast path of its own.                    *)
LEMMA OwnFastPath ==
  ASSUME NEW tuple \in Tuple, NEW l \in LBs
  PROVE  /\ LBFor(tuple) \in LBs
         /\ SelectFP(l, tuple) \in FPsOf(l)
         /\ SelectFP(l, tuple) \in FPs
<1>1. Hash[tuple] \in Nat
  BY DispatchAssumption
<1>2. LBFor(tuple) \in LBs
  BY <1>1, Sizes, Remainder DEF LBFor, LBs
<1>3. Hash[tuple] % FpsPerLb \in 0..FpsPerLb - 1
  BY <1>1, Sizes, Remainder
<1>4. /\ (l - 1) * FpsPerLb \in Nat /\ l * FpsPerLb = (l - 1) * FpsPerLb + FpsPerLb
      /\ l * FpsPerLb <= NumFPs
  BY Sizes, Blocks DEF LBs, NumFPs
<1> QED
  BY <1>2, <1>3, <1>4, Sizes DEF SelectFP, FPsOf, FPs

(* The fast paths of two balancers are different.                          *)
LEMMA OwnFastPathsOnly ==
  ASSUME NEW k \in LBs, NEW l \in LBs, k # l
  PROVE  FPsOf(k) \cap FPsOf(l) = {}
<1>1. ASSUME NEW a \in LBs, NEW b \in LBs, a < b PROVE a * FpsPerLb <= (b - 1) * FpsPerLb
  <2>1. a \in 1..(b - 1) /\ b - 1 \in Nat \ {0}
    BY <1>1, Sizes DEF LBs
  <2> QED
    BY <2>1, Sizes, Blocks
<1>2. ASSUME NEW a \in LBs PROVE a * FpsPerLb \in Nat /\ (a - 1) * FpsPerLb \in Nat
  BY Sizes, Blocks DEF LBs
<1> QED
  BY <1>1, <1>2, Sizes DEF FPsOf, LBs

(* With as many fast paths for each balancer as there are balancers (two   *)
(* and two by default) the hash that has picked the balancer picks the     *)
(* same fast path of it again: the flows of a balancer are never spread.   *)
THEOREM FlowsNotSpread ==
  ASSUME FpsPerLb = NumLBs, NEW s \in Tuple, NEW t \in Tuple, LBFor(s) = LBFor(t)
  PROVE  SelectFP(LBFor(s), s) = SelectFP(LBFor(t), t)
<1>1. Hash[s] \in Nat /\ Hash[t] \in Nat
  BY DispatchAssumption
<1>2. Hash[s] % NumLBs \in Int /\ Hash[t] % NumLBs \in Int
  BY <1>1, Sizes, Remainder
<1>3. Hash[s] % NumLBs = Hash[t] % NumLBs
  BY <1>2 DEF LBFor
<1> QED
  BY <1>3 DEF SelectFP

LEMMA Destinations ==
  ASSUME NEW p \in Packet
  PROVE  /\ p \in Nat \ {0} /\ p # NoPacket /\ Jobs[p] \in Tuple
         /\ Dest(0, p) \in LBs /\ Dest(0, p) = LBFor(Jobs[p])
         /\ \A l \in LBs : Dest(l, p) \in FPs /\ Dest(l, p) = SelectFP(l, Jobs[p])
<1>1. p \in Nat \ {0} /\ p # NoPacket /\ Jobs[p] \in Tuple
  BY PipelineAssumption DEF Packet, NoPacket
<1>2. 0 \notin LBs
  BY Sizes
<1> QED
  BY <1>1, <1>2, OwnFastPath, Sizes DEF Dest

----------------------------------------------------------------------------
(* The type invariant.                                                     *)

LEMMA TypeInit == Init => TypeOK
<1> SUFFICES ASSUME Init PROVE TypeOK
  OBVIOUS
<1>1. OwnerOK
  <2>1. stats \in [submitted : Nat, received : Nat, dispatched : Nat, processed : Nat]
    BY DEF Init, NoStats
  <2>2. Len(Jobs) \in Nat /\ MaxStarts \in Nat
    BY PipelineAssumption
  <2>3. /\ main = "idle" /\ cursor = 0 /\ running_ = FALSE /\ settled = FALSE
        /\ packets_submitted_ = 0 /\ starts = 0
    BY DEF Init
  <2>4. main \in Mains /\ ~Stopping
    BY <2>3 DEF Mains, Stopping
  <2>5. packets_submitted_ \in 0..Len(Jobs) /\ starts \in 0..MaxStarts
    BY <2>2, <2>3
  <2> QED
    BY <2>1, <2>3, <2>4, <2>5 DEF OwnerOK
<1>2. WorkersOK
  BY Sizes DEF Init, WorkersOK, Fates, Alive, Stopping, Packet, NoPacket
<1> QED
  BY <1>1, <1>2 DEF TypeOK

(* The owner's steps, of which the workers see at most running_ and        *)
(* shutdown_.                                                              *)
LEMMA WorkersSee ==
  ASSUME WorkersOK, UNCHANGED <<at, hand, queue, counters, fate>>,
         on' \in [Worker -> BOOLEAN], shut' \in [Worker -> BOOLEAN],
         \A w \in Worker : at[w] # "off" => w \in Alive'
  PROVE  WorkersOK'
BY DEF WorkersOK, counters

LEMMA AliveInCall ==
  ASSUME main' \notin {"start", "stop", "shut", "join"}, running_' = running_,
         main \notin {"start", "stop", "shut", "join"}
  PROVE  Alive' = Alive
BY DEF Alive, Stopping

LEMMA CallStepType ==
  ASSUME TypeOK, Submit \/ GetStats \/ ReadReceived \/ ReadDispatched \/ ReadProcessed
                 \/ Answer
  PROVE  TypeOK'
<1> USE DEF TypeOK
<1>1. Alive' = Alive
  BY AliveInCall DEF Submit, GetStats, ReadReceived, ReadDispatched, ReadProcessed, Answer
<1>2. UNCHANGED <<at, hand, queue, counters, fate, on, shut>>
  BY DEF Submit, GetStats, ReadReceived, ReadDispatched, ReadProcessed, Answer
<1>3. WorkersOK'
  BY <1>1, <1>2, WorkersSee DEF WorkersOK
<1> USE Sizes DEF OwnerOK, Mains, Stopping
<1>4. CASE Submit
  BY <1>3, <1>4 DEF Submit, Upcoming
<1>5. CASE GetStats
  <2>1. stats' \in [submitted : Nat, received : Nat, dispatched : Nat, processed : Nat]
    <3>1. packets_submitted_ \in Nat
      OBVIOUS
    <3> QED
      BY <1>5, <3>1 DEF GetStats, NoStats
  <2>2. settled' \in BOOLEAN
    BY <1>5 DEF GetStats
  <2>3. /\ main' = "received" /\ cursor' = 1
        /\ UNCHANGED <<running_, packets_submitted_, starts>>
    BY <1>5 DEF GetStats
  <2> QED
    BY <1>3, <2>1, <2>2, <2>3
<1>6. CASE ReadReceived
  <2>1. cursor \in LBs /\ stats.received + packets_received_[cursor] \in Nat
    <3>1. cursor \in LBs /\ stats.received \in Nat
      BY <1>6 DEF ReadReceived
    <3>2. packets_received_[cursor] \in Nat
      BY <3>1 DEF WorkersOK
    <3> QED
      BY <3>1, <3>2
  <2>2. stats' \in [submitted : Nat, received : Nat, dispatched : Nat, processed : Nat]
    BY <1>6, <2>1 DEF ReadReceived
  <2>3. main' = "dispatched" /\ cursor' \in LBs
    BY <1>6, <2>1 DEF ReadReceived
  <2>4. UNCHANGED <<running_, packets_submitted_, starts, settled>>
    BY <1>6 DEF ReadReceived
  <2> QED
    BY <1>3, <2>2, <2>3, <2>4
<1>7. CASE ReadDispatched
  <2>1. cursor \in LBs /\ stats.dispatched + packets_dispatched_[cursor] \in Nat
    <3>1. cursor \in LBs /\ stats.dispatched \in Nat
      BY <1>7 DEF ReadDispatched
    <3>2. packets_dispatched_[cursor] \in Nat
      BY <3>1 DEF WorkersOK
    <3> QED
      BY <3>1, <3>2
  <2>2. cursor + 1 \in LBs \/ cursor + 1 \in FPs
    BY <2>1 DEF LBs, FPs
  <2>3. stats' \in [submitted : Nat, received : Nat, dispatched : Nat, processed : Nat]
    BY <1>7, <2>1 DEF ReadDispatched
  <2>4. \/ main' = "received" /\ cursor' \in LBs
        \/ main' = "processed" /\ cursor' \in FPs
    BY <1>7, <2>2 DEF ReadDispatched
  <2>5. UNCHANGED <<running_, packets_submitted_, starts, settled>>
    BY <1>7 DEF ReadDispatched
  <2> QED
    BY <1>3, <2>3, <2>4, <2>5
<1>8. CASE ReadProcessed
  <2>1. cursor \in FPs /\ stats.processed + packets_processed_[cursor] \in Nat
    <3>1. cursor \in FPs /\ stats.processed \in Nat
      BY <1>8 DEF ReadProcessed
    <3>2. packets_processed_[cursor] \in Nat
      BY <3>1 DEF WorkersOK
    <3> QED
      BY <3>1, <3>2
  <2>2. cursor + 1 \in Worker => cursor + 1 \in FPs
    BY <2>1 DEF FPs, Worker
  <2>3. stats' \in [submitted : Nat, received : Nat, dispatched : Nat, processed : Nat]
    BY <1>8, <2>1 DEF ReadProcessed
  <2>4. \/ main' = "processed" /\ cursor' \in FPs
        \/ main' = "answer" /\ cursor' = 0
    BY <1>8, <2>2 DEF ReadProcessed
  <2>5. UNCHANGED <<running_, packets_submitted_, starts, settled>>
    BY <1>8 DEF ReadProcessed
  <2> QED
    BY <1>3, <2>3, <2>4, <2>5
<1>9. CASE Answer
  <2>1. stats' \in [submitted : Nat, received : Nat, dispatched : Nat, processed : Nat]
    BY <1>9 DEF Answer, NoStats
  <2>2. /\ main' = "idle" /\ settled' = FALSE /\ cursor' = 0
        /\ UNCHANGED <<running_, packets_submitted_, starts>>
    BY <1>9 DEF Answer
  <2> QED
    BY <1>3, <2>1, <2>2
<1> QED
  BY <1>4, <1>5, <1>6, <1>7, <1>8, <1>9

LEMMA StopStepType ==
  ASSUME TypeOK, Stop \/ StopWorker \/ ShutWorkerQueue \/ JoinWorker
  PROVE  TypeOK'
<1> USE DEF TypeOK
<1>1. UNCHANGED <<at, hand, queue, counters, fate>>
  BY DEF Stop, StopWorker, ShutWorkerQueue, JoinWorker
<1>2. on' \in [Worker -> BOOLEAN] /\ shut' \in [Worker -> BOOLEAN]
  BY DEF Stop, StopWorker, ShutWorkerQueue, JoinWorker, WorkersOK
<1>3. UNCHANGED <<packets_submitted_, starts, stats, settled>>
  BY DEF Stop, StopWorker, ShutWorkerQueue, JoinWorker
<1>4. CASE Stop
  <2>1. /\ main' = "stop" /\ cursor' = 1 /\ running_' = running_ /\ running_
        /\ 1 \in Worker
    BY <1>4, Sizes DEF Stop
  <2>2. \A w \in Worker : w \in Alive'
    BY <2>1, Sizes DEF Alive, Stopping
  <2> QED
    BY <1>1, <1>2, <1>3, <2>1, <2>2, WorkersSee DEF OwnerOK, Mains, Stopping
<1>5. CASE StopWorker \/ ShutWorkerQueue
  <2>1. /\ main' \in {"shut", "join"} /\ cursor' = cursor /\ running_' = running_ /\ Stopping
    BY <1>5 DEF StopWorker, ShutWorkerQueue, Stopping
  <2>2. Alive' = Alive
    BY <2>1 DEF Alive, Stopping
  <2>3. WorkersOK'
    BY <1>1, <1>2, <2>2, WorkersSee DEF WorkersOK
  <2> QED
    BY <1>3, <2>1, <2>3 DEF OwnerOK, Mains, Stopping
<1>6. CASE JoinWorker
  <2>1. /\ cursor \in Worker /\ at[cursor] = "off" /\ running_
        /\ \A w \in Worker : at[w] # "off" => w >= cursor
    BY <1>6 DEF JoinWorker, OwnerOK, WorkersOK, Stopping, Alive
  <2>2. \A w \in Worker : at[w] # "off" => w >= cursor + 1
    BY <2>1, Sizes
  <2>3. CASE cursor + 1 \in Worker
    <3>1. cursor' = cursor + 1 /\ main' = "stop" /\ running_' = running_
      BY <1>6, <2>3 DEF JoinWorker
    <3>2. \A w \in Worker : at[w] # "off" => w \in Alive'
      BY <2>2, <3>1 DEF Alive, Stopping
    <3>3. WorkersOK'
      BY <1>1, <1>2, <3>2, WorkersSee
    <3> QED
      BY <1>3, <2>1, <2>3, <3>1, <3>3 DEF OwnerOK, Mains, Stopping
  <2>4. CASE cursor + 1 \notin Worker
    <3>1. cursor' = 0 /\ main' = "idle" /\ running_' = FALSE
      BY <1>6, <2>4 DEF JoinWorker
    <3>2. \A w \in Worker : at[w] = "off"
      BY <2>1, <2>2, <2>4, Sizes DEF Worker
    <3>3. WorkersOK'
      BY <1>1, <1>2, <3>2, WorkersSee
    <3> QED
      BY <1>3, <3>1, <3>3 DEF OwnerOK, Mains, Stopping
  <2> QED
    BY <2>3, <2>4
<1> QED
  BY <1>4, <1>5, <1>6

LEMMA StartStepType ==
  ASSUME TypeOK, StartFastPaths \/ StartLoadBalancers
  PROVE  TypeOK'
<1> USE Sizes DEF TypeOK
<1>1. CASE StartFastPaths
  <2>1. /\ main' = "start" /\ running_' = running_ /\ ~running_ /\ cursor' = 0
        /\ starts' = starts + 1 /\ UNCHANGED <<packets_submitted_, stats, settled>>
        /\ starts < MaxStarts /\ \A w \in Worker : at[w] = "off"
    BY <1>1 DEF StartFastPaths, StartWorkers, OwnerOK, WorkersOK, Alive, Stopping
  <2>2. OwnerOK'
    BY <2>1, PipelineAssumption DEF OwnerOK, Mains, Stopping
  <2>3. \A w \in Worker : /\ hand[w] = NoPacket
                          /\ at'[w] = IF w \in FPs THEN "check" ELSE "off"
    BY <1>1, <2>1 DEF StartFastPaths, StartWorkers, WorkersOK
  <2>4. Alive' = FPs
    BY <2>1 DEF Alive, Stopping
  <2> QED
    BY <1>1, <2>2, <2>3, <2>4 DEF StartFastPaths, StartWorkers, WorkersOK, counters
<1>2. CASE StartLoadBalancers
  <2>1. /\ main' = "idle" /\ running_' = TRUE /\ cursor' = 0
        /\ UNCHANGED <<packets_submitted_, stats, settled, starts>>
        /\ \A w \in LBs : at[w] = "off"
    BY <1>2 DEF StartLoadBalancers, StartWorkers, OwnerOK, WorkersOK, Alive, Stopping
  <2>2. OwnerOK'
    BY <2>1 DEF OwnerOK, Mains, Stopping
  <2>3. /\ \A w \in LBs : hand[w] = NoPacket /\ at'[w] = "check"
        /\ \A w \in FPs : at'[w] = at[w]
    BY <1>2, <2>1 DEF StartLoadBalancers, StartWorkers, WorkersOK
  <2>4. Alive' = Worker
    BY <2>1 DEF Alive, Stopping
  <2> QED
    BY <1>2, <2>2, <2>3, <2>4 DEF StartLoadBalancers, StartWorkers, WorkersOK, counters
<1> QED
  BY <1>1, <1>2

LEMMA SubmitStepType ==
  ASSUME TypeOK, SubmitPushes \/ SubmitDiscards
  PROVE  TypeOK'
<1> USE DEF TypeOK
<1>1. /\ main = "submit" /\ main' = "idle" /\ packets_submitted_' = packets_submitted_ + 1
      /\ UNCHANGED <<cursor, running_, starts, stats, settled, at, hand, on, shut, counters>>
  BY DEF SubmitPushes, SubmitDiscards, Submitted
<1>2. Upcoming \in Packet /\ packets_submitted_ + 1 \in 0..Len(Jobs) /\ Dest(0, Upcoming) \in Worker
  BY <1>1, Destinations, Sizes, PipelineAssumption DEF OwnerOK, Upcoming, Packet
<1>3. OwnerOK'
  BY <1>1, <1>2 DEF OwnerOK, Mains, Stopping
<1>4. queue' \in [Worker -> Seq(Packet)] /\ fate' \in [Packet -> Fates]
  <2>1. CASE SubmitPushes
    <3>1. Append(queue[Dest(0, Upcoming)], Upcoming) \in Seq(Packet)
      BY <1>2 DEF WorkersOK
    <3> QED
      BY <1>2, <2>1, <3>1 DEF SubmitPushes, WorkersOK, Fates
  <2>2. CASE SubmitDiscards
    BY <1>2, <2>2 DEF SubmitDiscards, WorkersOK, Fates
  <2> QED
    BY <2>1, <2>2
<1>5. Alive' = Alive
  BY <1>1, AliveInCall
<1> QED
  BY <1>1, <1>3, <1>4, <1>5 DEF WorkersOK, counters

LEMMA WorkerStepType ==
  ASSUME TypeOK, NEW w \in Worker,
         \/ w \in LBs /\ LoadBalancerStep(w)
         \/ w \in FPs /\ FastPathStep(w)
  PROVE  TypeOK'
<1> USE DEF TypeOK
<1>1. OwnerOK'
  <2>1. UNCHANGED owner
    BY DEF LoadBalancerStep, FastPathStep, CheckRunning, TryPopFails, Receive,
       DispatchPushes, DispatchDiscards, CountDispatched, Take, Process
  <2> QED
    BY <2>1 DEF owner, OwnerOK, Stopping, Upcoming
<1>2. Alive' = Alive /\ at[w] # "off"
  <2>1. main' = main /\ cursor' = cursor /\ running_' = running_ /\ at[w] # "off"
    BY DEF LoadBalancerStep, FastPathStep, CheckRunning, TryPopFails, Receive,
       DispatchPushes, DispatchDiscards, CountDispatched, Take, Process, owner
  <2> QED
    BY <2>1 DEF Alive, Stopping
<1> USE <1>2, Sizes DEF WorkersOK
<1>3. CASE CheckRunning(w) \/ TryPopFails(w)
  <2>1. /\ hand[w] = NoPacket
        /\ \E v \in {"pop", "off", "check"} : at' = [at EXCEPT ![w] = v]
        /\ UNCHANGED <<hand, on, queue, shut, fate>>
        /\ UNCHANGED <<packets_received_, packets_dispatched_, packets_processed_>>
    BY <1>3 DEF CheckRunning, TryPopFails, counters
  <2>2. (\A u \in Worker : u # w => at'[u] = at[u]) /\ at'[w] \in {"pop", "off", "check"}
    <3>1. PICK v \in {"pop", "off", "check"} : at' = [at EXCEPT ![w] = v]
      BY <2>1
    <3> QED
      BY <3>1
  <2>3. at' \in [Worker -> {"off", "check", "pop", "push", "count", "work"}]
    BY <2>1
  <2>4. /\ \A l \in LBs : at'[l] # "work"
        /\ \A f \in FPs : at'[f] \notin {"push", "count"}
    BY <2>2
  <2>5. \A u \in Worker : /\ at'[u] \in {"push", "work"} <=> hand'[u] # NoPacket
                          /\ at'[u] # "off" => u \in Alive'
    BY <2>1, <2>2
  <2> QED
    BY <1>1, <2>1, <2>3, <2>4, <2>5
<1>4. CASE Receive(w) /\ w \in LBs
  <2>1. Head(queue[w]) \in Packet /\ Tail(queue[w]) \in Seq(Packet)
    BY <1>4 DEF Receive
  <2>2. Head(queue[w]) # NoPacket /\ packets_received_[w] + 1 \in Nat
    BY <1>4, <2>1, Destinations
  <2>3. /\ hand' \in [Worker -> Packet \cup {NoPacket}] /\ queue' \in [Worker -> Seq(Packet)]
        /\ packets_received_' \in [LBs -> Nat]
    BY <1>4, <2>1, <2>2 DEF Receive
  <2>4. \A u \in Worker : /\ at'[u] = IF u = w THEN "push" ELSE at[u]
                          /\ hand'[u] = IF u = w THEN Head(queue[w]) ELSE hand[u]
    BY <1>4 DEF Receive
  <2>5. at' \in [Worker -> {"off", "check", "pop", "push", "count", "work"}]
    BY <1>4 DEF Receive
  <2>6. /\ on' \in [Worker -> BOOLEAN] /\ shut' \in [Worker -> BOOLEAN]
        /\ packets_dispatched_' \in [LBs -> Nat] /\ packets_processed_' \in [FPs -> Nat]
        /\ fate' \in [Packet -> Fates]
    BY <1>4 DEF Receive
  <2>7. /\ \A l \in LBs : at'[l] # "work"
        /\ \A f \in FPs : at'[f] \notin {"push", "count"}
    BY <1>4, <2>4
  <2>8. \A u \in Worker : /\ at'[u] \in {"push", "work"} <=> hand'[u] # NoPacket
                          /\ at'[u] # "off" => u \in Alive'
    BY <2>2, <2>4
  <2> QED
    BY <1>1, <2>3, <2>5, <2>6, <2>7, <2>8
<1>5. CASE Take(w) /\ w \in FPs
  <2>1. Head(queue[w]) \in Packet /\ Tail(queue[w]) \in Seq(Packet)
    BY <1>5 DEF Take
  <2>2. Head(queue[w]) # NoPacket
    BY <2>1, Destinations
  <2>3. /\ hand' \in [Worker -> Packet \cup {NoPacket}] /\ queue' \in [Worker -> Seq(Packet)]
        /\ at' \in [Worker -> {"off", "check", "pop", "push", "count", "work"}]
    BY <1>5, <2>1 DEF Take
  <2>4. \A u \in Worker : /\ at'[u] = IF u = w THEN "work" ELSE at[u]
                          /\ hand'[u] = IF u = w THEN Head(queue[w]) ELSE hand[u]
    BY <1>5 DEF Take
  <2>5. UNCHANGED <<on, shut, packets_received_, packets_dispatched_, packets_processed_, fate>>
    BY <1>5 DEF Take, counters
  <2>6. /\ \A l \in LBs : at'[l] # "work"
        /\ \A f \in FPs : at'[f] \notin {"push", "count"}
    BY <1>5, <2>4
  <2>7. \A u \in Worker : /\ at'[u] \in {"push", "work"} <=> hand'[u] # NoPacket
                          /\ at'[u] # "off" => u \in Alive'
    BY <2>2, <2>4
  <2> QED
    BY <1>1, <2>3, <2>5, <2>6, <2>7
<1>6. CASE DispatchPushes(w) /\ w \in LBs
  <2>1. hand[w] \in Packet
    BY <1>6 DEF DispatchPushes
  <2>2. Dest(w, hand[w]) \in Worker
    BY <1>6, <2>1, Destinations
  <2>3. queue' \in [Worker -> Seq(Packet)]
    <3>0. queue[Dest(w, hand[w])] \in Seq(Packet)
      BY <2>2
    <3>1. Append(queue[Dest(w, hand[w])], hand[w]) \in Seq(Packet)
      BY <2>1, <3>0
    <3> QED
      BY <1>6, <2>2, <3>1 DEF DispatchPushes
  <2> QED
    BY <1>1, <1>6, <2>3 DEF DispatchPushes, counters
<1>7. CASE DispatchDiscards(w) /\ w \in LBs
  <2>1. fate' \in [Packet -> Fates]
    BY <1>7 DEF DispatchDiscards, Fates
  <2> QED
    BY <1>1, <1>7, <2>1 DEF DispatchDiscards, counters
<1>8. CASE CountDispatched(w) /\ w \in LBs
  <2>1. packets_dispatched_' \in [LBs -> Nat]
    BY <1>8 DEF CountDispatched
  <2> QED
    BY <1>1, <1>8, <2>1 DEF CountDispatched
<1>9. CASE Process(w) /\ w \in FPs
  <2>1. packets_processed_' \in [FPs -> Nat] /\ fate' \in [Packet -> Fates]
    BY <1>9 DEF Process, Fates
  <2> QED
    BY <1>1, <1>9, <2>1 DEF Process
<1> QED
  BY <1>3, <1>4, <1>5, <1>6, <1>7, <1>8, <1>9 DEF LoadBalancerStep, FastPathStep

LEMMA TypeStep == TypeOK /\ [Next]_vars => TypeOK'
<1> SUFFICES ASSUME TypeOK, [Next]_vars PROVE TypeOK'
  OBVIOUS
<1>1. CASE UNCHANGED vars
  BY <1>1 DEF vars, owner, counters, TypeOK, OwnerOK, WorkersOK, Alive, Stopping, Upcoming
<1>2. CASE \E w \in Worker : \/ w \in LBs /\ LoadBalancerStep(w)
                             \/ w \in FPs /\ FastPathStep(w)
  BY <1>2, WorkerStepType
<1> QED
  BY <1>1, <1>2, CallStepType, StopStepType, StartStepType, SubmitStepType, Sizes
     DEF Next, OwnerStep

(* The types hold in every state, for any sizes.                           *)
THEOREM TypeCorrect == Spec => []TypeOK
BY TypeInit, TypeStep, PTL DEF Spec

----------------------------------------------------------------------------
(* The order of a flow.                                                    *)

SameFlow(p, q) == Jobs[p] = Jobs[q]

(* The packets that worker w holds or finds in its queue.                  *)
At(w) == {p \in Packet : hand[w] = p \/ \E k \in DOMAIN queue[w] : queue[w][k] = p}

(* A packet in the pipeline is at its own balancer or fast path.           *)
Lanes ==
  \A w \in Worker : \A p \in At(w) :
    /\ fate[p] = "submitted"
    /\ w \in LBs => w = LBFor(Jobs[p])
    /\ w \in FPs => w = SelectFP(LBFor(Jobs[p]), Jobs[p])

Found == \A p \in Packet :
  /\ fate[p] = "submitted" => \E w \in Worker : p \in At(w)
  /\ fate[p] # "new" => p <= packets_submitted_

(* Of the packets of a flow the earlier one is ahead: in a queue, in the   *)
(* hand before the queue, at the fast path before the balancer, or done.   *)
QueuesInOrder ==
  \A w \in Worker : \A j, k \in DOMAIN queue[w] :
    j < k /\ SameFlow(queue[w][j], queue[w][k]) => queue[w][j] < queue[w][k]

HandsFirst ==
  \A w \in Worker : hand[w] # NoPacket =>
    \A k \in DOMAIN queue[w] : SameFlow(hand[w], queue[w][k]) => hand[w] < queue[w][k]

StagesInOrder ==
  \A l \in LBs, f \in FPs : \A q \in At(l), p \in At(f) : SameFlow(p, q) => p < q

DoneFirst ==
  \A w \in Worker : \A p \in At(w) : \A q \in Packet :
    fate[q] = "processed" /\ SameFlow(q, p) => q < p

(* The inductive strengthening of ProcessedInOrder.                        *)
FlowsInOrder == Lanes /\ Found /\ QueuesInOrder /\ HandsFirst /\ StagesInOrder /\ DoneFirst

(* The packet that leaves a hand is nowhere else.                          *)
LEMMA OnlyInHand ==
  ASSUME TypeOK, FlowsInOrder, NEW w \in Worker, hand[w] \in Packet
  PROVE  /\ hand[w] \in At(w)
         /\ \A k \in DOMAIN queue[w] : queue[w][k] # hand[w]
         /\ \A u \in Worker \ {w} : hand[w] \notin At(u)
<1> DEFINE p == hand[w]
<1>1. p \in Packet /\ p \in Nat /\ p # NoPacket /\ p \in At(w)
  BY Destinations DEF At
<1>2. \A k \in DOMAIN queue[w] : queue[w][k] # p
  BY <1>1 DEF FlowsInOrder, HandsFirst, SameFlow
<1>3. ASSUME NEW u \in Worker \ {w}, p \in At(u) PROVE FALSE
  <2> HIDE DEF p
  <2>1. CASE u \in LBs /\ w \in LBs
    BY <1>1, <1>3, <2>1 DEF FlowsInOrder, Lanes
  <2>2. CASE u \in FPs /\ w \in FPs
    BY <1>1, <1>3, <2>2 DEF FlowsInOrder, Lanes
  <2>3. CASE u \in LBs /\ w \in FPs
    <3>1. p < p
      BY <1>1, <1>3, <2>3 DEF FlowsInOrder, StagesInOrder, SameFlow
    <3> QED
      BY <1>1, <3>1
  <2>4. CASE u \in FPs /\ w \in LBs
    <3>1. p < p
      BY <1>1, <1>3, <2>4 DEF FlowsInOrder, StagesInOrder, SameFlow
    <3> QED
      BY <1>1, <3>1
  <2> QED
    BY <2>1, <2>2, <2>3, <2>4, Sizes
<1> QED
  BY <1>1, <1>2, <1>3

(* The packets of a flow that are in the pipeline are at one balancer and  *)
(* at one fast path.                                                       *)
LEMMA SameLane ==
  ASSUME Lanes, NEW u \in Worker, NEW w \in Worker, NEW p \in At(u), NEW q \in At(w),
         SameFlow(p, q)
  PROVE  (u \in LBs /\ w \in LBs) \/ (u \in FPs /\ w \in FPs) => u = w
BY DEF Lanes, SameFlow

(* A worker pops: nothing changes its place in the order.                  *)
LEMMA PopKeeps ==
  ASSUME TypeOK, FlowsInOrder, NEW w \in Worker, hand[w] = NoPacket, queue[w] # <<>>,
         hand' = [hand EXCEPT ![w] = Head(queue[w])],
         queue' = [queue EXCEPT ![w] = Tail(@)],
         UNCHANGED <<fate, packets_submitted_>>
  PROVE  FlowsInOrder'
<1>1. queue[w] \in Seq(Packet) /\ hand \in [Worker -> Packet \cup {NoPacket}]
      /\ queue \in [Worker -> Seq(Packet)] /\ NoPacket \notin Packet
  BY Destinations DEF TypeOK, WorkersOK
<1>2. /\ \A k \in DOMAIN Tail(queue[w]) :
           k + 1 \in DOMAIN queue[w] /\ Tail(queue[w])[k] = queue[w][k + 1]
      /\ \A k \in DOMAIN queue[w] : k # 1 =>
           k - 1 \in DOMAIN Tail(queue[w]) /\ Tail(queue[w])[k - 1] = queue[w][k]
      /\ 1 \in DOMAIN queue[w] /\ Head(queue[w]) = queue[w][1]
      /\ \A k \in DOMAIN queue[w] : k \in Nat /\ k >= 1
      /\ \A k \in DOMAIN Tail(queue[w]) : k \in Nat /\ k >= 1
  BY <1>1
<1>3. /\ hand'[w] = queue[w][1] /\ queue'[w] = Tail(queue[w])
      /\ \A u \in Worker \ {w} : hand'[u] = hand[u] /\ queue'[u] = queue[u]
  BY <1>1, <1>2
<1>4. ASSUME NEW u \in Worker PROVE At(u)' = At(u)
  <2>1. CASE u # w
    BY <1>3, <2>1 DEF At
  <2>2. CASE u = w
    <3>1. ASSUME NEW p \in Packet PROVE p \in At(w)' <=> p \in At(w)
      <4>1. p \in At(w)' <=> queue[w][1] = p \/ \E k \in DOMAIN Tail(queue[w]) : Tail(queue[w])[k] = p
        BY <1>3 DEF At
      <4>2. p \in At(w) <=> \E k \in DOMAIN queue[w] : queue[w][k] = p
        BY <1>1 DEF At
      <4> QED
        BY <1>2, <4>1, <4>2
    <3> QED
      BY <2>2, <3>1 DEF At
  <2> QED
    BY <2>1, <2>2
<1>5. QueuesInOrder'
  <2> SUFFICES ASSUME NEW u \in Worker, NEW j \in DOMAIN queue'[u], NEW k \in DOMAIN queue'[u],
                      j < k, SameFlow(queue'[u][j], queue'[u][k])
               PROVE  queue'[u][j] < queue'[u][k]
    BY DEF QueuesInOrder, SameFlow
  <2>1. CASE u # w
    BY <1>3, <2>1 DEF FlowsInOrder, QueuesInOrder
  <2>2. CASE u = w
    <3>1. /\ j + 1 \in DOMAIN queue[w] /\ queue'[w][j] = queue[w][j + 1]
          /\ k + 1 \in DOMAIN queue[w] /\ queue'[w][k] = queue[w][k + 1]
          /\ j + 1 < k + 1
      <4>1. j \in DOMAIN Tail(queue[w]) /\ k \in DOMAIN Tail(queue[w])
        BY <1>3, <2>2
      <4>2. j \in Nat /\ k \in Nat /\ j < k
        BY <1>2, <4>1
      <4>3. j + 1 < k + 1
        BY <4>2
      <4> QED
        BY <1>2, <1>3, <2>2, <4>1, <4>3
    <3> QED
      BY <2>2, <3>1 DEF FlowsInOrder, QueuesInOrder
  <2> QED
    BY <2>1, <2>2
<1>6. HandsFirst'
  <2> SUFFICES ASSUME NEW u \in Worker, hand'[u] # NoPacket, NEW k \in DOMAIN queue'[u],
                      SameFlow(hand'[u], queue'[u][k])
               PROVE  hand'[u] < queue'[u][k]
    BY DEF HandsFirst, SameFlow
  <2>1. CASE u # w
    BY <1>3, <2>1 DEF FlowsInOrder, HandsFirst
  <2>2. CASE u = w
    <3>1. /\ k + 1 \in DOMAIN queue[w] /\ queue'[w][k] = queue[w][k + 1]
          /\ hand'[w] = queue[w][1] /\ 1 \in DOMAIN queue[w] /\ 1 < k + 1
      <4>1. k \in DOMAIN Tail(queue[w])
        BY <1>3, <2>2
      <4>2. k \in Nat /\ k >= 1
        BY <1>2, <4>1
      <4>3. 1 < k + 1
        BY <4>2
      <4> QED
        BY <1>2, <1>3, <2>2, <4>1, <4>3
    <3> QED
      BY <2>2, <3>1 DEF FlowsInOrder, QueuesInOrder
  <2> QED
    BY <2>1, <2>2
<1>7. Lanes' /\ Found' /\ StagesInOrder' /\ DoneFirst'
  BY <1>4, Sizes DEF FlowsInOrder, Lanes, Found, StagesInOrder, DoneFirst, SameFlow
<1> QED
  BY <1>5, <1>6, <1>7 DEF FlowsInOrder

(* A packet goes to the end of a queue, behind all of its flow.            *)
LEMMA AppendKeeps ==
  ASSUME TypeOK, QueuesInOrder, HandsFirst, NEW x \in Packet, NEW q \in Worker,
         \A p \in At(q) : SameFlow(p, x) => p < x,
         queue' = [queue EXCEPT ![q] = Append(@, x)],
         \A u \in Worker : hand'[u] \in {hand[u], NoPacket}
  PROVE  /\ QueuesInOrder' /\ HandsFirst'
         /\ x \in At(q)'
         /\ \A u \in Worker : \A p \in At(u)' : p \in At(u) \/ (u = q /\ p = x)
         /\ \A u \in Worker : \A p \in At(u) : p \in At(u)' \/ (p = hand[u] /\ hand'[u] # hand[u])
<1>1. queue[q] \in Seq(Packet) /\ queue \in [Worker -> Seq(Packet)] /\ NoPacket \notin Packet
      /\ hand \in [Worker -> Packet \cup {NoPacket}]
  BY Destinations DEF TypeOK, WorkersOK
<1> DEFINE n == Len(queue[q]) + 1
<1>2. /\ n \in Nat /\ DOMAIN queue[q] = 1..(n - 1) /\ n \notin DOMAIN queue[q]
      /\ DOMAIN Append(queue[q], x) = DOMAIN queue[q] \cup {n}
      /\ Append(queue[q], x)[n] = x
      /\ \A k \in DOMAIN queue[q] : /\ Append(queue[q], x)[k] = queue[q][k]
                                    /\ k \in Nat /\ k < n /\ queue[q][k] \in Packet
  BY <1>1
<1>3. /\ queue'[q] = Append(queue[q], x)
      /\ \A u \in Worker \ {q} : queue'[u] = queue[u]
  BY <1>1
<1> HIDE DEF n
<1>4. \A k \in DOMAIN queue[q] : queue[q][k] \in At(q)
  BY <1>2 DEF At
<1>5. QueuesInOrder'
  <2> SUFFICES ASSUME NEW u \in Worker, NEW j \in DOMAIN queue'[u], NEW k \in DOMAIN queue'[u],
                      j < k, SameFlow(queue'[u][j], queue'[u][k])
               PROVE  queue'[u][j] < queue'[u][k]
    BY DEF QueuesInOrder, SameFlow
  <2>1. CASE u # q
    BY <1>3, <2>1 DEF QueuesInOrder
  <2>2. CASE u = q /\ k \in DOMAIN queue[q]
    <3>1. j # n
      BY <1>2, <2>2
    <3>2. j \in DOMAIN queue[q]
      BY <1>2, <1>3, <2>2, <3>1
    <3> QED
      BY <1>2, <1>3, <2>2, <3>2 DEF QueuesInOrder
  <2>3. CASE u = q /\ k = n
    <3>1. j # n
      BY <1>2, <2>3
    <3>2. j \in DOMAIN queue[q]
      BY <1>2, <1>3, <2>3, <3>1
    <3> QED
      BY <1>2, <1>3, <1>4, <2>3, <3>2
  <2> QED
    BY <1>2, <1>3, <2>1, <2>2, <2>3
<1>6. HandsFirst'
  <2> SUFFICES ASSUME NEW u \in Worker, hand'[u] # NoPacket, NEW k \in DOMAIN queue'[u],
                      SameFlow(hand'[u], queue'[u][k])
               PROVE  hand'[u] < queue'[u][k]
    BY DEF HandsFirst, SameFlow
  <2>0. hand'[u] = hand[u]
    OBVIOUS
  <2>1. CASE u # q \/ k \in DOMAIN queue[q]
    BY <1>2, <1>3, <2>0, <2>1 DEF HandsFirst
  <2>2. CASE u = q /\ k = n
    <3>1. hand[q] \in At(q)
      BY <1>1, <2>0, <2>2 DEF At
    <3> QED
      BY <1>2, <1>3, <2>0, <2>2, <3>1
  <2> QED
    BY <1>2, <1>3, <2>1, <2>2
<1>7. x \in At(q)'
  BY <1>2, <1>3 DEF At
<1>8. ASSUME NEW u \in Worker, NEW p \in At(u)' PROVE p \in At(u) \/ (u = q /\ p = x)
  <2>1. p \in Packet /\ (hand'[u] = p \/ \E k \in DOMAIN queue'[u] : queue'[u][k] = p)
    BY DEF At
  <2>2. CASE hand'[u] = p
    BY <1>1, <2>1, <2>2 DEF At
  <2>3. CASE \E k \in DOMAIN queue'[u] : queue'[u][k] = p
    BY <1>2, <1>3, <2>1, <2>3 DEF At
  <2> QED
    BY <2>1, <2>2, <2>3
<1>9. ASSUME NEW u \in Worker, NEW p \in At(u), ~(p = hand[u] /\ hand'[u] # hand[u])
      PROVE  p \in At(u)'
  <2>1. p \in Packet /\ (hand[u] = p \/ \E k \in DOMAIN queue[u] : queue[u][k] = p)
    BY DEF At
  <2>2. CASE \E k \in DOMAIN queue[u] : queue[u][k] = p
    <3>1. \E k \in DOMAIN queue'[u] : queue'[u][k] = p
      BY <1>2, <1>3, <2>2
    <3> QED
      BY <2>1, <3>1 DEF At
  <2> QED
    BY <1>9, <2>1, <2>2 DEF At
<1> QED
  BY <1>5, <1>6, <1>7, <1>8, <1>9

LEMMA SubmitKeeps ==
  ASSUME TypeOK, FlowsInOrder, SubmitPushes
  PROVE  FlowsInOrder'
<1>0. PICK x \in Packet : x = Upcoming
  BY DEF SubmitPushes, TypeOK, OwnerOK
<1>q. PICK q \in LBs : q = Dest(0, x)
  BY Destinations
<1>1. /\ x \in Packet /\ q \in LBs /\ q \in Worker /\ q = LBFor(Jobs[x]) /\ q \notin FPs
      /\ x = packets_submitted_ + 1 /\ packets_submitted_ \in Nat
  <2>1. x = packets_submitted_ + 1
    BY <1>0 DEF Upcoming
  <2>2. packets_submitted_ \in Nat
    BY PipelineAssumption DEF TypeOK, OwnerOK
  <2> QED
    BY <1>q, <2>1, <2>2, Destinations, Sizes
<1>2. /\ queue' = [queue EXCEPT ![q] = Append(@, x)] /\ hand' = hand
      /\ fate' = [fate EXCEPT ![x] = "submitted"] /\ packets_submitted_' = x
  BY <1>0, <1>q DEF SubmitPushes, Submitted, Upcoming
<1>3. \A p \in Packet : fate[p] # "new" => p < x
  BY <1>1, Destinations DEF FlowsInOrder, Found
<1>4. \A u \in Worker : \A p \in At(u) : p \in Packet /\ p < x /\ p # x
  BY <1>1, <1>3, Destinations DEF FlowsInOrder, Lanes, At
<1>5. /\ QueuesInOrder' /\ HandsFirst' /\ x \in At(q)'
      /\ \A u \in Worker : \A p \in At(u)' : p \in At(u) \/ (u = q /\ p = x)
      /\ \A u \in Worker : \A p \in At(u) : p \in At(u)'
  <2>1. \A p \in At(q) : SameFlow(p, x) => p < x
    BY <1>1, <1>4
  <2>2. \A u \in Worker : hand'[u] \in {hand[u], NoPacket} /\ hand'[u] = hand[u]
    BY <1>2
  <2>3. QueuesInOrder /\ HandsFirst
    BY DEF FlowsInOrder
  <2> QED
    BY <1>1, <1>2, <2>1, <2>2, <2>3, AppendKeeps
<1>6. /\ fate'[x] = "submitted"
      /\ \A p \in Packet \ {x} : fate'[p] = fate[p]
  BY <1>1, <1>2 DEF TypeOK, WorkersOK
<1>7. Lanes'
  <2> SUFFICES ASSUME NEW u \in Worker, NEW p \in At(u)'
               PROVE  /\ fate'[p] = "submitted"
                      /\ u \in LBs => u = LBFor(Jobs[p])
                      /\ u \in FPs => u = SelectFP(LBFor(Jobs[p]), Jobs[p])
    BY Zenon DEF Lanes, LBs, FPs, Worker, NumFPs, LBFor, SelectFP
  <2> QED
    BY <1>1, <1>4, <1>5, <1>6 DEF FlowsInOrder, Lanes
<1>8. Found'
  <2> SUFFICES ASSUME NEW p \in Packet
               PROVE  /\ fate'[p] = "submitted" => \E w \in Worker : p \in At(w)'
                      /\ fate'[p] # "new" => p <= packets_submitted_'
    BY DEF Found
  <2>1. CASE p = x
    <3>1. p <= packets_submitted_'
      BY <1>1, <1>2, <2>1
    <3> QED
      BY <1>1, <1>5, <2>1, <3>1
  <2>2. CASE p # x
    BY <1>1, <1>2, <1>3, <1>5, <1>6, <2>2, Destinations DEF FlowsInOrder, Found
  <2> QED
    BY <2>1, <2>2
<1>9. StagesInOrder'
  <2> SUFFICES ASSUME NEW l \in LBs, NEW f \in FPs, NEW r \in At(l)', NEW p \in At(f)',
                      SameFlow(p, r)
               PROVE  p < r
    BY DEF StagesInOrder, SameFlow
  <2>1. p \in At(f)
    BY <1>1, <1>5, Sizes
  <2> QED
    BY <1>4, <1>5, <2>1, Sizes DEF FlowsInOrder, StagesInOrder
<1>10. DoneFirst'
  <2> SUFFICES ASSUME NEW u \in Worker, NEW p \in At(u)', NEW r \in Packet,
                      fate'[r] = "processed", SameFlow(r, p)
               PROVE  r < p
    BY DEF DoneFirst, SameFlow
  <2>1. r # x /\ fate[r] = "processed"
    BY <1>6
  <2> QED
    BY <1>3, <1>5, <2>1 DEF FlowsInOrder, DoneFirst
<1> QED
  BY <1>5, <1>7, <1>8, <1>9, <1>10 DEF FlowsInOrder

LEMMA DispatchKeeps ==
  ASSUME TypeOK, FlowsInOrder, NEW b \in LBs, DispatchPushes(b)
  PROVE  FlowsInOrder'
<1>0. PICK x \in Packet : x = hand[b]
  BY Sizes DEF DispatchPushes, TypeOK, WorkersOK
<1>q. PICK q \in FPs : q = Dest(b, x)
  BY Destinations
<1>1. x \in Packet /\ b \in Worker
  BY Sizes
<1>2. x \in At(b) /\ (\A k \in DOMAIN queue[b] : queue[b][k] # x) /\ fate[x] = "submitted"
      /\ \A u \in Worker \ {b} : x \notin At(u)
  BY <1>0, <1>1, OnlyInHand DEF FlowsInOrder, Lanes
<1>3. /\ b = LBFor(Jobs[x]) /\ q \in FPs /\ q = SelectFP(LBFor(Jobs[x]), Jobs[x])
      /\ q \in Worker /\ q \notin LBs
  BY <1>1, <1>2, <1>q, Destinations, Sizes DEF FlowsInOrder, Lanes
<1>4. /\ queue' = [queue EXCEPT ![q] = Append(@, x)]
      /\ hand' = [hand EXCEPT ![b] = NoPacket]
      /\ fate' = fate /\ packets_submitted_' = packets_submitted_
  BY <1>0, <1>q DEF DispatchPushes, owner
<1>5. hand'[b] = NoPacket /\ \A u \in Worker \ {b} : hand'[u] = hand[u]
  BY <1>1, <1>4 DEF TypeOK, WorkersOK
<1>6. queue'[b] = queue[b]
  BY <1>1, <1>3, <1>4 DEF TypeOK, WorkersOK
<1>7. /\ QueuesInOrder' /\ HandsFirst' /\ x \in At(q)'
      /\ \A u \in Worker : \A p \in At(u)' : p \in At(u) \/ (u = q /\ p = x)
      /\ \A u \in Worker : \A p \in At(u) : p \in At(u)' \/ (u = b /\ p = x)
  <2>1. \A p \in At(q) : SameFlow(p, x) => p < x
    BY <1>2, <1>3 DEF FlowsInOrder, StagesInOrder
  <2>2. \A u \in Worker : hand'[u] \in {hand[u], NoPacket}
    BY <1>5
  <2>3. QueuesInOrder /\ HandsFirst
    BY DEF FlowsInOrder
  <2>4. \A u \in Worker : hand'[u] # hand[u] => u = b /\ hand[u] = x
    BY <1>0, <1>5
  <2>5. /\ QueuesInOrder' /\ HandsFirst' /\ x \in At(q)'
        /\ \A u \in Worker : \A p \in At(u)' : p \in At(u) \/ (u = q /\ p = x)
        /\ \A u \in Worker : \A p \in At(u) :
             p \in At(u)' \/ (p = hand[u] /\ hand'[u] # hand[u])
    BY <1>1, <1>3, <1>4, <2>1, <2>2, <2>3, AppendKeeps
  <2> QED
    BY <2>4, <2>5
<1>8. x \notin At(b)' /\ \A p \in At(b)' : \E k \in DOMAIN queue[b] : queue[b][k] = p
  BY <1>1, <1>2, <1>5, <1>6, Destinations DEF At
<1>9. Lanes'
  <2> SUFFICES ASSUME NEW u \in Worker, NEW p \in At(u)'
               PROVE  /\ fate[p] = "submitted"
                      /\ u \in LBs => u = LBFor(Jobs[p])
                      /\ u \in FPs => u = SelectFP(LBFor(Jobs[p]), Jobs[p])
    BY <1>4, Zenon DEF Lanes, LBs, FPs, Worker, NumFPs, LBFor, SelectFP
  <2> QED
    BY <1>2, <1>3, <1>7 DEF FlowsInOrder, Lanes
<1>10. Found'
  <2> SUFFICES ASSUME NEW p \in Packet
               PROVE  /\ fate[p] = "submitted" => \E w \in Worker : p \in At(w)'
                      /\ fate[p] # "new" => p <= packets_submitted_
    BY <1>4 DEF Found
  <2> QED
    BY <1>3, <1>7 DEF FlowsInOrder, Found
<1>11. StagesInOrder'
  <2> SUFFICES ASSUME NEW l \in LBs, NEW f \in FPs, NEW r \in At(l)', NEW p \in At(f)',
                      SameFlow(p, r)
               PROVE  p < r
    BY DEF StagesInOrder, SameFlow
  <2>1. r \in At(l) /\ l \in Worker /\ f \in Worker
    BY <1>3, <1>7, Sizes
  <2>2. CASE p \in At(f)
    BY <2>1, <2>2 DEF FlowsInOrder, StagesInOrder
  <2>3. CASE p = x
    <3>1. l = b
      BY <1>2, <1>1, <2>1, <2>3, SameLane DEF FlowsInOrder
    <3>2. PICK k \in DOMAIN queue[b] : queue[b][k] = r
      BY <1>8, <3>1
    <3>3. hand[b] # NoPacket /\ hand[b] = x
      BY <1>0, Destinations
    <3> QED
      BY <1>1, <2>3, <3>2, <3>3 DEF FlowsInOrder, HandsFirst
  <2> QED
    BY <1>7, <2>1, <2>2, <2>3
<1>12. DoneFirst'
  <2> SUFFICES ASSUME NEW u \in Worker, NEW p \in At(u)', NEW r \in Packet,
                      fate[r] = "processed", SameFlow(r, p)
               PROVE  r < p
    BY <1>4 DEF DoneFirst, SameFlow
  <2> QED
    BY <1>1, <1>2, <1>7 DEF FlowsInOrder, DoneFirst
<1> QED
  BY <1>7, <1>9, <1>10, <1>11, <1>12 DEF FlowsInOrder

(* A worker is done with the packet it holds, for good or ill.             *)
LEMMA ReleaseKeeps ==
  ASSUME TypeOK, FlowsInOrder, NEW b \in Worker, hand[b] \in Packet,
         NEW v \in {"discarded", "processed"}, v = "processed" => b \in FPs,
         hand' = [hand EXCEPT ![b] = NoPacket], UNCHANGED <<queue, packets_submitted_>>,
         fate' = [fate EXCEPT ![hand[b]] = v]
  PROVE  FlowsInOrder'
<1> DEFINE x == hand[b]
<1>1. x \in At(b) /\ (\A k \in DOMAIN queue[b] : queue[b][k] # x) /\ fate[x] = "submitted"
      /\ x \in Packet /\ \A u \in Worker \ {b} : x \notin At(u)
  BY OnlyInHand DEF FlowsInOrder, Lanes
<1>2. hand'[b] = NoPacket /\ \A u \in Worker \ {b} : hand'[u] = hand[u]
  BY DEF TypeOK, WorkersOK
<1>3. fate'[x] = v /\ \A p \in Packet \ {x} : fate'[p] = fate[p]
  BY <1>1 DEF TypeOK, WorkersOK
<1>4. x # NoPacket /\ hand[b] = x
  BY <1>1, Destinations
<1> HIDE DEF x
<1>5. \A u \in Worker : At(u)' = At(u) \ {x}
  <2> SUFFICES ASSUME NEW u \in Worker, NEW p \in Packet
               PROVE  p \in At(u)' <=> p \in At(u) /\ p # x
    BY DEF At
  <2>1. CASE u = b
    BY <1>1, <1>2, <1>4, <2>1, Destinations DEF At
  <2>2. CASE u # b
    <3>1. x \notin At(u)
      BY <1>1, <2>2
    <3> QED
      BY <1>2, <2>2, <3>1 DEF At
  <2> QED
    BY <2>1, <2>2
<1>6. QueuesInOrder' /\ HandsFirst'
  BY <1>2 DEF FlowsInOrder, QueuesInOrder, HandsFirst, SameFlow
<1>7. Lanes'
  <2> SUFFICES ASSUME NEW u \in Worker, NEW p \in At(u)'
               PROVE  /\ fate'[p] = "submitted"
                      /\ u \in LBs => u = LBFor(Jobs[p])
                      /\ u \in FPs => u = SelectFP(LBFor(Jobs[p]), Jobs[p])
    BY Zenon DEF Lanes, LBs, FPs, Worker, NumFPs, LBFor, SelectFP
  <2>1. p \in At(u) /\ p # x /\ p \in Packet
    BY <1>5 DEF At
  <2> QED
    BY <1>3, <2>1 DEF FlowsInOrder, Lanes
<1>8. Found'
  BY <1>1, <1>3, <1>5 DEF FlowsInOrder, Found
<1>9. StagesInOrder'
  BY <1>5, Sizes DEF FlowsInOrder, StagesInOrder, SameFlow
<1>10. DoneFirst'
  <2> SUFFICES ASSUME NEW u \in Worker, NEW p \in At(u)', NEW r \in Packet,
                      fate'[r] = "processed", SameFlow(r, p)
               PROVE  r < p
    BY DEF DoneFirst, SameFlow
  <2>1. p \in At(u) /\ p # x
    BY <1>5
  <2>2. CASE r # x
    BY <1>3, <2>1, <2>2 DEF FlowsInOrder, DoneFirst
  <2>3. CASE r = x
    <3>1. b \in FPs
      BY <1>3, <2>3
    <3>2. CASE u \in LBs
      BY <1>1, <2>1, <2>3, <3>1, <3>2 DEF FlowsInOrder, StagesInOrder
    <3>3. CASE u \in FPs
      <4>1. u = b
        BY <1>1, <2>1, <2>3, <3>1, <3>3, SameLane DEF FlowsInOrder
      <4>2. PICK k \in DOMAIN queue[b] : queue[b][k] = p
        BY <1>4, <2>1, <4>1 DEF At
      <4> QED
        BY <1>4, <2>3, <4>2 DEF FlowsInOrder, HandsFirst
    <3> QED
      BY <3>2, <3>3, Sizes
  <2> QED
    BY <2>2, <2>3
<1> QED
  BY <1>6, <1>7, <1>8, <1>9, <1>10 DEF FlowsInOrder

LEMMA StillKeeps ==
  ASSUME FlowsInOrder, UNCHANGED <<hand, queue, packets_submitted_, fate>>
  PROVE  FlowsInOrder'
<1>1. \A u \in Worker : At(u)' = At(u)
  BY DEF At
<1>2. Lanes' /\ QueuesInOrder' /\ HandsFirst'
  BY <1>1 DEF FlowsInOrder, Lanes, QueuesInOrder, HandsFirst
<1>3. Found'
  BY <1>1 DEF FlowsInOrder, Found
<1>4. StagesInOrder' /\ DoneFirst'
  BY <1>1, Sizes DEF FlowsInOrder, StagesInOrder, DoneFirst
<1> QED
  BY <1>2, <1>3, <1>4 DEF FlowsInOrder

(* A packet that is thrown away before it is in a queue.                   *)
LEMMA SubmitDiscardsKeeps ==
  ASSUME TypeOK, FlowsInOrder, SubmitDiscards
  PROVE  FlowsInOrder'
<1>0. PICK x \in Packet : x = Upcoming
  BY DEF SubmitDiscards, TypeOK, OwnerOK
<1>1. x = packets_submitted_ + 1 /\ packets_submitted_ \in Nat
  BY <1>0, PipelineAssumption DEF Upcoming, TypeOK, OwnerOK
<1>2. /\ hand' = hand /\ queue' = queue /\ packets_submitted_' = x
      /\ fate'[x] = "discarded" /\ \A p \in Packet \ {x} : fate'[p] = fate[p]
  BY <1>0, <1>1 DEF SubmitDiscards, Submitted, TypeOK, WorkersOK
<1>3. \A u \in Worker : At(u)' = At(u)
  BY <1>2 DEF At
<1>4. \A u \in Worker : \A p \in At(u) : p \in Packet \ {x}
  <2>1. \A p \in Packet : fate[p] # "new" => p # x
    BY <1>1, Destinations DEF FlowsInOrder, Found
  <2> QED
    BY <2>1 DEF FlowsInOrder, Lanes, At
<1>5. Lanes'
  <2> SUFFICES ASSUME NEW u \in Worker, NEW p \in At(u)'
               PROVE  /\ fate'[p] = "submitted"
                      /\ u \in LBs => u = LBFor(Jobs[p])
                      /\ u \in FPs => u = SelectFP(LBFor(Jobs[p]), Jobs[p])
    BY Zenon DEF Lanes, LBs, FPs, Worker, NumFPs, LBFor, SelectFP
  <2> QED
    BY <1>2, <1>3, <1>4 DEF FlowsInOrder, Lanes
<1>6. Found'
  <2> SUFFICES ASSUME NEW p \in Packet
               PROVE  /\ fate'[p] = "submitted" => \E w \in Worker : p \in At(w)
                      /\ fate'[p] # "new" => p <= x
    BY <1>2, <1>3 DEF Found
  <2>1. CASE p = x
    BY <1>1, <1>2, <2>1
  <2>2. CASE p # x
    BY <1>1, <1>2, <2>2, Destinations DEF FlowsInOrder, Found
  <2> QED
    BY <2>1, <2>2
<1>7. QueuesInOrder' /\ HandsFirst' /\ StagesInOrder'
  BY <1>2, <1>3, Sizes DEF FlowsInOrder, QueuesInOrder, HandsFirst, StagesInOrder, SameFlow
<1>8. DoneFirst'
  <2> SUFFICES ASSUME NEW u \in Worker, NEW p \in At(u)', NEW r \in Packet,
                      fate'[r] = "processed", SameFlow(r, p)
               PROVE  r < p
    BY DEF DoneFirst, SameFlow
  <2> QED
    BY <1>2, <1>3 DEF FlowsInOrder, DoneFirst
<1> QED
  BY <1>5, <1>6, <1>7, <1>8 DEF FlowsInOrder

LEMMA OrderStep == TypeOK /\ FlowsInOrder /\ [Next]_vars => FlowsInOrder'
<1> SUFFICES ASSUME TypeOK, FlowsInOrder, [Next]_vars PROVE FlowsInOrder'
  OBVIOUS
<1>1. CASE UNCHANGED <<hand, queue, packets_submitted_, fate>>
  BY <1>1, StillKeeps
<1>2. CASE SubmitPushes \/ SubmitDiscards
  BY <1>2, SubmitKeeps, SubmitDiscardsKeeps
<1>3. ASSUME NEW w \in Worker, (Receive(w) /\ w \in LBs) \/ (Take(w) /\ w \in FPs)
      PROVE  FlowsInOrder'
  <2>1. /\ hand[w] = NoPacket /\ queue[w] # <<>>
        /\ hand' = [hand EXCEPT ![w] = Head(queue[w])]
        /\ queue' = [queue EXCEPT ![w] = Tail(@)]
        /\ fate' = fate /\ packets_submitted_' = packets_submitted_
    BY <1>3 DEF Receive, Take, TypeOK, WorkersOK, owner
  <2> QED
    BY <2>1, PopKeeps
<1>4. ASSUME NEW l \in LBs, DispatchPushes(l) PROVE FlowsInOrder'
  BY <1>4, DispatchKeeps
<1>5. ASSUME NEW l \in LBs, DispatchDiscards(l) PROVE FlowsInOrder'
  <2>1. /\ hand[l] \in Packet /\ l \in Worker /\ hand' = [hand EXCEPT ![l] = NoPacket]
        /\ queue' = queue /\ packets_submitted_' = packets_submitted_
        /\ fate' = [fate EXCEPT ![hand[l]] = "discarded"]
    BY <1>5, Sizes DEF DispatchDiscards, TypeOK, WorkersOK, owner
  <2> QED
    BY <2>1, ReleaseKeeps
<1>6. ASSUME NEW f \in FPs, Process(f) PROVE FlowsInOrder'
  <2>1. /\ hand[f] \in Packet /\ f \in Worker /\ hand' = [hand EXCEPT ![f] = NoPacket]
        /\ queue' = queue /\ packets_submitted_' = packets_submitted_
        /\ fate' = [fate EXCEPT ![hand[f]] = "processed"]
    BY <1>6, Sizes DEF Process, TypeOK, WorkersOK, owner
  <2> QED
    BY <2>1, <1>6, ReleaseKeeps
<1>7. ASSUME NEW w \in Worker, CheckRunning(w) \/ TryPopFails(w) \/ CountDispatched(w)
      PROVE  FlowsInOrder'
  BY <1>7, StillKeeps DEF CheckRunning, TryPopFails, CountDispatched, owner
<1>8. CASE \/ Submit \/ Stop \/ StopWorker \/ ShutWorkerQueue \/ JoinWorker
           \/ GetStats \/ ReadReceived \/ ReadDispatched \/ ReadProcessed \/ Answer
           \/ StartFastPaths \/ StartLoadBalancers
  BY <1>8, StillKeeps DEF Submit, Stop, StopWorker, ShutWorkerQueue, JoinWorker, GetStats,
     ReadReceived, ReadDispatched, ReadProcessed, Answer, StartFastPaths,
     StartLoadBalancers, StartWorkers
<1>9. ASSUME NEW l \in LBs, LoadBalancerStep(l) PROVE FlowsInOrder'
  BY <1>3, <1>4, <1>5, <1>7, <1>9, Sizes DEF LoadBalancerStep
<1>10. ASSUME NEW f \in FPs, FastPathStep(f) PROVE FlowsInOrder'
  BY <1>3, <1>6, <1>7, <1>10, Sizes DEF FastPathStep
<1>11. CASE UNCHANGED vars
  BY <1>1, <1>11 DEF vars, owner
<1> QED
  BY <1>2, <1>8, <1>9, <1>10, <1>11 DEF Next, OwnerStep

LEMMA OrderInit == Init => FlowsInOrder
<1> SUFFICES ASSUME Init PROVE FlowsInOrder
  OBVIOUS
<1>1. \A w \in Worker : At(w) = {} /\ DOMAIN queue[w] = {} /\ hand[w] = NoPacket
  BY Destinations DEF Init, At
<1>2. \A p \in Packet : fate[p] = "new"
  BY DEF Init
<1> QED
  BY <1>1, <1>2, Sizes DEF FlowsInOrder, Lanes, Found, QueuesInOrder, HandsFirst,
     StagesInOrder, DoneFirst

(* However the threads run, and across any number of restarts, the packets *)
(* of a flow are processed in the order in which they were submitted.      *)
THEOREM FlowsProcessedInOrder == Spec => []ProcessedInOrder
<1>1. FlowsInOrder => ProcessedInOrder
  <2> SUFFICES ASSUME FlowsInOrder, NEW p \in Packet, NEW q \in Packet, p < q,
                      Jobs[p] = Jobs[q], fate[q] = "processed", fate[p] = "submitted"
               PROVE  FALSE
    BY DEF ProcessedInOrder
  <2>1. PICK w \in Worker : p \in At(w)
    BY DEF FlowsInOrder, Found
  <2>2. q < p
    BY <2>1 DEF FlowsInOrder, DoneFirst, SameFlow
  <2> QED
    BY <2>2, Destinations
<1> QED
  BY <1>1, OrderInit, OrderStep, TypeCorrect, PTL DEF Spec

----------------------------------------------------------------------------
(* The accounts.                                                           *)

Loads == [w \in Worker |-> Load(w)]

(* What the first part of Accounting adds up.                              *)
Balance == SumFunction(packets_processed_) + SumFunction(Loads) + Cardinality(Discarded)

Balanced == packets_submitted_ = Balance

LEMMA FiniteParts ==
  /\ IsFiniteSet(Worker) /\ IsFiniteSet(LBs) /\ IsFiniteSet(FPs) /\ IsFiniteSet(Packet)
  /\ \A l \in LBs : IsFiniteSet(FPsOf(l)) /\ FPsOf(l) \subseteq FPs
<1>1. NumLBs \in Int /\ NumFPs \in Int /\ Len(Jobs) \in Int
  BY Sizes, PipelineAssumption
<1>2. IsFiniteSet(1..NumLBs) /\ IsFiniteSet(1..Len(Jobs))
      /\ IsFiniteSet(1 .. NumLBs + NumFPs) /\ IsFiniteSet(NumLBs + 1 .. NumLBs + NumFPs)
  BY <1>1, FS_Interval
<1>3. ASSUME NEW l \in LBs PROVE FPsOf(l) \subseteq FPs
  <2>1. (l - 1) * FpsPerLb \in Nat /\ l * FpsPerLb \in Nat /\ l * FpsPerLb <= NumFPs
    BY Sizes, Blocks DEF LBs, NumFPs
  <2> QED
    BY <1>1, <2>1 DEF FPsOf, FPs
<1> QED
  BY <1>2, <1>3, FS_Subset DEF Worker, LBs, FPs, Packet

LEMMA LoadIs ==
  ASSUME NEW w \in Worker
  PROVE  /\ hand[w] = NoPacket => Load(w) = Len(queue[w]) + 0
         /\ hand[w] # NoPacket => Load(w) = Len(queue[w]) + 1
         /\ hand'[w] = NoPacket => Load(w)' = Len(queue'[w]) + 0
         /\ hand'[w] # NoPacket => Load(w)' = Len(queue'[w]) + 1
BY DEF Load

LEMMA LoadType ==
  ASSUME TypeOK, NEW w \in Worker
  PROVE  Load(w) \in Nat /\ (TypeOK' => Load(w)' \in Nat)
<1>1. Len(queue[w]) \in Nat /\ (TypeOK' => Len(queue'[w]) \in Nat)
  BY DEF TypeOK, WorkersOK
<1> QED
  BY <1>1, LoadIs

(* All summands are naturals.                                              *)
LEMMA BalanceParts ==
  ASSUME TypeOK
  PROVE  /\ Loads \in [Worker -> Nat] /\ packets_submitted_ \in Nat
         /\ SumFunction(packets_processed_) \in Nat /\ SumFunction(Loads) \in Nat
         /\ IsFiniteSet(Discarded) /\ Cardinality(Discarded) \in Nat
<1>1. Loads \in [Worker -> Nat] /\ packets_processed_ \in [FPs -> Nat]
  BY LoadType DEF Loads, TypeOK, WorkersOK
<1>2. packets_submitted_ \in Nat
  BY PipelineAssumption DEF TypeOK, OwnerOK
<1>3. IsFiniteSet(Discarded)
  BY FiniteParts, FS_Subset DEF Discarded
<1> QED
  BY <1>1, <1>2, <1>3, FiniteParts, SumIsNat, FS_CardinalityType

(* What a step does to the load of the worker that it is about.            *)
LEMMA LoadOnPush ==
  ASSUME TypeOK, NEW q \in Worker, NEW p \in Packet,
         queue' = [queue EXCEPT ![q] = Append(@, p)], hand'[q] = hand[q]
  PROVE  Load(q)' = Load(q) + 1
<1>1. queue[q] \in Seq(Packet) /\ queue'[q] = Append(queue[q], p)
  BY DEF TypeOK, WorkersOK
<1>2. Len(queue'[q]) = Len(queue[q]) + 1 /\ Len(queue[q]) \in Nat
  BY <1>1
<1> QED
  BY <1>2, LoadIs

LEMMA LoadOnRelease ==
  ASSUME TypeOK, NEW w \in Worker, hand[w] # NoPacket, hand'[w] = NoPacket,
         queue'[w] = queue[w]
  PROVE  Load(w)' = Load(w) - 1
<1>1. Len(queue[w]) \in Nat
  BY DEF TypeOK, WorkersOK
<1> QED
  BY <1>1, LoadIs

LEMMA LoadOnPop ==
  ASSUME TypeOK, NEW w \in Worker, at[w] = "pop", queue[w] # <<>>,
         hand' = [hand EXCEPT ![w] = Head(queue[w])],
         queue' = [queue EXCEPT ![w] = Tail(@)]
  PROVE  \A u \in Worker : Load(u)' = Load(u)
<1>1. queue[w] \in Seq(Packet) /\ hand[w] = NoPacket
  BY DEF TypeOK, WorkersOK
<1>2. Head(queue[w]) \in Packet
  BY <1>1
<1>3. /\ hand'[w] # NoPacket /\ queue'[w] = Tail(queue[w])
      /\ \A u \in Worker \ {w} : hand'[u] = hand[u] /\ queue'[u] = queue[u]
  BY <1>2, Destinations DEF TypeOK, WorkersOK
<1>4. Len(Tail(queue[w])) + 1 = Len(queue[w]) /\ Len(Tail(queue[w])) \in Nat
  BY <1>1
<1> QED
  <2>1. Load(w)' = Load(w)
    <3>1. Load(w) = Len(queue[w]) + 0 /\ Load(w)' = Len(Tail(queue[w])) + 1
      BY <1>1, <1>3, LoadIs
    <3>2. Len(queue[w]) \in Nat
      BY <1>1
    <3> QED
      BY <1>4, <3>1, <3>2
  <2>2. \A u \in Worker \ {w} : Load(u)' = Load(u)
    BY <1>3 DEF Load
  <2> QED
    BY <2>1, <2>2

(* When one load changes, the sum changes with it.                         *)
LEMMA LoadsChange ==
  ASSUME TypeOK, TypeOK', NEW w \in Worker, \A u \in Worker \ {w} : Load(u)' = Load(u)
  PROVE  SumFunction(Loads') = SumFunction(Loads) + Load(w)' - Load(w)
<1> DEFINE f == Loads
           g == Loads'
<1>1. Load(w) \in Nat /\ Load(w)' \in Nat
  BY LoadType
<1>2. f \in [Worker -> Nat] /\ g \in [Worker -> Nat] /\ f[w] = Load(w) /\ g[w] = Load(w)'
      /\ \A u \in Worker \ {w} : g[u] = f[u]
  BY LoadType DEF Loads
<1> HIDE DEF f, g
<1>3. SumFunction(g) + f[w] = SumFunction(f) + g[w]
  BY <1>2, FiniteParts, SumOfChange
<1>4. SumFunction(f) \in Nat /\ SumFunction(g) \in Nat
  BY <1>2, FiniteParts, SumIsNat
<1>5. SumFunction(g) = SumFunction(f) + Load(w)' - Load(w)
  BY <1>1, <1>2, <1>3, <1>4
<1> QED
  BY <1>5 DEF f, g

(* When one worker hands a packet to another, the sum stays.               *)
LEMMA LoadsMove ==
  ASSUME TypeOK, TypeOK', NEW w \in Worker, NEW q \in Worker, w # q,
         Load(w)' = Load(w) - 1, Load(q)' = Load(q) + 1,
         \A u \in Worker \ {w, q} : Load(u)' = Load(u)
  PROVE  SumFunction(Loads') = SumFunction(Loads)
<1> DEFINE f == Loads
           g == Loads'
           m == [u \in Worker |-> IF u = w THEN Load(w)' ELSE Load(u)]
<1>1. \A u \in Worker : Load(u) \in Nat /\ Load(u)' \in Nat
  BY LoadType
<1>2. /\ f \in [Worker -> Nat] /\ g \in [Worker -> Nat] /\ m \in [Worker -> Nat]
      /\ f[w] = m[w] + 1 /\ g[q] = m[q] + 1
      /\ \A u \in Worker \ {w} : m[u] = f[u]
      /\ \A u \in Worker \ {q} : g[u] = m[u]
  BY <1>1 DEF Loads
<1> HIDE DEF f, g, m
<1>3. /\ SumFunction(m) + f[w] = SumFunction(f) + m[w]
      /\ SumFunction(g) + m[q] = SumFunction(m) + g[q]
  BY <1>2, FiniteParts, SumOfChange
<1>4. /\ SumFunction(f) \in Nat /\ SumFunction(g) \in Nat /\ SumFunction(m) \in Nat
      /\ m[w] \in Nat /\ m[q] \in Nat
  BY <1>2, FiniteParts, SumIsNat
<1>5. SumFunction(g) = SumFunction(f)
  BY <1>2, <1>3, <1>4
<1> QED
  BY <1>5 DEF f, g

(* A packet that is thrown away is one more.                               *)
LEMMA OneMoreDiscarded ==
  ASSUME TypeOK, NEW p \in Packet, fate[p] # "discarded",
         fate' = [fate EXCEPT ![p] = "discarded"]
  PROVE  Cardinality(Discarded') = Cardinality(Discarded) + 1
<1>1. Discarded' = Discarded \cup {p} /\ p \notin Discarded
  BY DEF Discarded, TypeOK, WorkersOK
<1> QED
  BY <1>1, BalanceParts, FS_AddElement

(* The steps that move a packet, and those that do not.                    *)
LEMMA MovesOrStill ==
  ASSUME [Next]_vars
  PROVE  \/ SubmitPushes \/ SubmitDiscards
         \/ \E l \in LBs : Receive(l) \/ DispatchPushes(l) \/ DispatchDiscards(l)
         \/ \E f \in FPs : Take(f) \/ Process(f)
         \/ UNCHANGED <<hand, queue, packets_submitted_, packets_received_,
                        packets_processed_, fate>>
BY DEF Next, OwnerStep, LoadBalancerStep, FastPathStep, CheckRunning, TryPopFails,
   CountDispatched, Submit, Stop, StopWorker, ShutWorkerQueue, JoinWorker, GetStats,
   ReadReceived, ReadDispatched, ReadProcessed, Answer, StartFastPaths,
   StartLoadBalancers, StartWorkers, vars, owner, counters

LEMMA AccountsOnSubmit ==
  ASSUME TypeOK, TypeOK', FlowsInOrder, Balanced, SubmitPushes \/ SubmitDiscards
  PROVE  Balanced'
<1>p. PICK p \in Packet : p = Upcoming
  BY DEF SubmitPushes, SubmitDiscards, TypeOK, OwnerOK
<1>q. PICK q \in Worker : q = Dest(0, p)
  BY Destinations, Sizes
<1>1. /\ packets_submitted_' = packets_submitted_ + 1
      /\ UNCHANGED <<hand, packets_processed_>>
  BY DEF SubmitPushes, SubmitDiscards, Submitted, counters
<1>2. fate[p] = "new"
  <2>1. ~(p <= packets_submitted_)
    BY <1>p, BalanceParts DEF Upcoming
  <2> QED
    BY <2>1 DEF FlowsInOrder, Found
<1>3. CASE SubmitPushes
  <2>1. queue' = [queue EXCEPT ![q] = Append(@, p)] /\ fate' = [fate EXCEPT ![p] = "submitted"]
    BY <1>p, <1>q, <1>3 DEF SubmitPushes
  <2>2. Load(q)' = Load(q) + 1
    BY <1>1, <2>1, LoadOnPush
  <2>3. \A u \in Worker \ {q} : Load(u)' = Load(u)
    BY <1>1, <2>1 DEF Load, TypeOK, WorkersOK
  <2>4. SumFunction(Loads') = SumFunction(Loads) + 1
    <3>1. SumFunction(Loads') = SumFunction(Loads) + Load(q)' - Load(q)
      BY <1>1, <2>3, LoadsChange
    <3> QED
      BY <1>1, <2>2, <3>1, LoadType, BalanceParts
  <2>5. Discarded' = Discarded
    BY <1>1, <1>2, <2>1 DEF Discarded, TypeOK, WorkersOK
  <2> QED
    BY <1>1, <2>4, <2>5, BalanceParts DEF Balanced, Balance
<1>4. CASE SubmitDiscards
  <2>1. queue' = queue /\ fate' = [fate EXCEPT ![p] = "discarded"]
    BY <1>p, <1>4 DEF SubmitDiscards
  <2>2. Loads' = Loads
    BY <1>1, <2>1 DEF Loads, Load
  <2>3. Cardinality(Discarded') = Cardinality(Discarded) + 1
    BY <1>1, <1>2, <2>1, OneMoreDiscarded
  <2> QED
    BY <1>1, <2>2, <2>3, BalanceParts DEF Balanced, Balance
<1> QED
  BY <1>3, <1>4

(* The packet that balancer l pushes is in its hand, and goes to another   *)
(* worker.                                                                 *)
LEMMA HandPushed ==
  ASSUME TypeOK, FlowsInOrder, NEW l \in LBs, at[l] = "push"
  PROVE  /\ hand[l] \in Packet /\ hand[l] # NoPacket /\ fate[hand[l]] = "submitted"
         /\ Dest(l, hand[l]) \in FPs /\ Dest(l, hand[l]) \in FPsOf(l)
         /\ Dest(l, hand[l]) \in Worker /\ Dest(l, hand[l]) # l /\ l \in Worker
<1>1. l \in Worker /\ hand[l] \in Packet
  BY Sizes DEF TypeOK, WorkersOK
<1>2. fate[hand[l]] = "submitted"
  BY <1>1, OnlyInHand DEF FlowsInOrder, Lanes
<1>3. Dest(l, hand[l]) \in FPs /\ Dest(l, hand[l]) \in FPsOf(l) /\ hand[l] # NoPacket
  BY <1>1, Destinations, OwnFastPath
<1> QED
  BY <1>1, <1>2, <1>3, Sizes

(* A balancer's push moves a packet from it to one of its fast paths.      *)
LEMMA DispatchLoads ==
  ASSUME TypeOK, FlowsInOrder, NEW l \in LBs, DispatchPushes(l)
  PROVE  \E q \in FPsOf(l) :
           /\ q \in FPs /\ q # l /\ Load(l)' = Load(l) - 1 /\ Load(q)' = Load(q) + 1
           /\ \A u \in Worker \ {l, q} : Load(u)' = Load(u)
<1>p. PICK p \in Packet : p = hand[l]
  BY HandPushed DEF DispatchPushes
<1>q. PICK q \in FPsOf(l) : q = Dest(l, p) /\ q \in FPs /\ q \in Worker /\ q # l /\ l \in Worker
  BY <1>p, HandPushed DEF DispatchPushes
<1>1. /\ hand' = [hand EXCEPT ![l] = NoPacket] /\ hand[l] # NoPacket
      /\ queue' = [queue EXCEPT ![q] = Append(@, p)]
  BY <1>p, <1>q, HandPushed DEF DispatchPushes
<1>3. /\ hand'[l] = NoPacket /\ queue'[l] = queue[l] /\ hand'[q] = hand[q]
      /\ \A u \in Worker \ {l, q} : hand'[u] = hand[u] /\ queue'[u] = queue[u]
  BY <1>1, <1>q DEF TypeOK, WorkersOK
<1>4. Load(l)' = Load(l) - 1
  BY <1>1, <1>q, <1>3, LoadOnRelease
<1>5. Load(q)' = Load(q) + 1
  BY <1>1, <1>q, <1>3, LoadOnPush
<1>6. \A u \in Worker \ {l, q} : Load(u)' = Load(u)
  BY <1>3 DEF Load
<1> QED
  BY <1>q, <1>4, <1>5, <1>6

LEMMA AccountsOnDispatch ==
  ASSUME TypeOK, TypeOK', FlowsInOrder, Balanced, NEW l \in LBs,
         DispatchPushes(l) \/ DispatchDiscards(l)
  PROVE  Balanced'
<1>1. /\ at[l] = "push" /\ hand' = [hand EXCEPT ![l] = NoPacket]
      /\ UNCHANGED <<packets_submitted_, packets_processed_>>
  BY DEF DispatchPushes, DispatchDiscards, owner, counters
<1>2. /\ hand[l] \in Packet /\ hand[l] # NoPacket /\ fate[hand[l]] = "submitted"
      /\ Dest(l, hand[l]) \in Worker /\ Dest(l, hand[l]) # l /\ l \in Worker
  BY <1>1, HandPushed
<1>3. CASE DispatchPushes(l)
  <2>1. SumFunction(Loads') = SumFunction(Loads)
    BY <1>2, <1>3, DispatchLoads, LoadsMove, Sizes
  <2>2. Discarded' = Discarded
    BY <1>3 DEF DispatchPushes, Discarded
  <2> QED
    BY <1>1, <2>1, <2>2 DEF Balanced, Balance
<1>4. CASE DispatchDiscards(l)
  <2>1. queue' = queue /\ fate' = [fate EXCEPT ![hand[l]] = "discarded"]
    BY <1>4 DEF DispatchDiscards
  <2>2. Load(l)' = Load(l) - 1
    <3>1. hand'[l] = NoPacket /\ queue'[l] = queue[l]
      BY <1>1, <1>2, <2>1 DEF TypeOK, WorkersOK
    <3> QED
      BY <1>2, <3>1, LoadOnRelease
  <2>3. \A u \in Worker \ {l} : Load(u)' = Load(u)
    BY <1>1, <2>1 DEF Load, TypeOK, WorkersOK
  <2>4. SumFunction(Loads') = SumFunction(Loads) - 1
    <3>1. SumFunction(Loads') = SumFunction(Loads) + Load(l)' - Load(l)
      BY <1>2, <2>3, LoadsChange
    <3> QED
      BY <1>2, <2>2, <3>1, LoadType, BalanceParts
  <2>5. Cardinality(Discarded') = Cardinality(Discarded) + 1
    BY <1>2, <2>1, OneMoreDiscarded
  <2> QED
    BY <1>1, <2>4, <2>5, BalanceParts DEF Balanced, Balance
<1> QED
  BY <1>3, <1>4

(* What a fast path has processed it no longer holds.                      *)
LEMMA ProcessLoads ==
  ASSUME TypeOK, FlowsInOrder, NEW f \in FPs, Process(f)
  PROVE  /\ Load(f)' = Load(f) - 1 /\ \A u \in Worker \ {f} : Load(u)' = Load(u)
         /\ packets_processed_'[f] = packets_processed_[f] + 1
         /\ \A e \in FPs \ {f} : packets_processed_'[e] = packets_processed_[e]
         /\ Discarded' = Discarded
<1>1. /\ f \in Worker /\ hand[f] \in Packet /\ hand[f] # NoPacket
      /\ hand' = [hand EXCEPT ![f] = NoPacket] /\ queue' = queue
      /\ fate' = [fate EXCEPT ![hand[f]] = "processed"]
      /\ packets_processed_' = [packets_processed_ EXCEPT ![f] = @ + 1]
  BY Sizes DEF Process, TypeOK, WorkersOK
<1>2. hand'[f] = NoPacket /\ \A u \in Worker \ {f} : hand'[u] = hand[u]
  BY <1>1 DEF TypeOK, WorkersOK
<1>3. Load(f)' = Load(f) - 1
  BY <1>1, <1>2, LoadOnRelease
<1>4. \A u \in Worker \ {f} : Load(u)' = Load(u)
  BY <1>1, <1>2 DEF Load
<1>5. fate[hand[f]] = "submitted"
  BY <1>1, OnlyInHand DEF FlowsInOrder, Lanes
<1>6. Discarded' = Discarded
  BY <1>1, <1>5 DEF Discarded, TypeOK, WorkersOK
<1> QED
  BY <1>1, <1>3, <1>4, <1>6 DEF TypeOK, WorkersOK

LEMMA AccountsOnProcess ==
  ASSUME TypeOK, TypeOK', FlowsInOrder, Balanced, NEW f \in FPs, Process(f)
  PROVE  Balanced'
<1>1. f \in Worker /\ packets_submitted_' = packets_submitted_
  BY Sizes DEF Process, owner
<1>2. SumFunction(Loads') = SumFunction(Loads) - 1
  <2>1. SumFunction(Loads') = SumFunction(Loads) + Load(f)' - Load(f)
    BY <1>1, ProcessLoads, LoadsChange
  <2> QED
    BY <1>1, <2>1, ProcessLoads, LoadType, BalanceParts
<1>3. SumFunction(packets_processed_') = SumFunction(packets_processed_) + 1
  <2> DEFINE a == packets_processed_
             b == packets_processed_'
  <2>1. /\ a \in [FPs -> Nat] /\ b \in [FPs -> Nat] /\ b[f] = a[f] + 1
        /\ \A e \in FPs \ {f} : b[e] = a[e]
    BY ProcessLoads DEF TypeOK, WorkersOK
  <2> HIDE DEF a, b
  <2>2. SumFunction(b) + a[f] = SumFunction(a) + b[f]
    BY <2>1, FiniteParts, SumOfChange
  <2>3. SumFunction(b) \in Nat /\ SumFunction(a) \in Nat /\ a[f] \in Nat
    BY <2>1, FiniteParts, SumIsNat
  <2>4. SumFunction(b) = SumFunction(a) + 1
    BY <2>1, <2>2, <2>3
  <2> QED
    BY <2>4 DEF a, b
<1> QED
  BY <1>1, <1>2, <1>3, ProcessLoads, BalanceParts DEF Balanced, Balance

LEMMA BalanceStep == TypeOK /\ TypeOK' /\ FlowsInOrder /\ Balanced /\ [Next]_vars => Balanced'
<1> SUFFICES ASSUME TypeOK, TypeOK', FlowsInOrder, Balanced, [Next]_vars PROVE Balanced'
  OBVIOUS
<1>1. ASSUME NEW w \in Worker, (Receive(w) /\ w \in LBs) \/ (Take(w) /\ w \in FPs)
      PROVE  Balanced'
  <2>1. /\ at[w] = "pop" /\ queue[w] # <<>>
        /\ hand' = [hand EXCEPT ![w] = Head(queue[w])]
        /\ queue' = [queue EXCEPT ![w] = Tail(@)]
        /\ UNCHANGED <<packets_submitted_, packets_processed_, fate>>
    BY <1>1 DEF Receive, Take, owner, counters
  <2>2. Loads' = Loads /\ Discarded' = Discarded
    BY <2>1, LoadOnPop DEF Loads, Discarded
  <2> QED
    BY <2>1, <2>2 DEF Balanced, Balance
<1>2. CASE UNCHANGED <<hand, queue, packets_submitted_, packets_processed_, fate>>
  BY <1>2 DEF Balanced, Balance, Loads, Load, Discarded
<1>3. CASE SubmitPushes \/ SubmitDiscards
  BY <1>3, AccountsOnSubmit
<1>4. ASSUME NEW l \in LBs, DispatchPushes(l) \/ DispatchDiscards(l) PROVE Balanced'
  BY <1>4, AccountsOnDispatch
<1>5. ASSUME NEW f \in FPs, Process(f) PROVE Balanced'
  BY <1>5, AccountsOnProcess
<1>6. ASSUME NEW l \in LBs, Receive(l) \/ DispatchPushes(l) \/ DispatchDiscards(l)
      PROVE  Balanced'
  <2>1. l \in Worker
    BY Sizes
  <2>2. CASE Receive(l)
    BY <1>1, <2>1, <2>2
  <2> QED
    BY <1>4, <1>6, <2>2
<1>7. ASSUME NEW f \in FPs, Take(f) \/ Process(f) PROVE Balanced'
  <2>1. f \in Worker
    BY Sizes
  <2>2. CASE Take(f)
    BY <1>1, <2>1, <2>2
  <2> QED
    BY <1>5, <1>7, <2>2
<1> QED
  BY <1>2, <1>3, <1>6, <1>7, MovesOrStill

LEMMA BalanceInit == Init => Balanced
<1> SUFFICES ASSUME Init PROVE Balanced
  OBVIOUS
<1>1. /\ packets_processed_ \in [FPs -> Nat] /\ \A f \in FPs : packets_processed_[f] = 0
      /\ Loads \in [Worker -> Nat] /\ \A w \in Worker : Loads[w] = 0
      /\ Discarded = {} /\ packets_submitted_ = 0
  BY DEF Init, Loads, Load, Discarded
<1>2. SumFunction(packets_processed_) = 0 /\ SumFunction(Loads) = 0
  BY <1>1, FiniteParts, SumOfZeros
<1> QED
  BY <1>1, <1>2, FS_EmptySet DEF Balanced, Balance

----------------------------------------------------------------------------
(* The first start and stop.                                               *)

(* Until the second start a queue is shut down once stop has come to its   *)
(* owner, and stays so; and threads run only after a start.                *)
ShutInOrder ==
  /\ running_ \/ main = "start" => starts > 0
  /\ starts <= 1 => \A w \in Worker : shut[w] =>
       \/ ~running_ /\ starts = 1 /\ main \notin {"start", "submit"}
       \/ main \in {"stop", "shut"} /\ w < cursor
       \/ main = "join" /\ w <= cursor

NoneDiscarded == starts <= 1 => Discarded = {}

LEMMA ShutStep == TypeOK /\ TypeOK' /\ ShutInOrder /\ [Next]_vars => ShutInOrder'
<1> SUFFICES ASSUME TypeOK, TypeOK', ShutInOrder, [Next]_vars PROVE ShutInOrder'
  OBVIOUS
<1> USE DEF ShutInOrder
<1>0. /\ starts \in Nat /\ running_ \in BOOLEAN /\ (Stopping => cursor \in Worker /\ running_)
      /\ Worker \subseteq Nat /\ shut \in [Worker -> BOOLEAN]
  <2>1. starts \in Nat
    BY PipelineAssumption DEF TypeOK, OwnerOK
  <2>2. running_ \in BOOLEAN /\ (Stopping => cursor \in Worker /\ running_)
    BY DEF TypeOK, OwnerOK
  <2>3. shut \in [Worker -> BOOLEAN]
    BY DEF TypeOK, WorkersOK
  <2> QED
    BY <2>1, <2>2, <2>3, Sizes
<1>1. CASE UNCHANGED <<main, cursor, running_, starts, shut>>
  BY <1>1
<1>2. CASE StartFastPaths
  <2>1. main = "idle" /\ ~running_ /\ starts' = starts + 1 /\ shut' = shut
        /\ running_' = running_ /\ main' = "start"
    BY <1>2 DEF StartFastPaths, StartWorkers
  <2> QED
    BY <1>0, <2>1
<1>3. CASE StartLoadBalancers
  <2>1. main = "start" /\ starts' = starts /\ shut' = shut /\ main' = "idle"
    BY <1>3 DEF StartLoadBalancers, StartWorkers
  <2> QED
    BY <1>0, <2>1
<1>4. CASE Submit \/ SubmitPushes \/ SubmitDiscards
  <2>1. /\ main \in {"idle", "submit"} /\ main' \in {"idle", "submit"} /\ running_
        /\ UNCHANGED <<starts, shut, running_>>
    BY <1>4 DEF Submit, SubmitPushes, SubmitDiscards, Submitted, TypeOK, OwnerOK
  <2> QED
    BY <1>0, <2>1
<1>5. CASE Stop \/ StopWorker \/ ShutWorkerQueue
  <2>1. /\ starts' = starts /\ running_' = running_ /\ running_
        /\ \/ main = "idle" /\ main' = "stop" /\ shut' = shut
           \/ main = "stop" /\ main' = "shut" /\ shut' = shut /\ cursor' = cursor
           \/ /\ main = "shut" /\ main' = "join" /\ cursor' = cursor
              /\ shut' = [shut EXCEPT ![cursor] = TRUE]
    BY <1>5, <1>0 DEF Stop, StopWorker, ShutWorkerQueue, Stopping
  <2>2. cursor \in Nat
    <3>1. CASE main = "idle"
      BY <3>1 DEF TypeOK, OwnerOK
    <3>2. CASE Stopping
      <4>1. cursor \in Worker
        BY <1>0, <3>2
      <4> QED
        BY <4>1, Sizes
    <3> QED
      BY <2>1, <3>1, <3>2 DEF Stopping
  <2> QED
    BY <1>0, <2>1, <2>2 DEF Stopping
<1>6. CASE JoinWorker
  <2>1. /\ main = "join" /\ starts' = starts /\ shut' = shut /\ cursor \in Worker /\ running_
        /\ \/ cursor' = cursor + 1 /\ main' = "stop" /\ running_' = running_
           \/ main' = "idle" /\ running_' = FALSE
    BY <1>6, <1>0 DEF JoinWorker, Stopping
  <2>2. cursor \in Nat /\ starts > 0 /\ (starts <= 1 => starts = 1)
    BY <1>0, <2>1
  <2>3. starts <= 1 => \A w \in Worker : shut[w] => w <= cursor
    BY <2>1
  <2>4. CASE cursor' = cursor + 1 /\ main' = "stop"
    <3>1. \A w \in Worker : w <= cursor => w < cursor + 1
      BY <1>0, <2>2
    <3> QED
      BY <2>1, <2>2, <2>3, <2>4, <3>1
  <2>5. CASE main' = "idle" /\ running_' = FALSE
    BY <2>1, <2>2, <2>5
  <2> QED
    BY <2>1, <2>4, <2>5
<1>7. CASE GetStats \/ ReadReceived \/ ReadDispatched \/ ReadProcessed \/ Answer
  <2>1. /\ main \in {"idle", "received", "dispatched", "processed", "answer"}
        /\ main' \in {"idle", "received", "dispatched", "processed", "answer"}
        /\ UNCHANGED <<starts, shut, running_>>
    BY <1>7 DEF GetStats, ReadReceived, ReadDispatched, ReadProcessed, Answer
  <2> QED
    BY <2>1
<1>8. ASSUME NEW l \in LBs, LoadBalancerStep(l) PROVE ShutInOrder'
  BY <1>1, <1>8 DEF LoadBalancerStep, CheckRunning, TryPopFails, Receive, DispatchPushes,
     DispatchDiscards, CountDispatched, owner
<1>9. ASSUME NEW f \in FPs, FastPathStep(f) PROVE ShutInOrder'
  BY <1>1, <1>9 DEF FastPathStep, CheckRunning, TryPopFails, Take, Process, owner
<1>10. CASE UNCHANGED vars
  BY <1>1, <1>10 DEF vars, owner
<1> QED
  BY <1>2, <1>3, <1>4, <1>5, <1>6, <1>7, <1>8, <1>9, <1>10 DEF Next, OwnerStep

(* No push finds its queue shut down before the second start: a queue is   *)
(* shut down only when nobody is left who pushes to it.                    *)
LEMMA NoDiscardYet ==
  ASSUME TypeOK, FlowsInOrder, ShutInOrder, starts <= 1
  PROVE  /\ ~SubmitDiscards
         /\ \A l \in LBs : ~DispatchDiscards(l)
<1>1. ASSUME SubmitDiscards PROVE FALSE
  <2>1. main = "submit" /\ running_ /\ Upcoming \in Packet /\ shut[Dest(0, Upcoming)]
    BY <1>1 DEF SubmitDiscards, TypeOK, OwnerOK
  <2>2. Dest(0, Upcoming) \in Worker
    BY <2>1, Destinations, Sizes
  <2> QED
    BY <2>1, <2>2 DEF ShutInOrder
<1>2. ASSUME NEW l \in LBs, DispatchDiscards(l) PROVE FALSE
  <2>1. at[l] = "push" /\ shut[Dest(l, hand[l])] /\ l \in Worker
    BY <1>2, Sizes DEF DispatchDiscards
  <2>2. PICK q \in FPs : q = Dest(l, hand[l])
    BY <2>1, HandPushed
  <2>3. l \in Alive /\ q \in Worker /\ shut[q]
    BY <2>1, <2>2, Sizes DEF TypeOK, WorkersOK
  <2>4. l \notin FPs /\ l < q /\ l \in Nat /\ q \in Nat
    BY Sizes DEF LBs, FPs
  <2>5. CASE Stopping
    <3>1. cursor <= l /\ cursor \in Nat /\ running_
      BY <2>3, <2>5, Sizes DEF Alive, TypeOK, OwnerOK, Stopping
    <3> QED
      BY <2>3, <2>4, <2>5, <3>1 DEF ShutInOrder
  <2>6. CASE ~Stopping
    <3>1. running_
      BY <2>3, <2>6, <2>4 DEF Alive
    <3> QED
      BY <2>3, <2>6, <3>1 DEF ShutInOrder, Stopping
  <2> QED
    BY <2>5, <2>6
<1> QED
  BY <1>1, <1>2

LEMMA StartsGrow == ASSUME TypeOK, [Next]_vars, starts' <= 1 PROVE starts <= 1
<1>1. starts \in Nat
  BY PipelineAssumption DEF TypeOK, OwnerOK
<1>2. starts' = starts \/ starts' = starts + 1
  BY DEF Next, OwnerStep, LoadBalancerStep, FastPathStep, CheckRunning, TryPopFails,
     Receive, DispatchPushes, DispatchDiscards, CountDispatched, Take, Process,
     SubmitPushes, SubmitDiscards, Submitted, Submit, Stop, StopWorker, ShutWorkerQueue,
     JoinWorker, GetStats, ReadReceived, ReadDispatched, ReadProcessed, Answer,
     StartFastPaths, StartLoadBalancers, StartWorkers, vars, owner
<1> QED
  BY <1>1, <1>2

LEMMA NoneDiscardedStep ==
  TypeOK /\ FlowsInOrder /\ ShutInOrder /\ NoneDiscarded /\ [Next]_vars => NoneDiscarded'
<1> SUFFICES ASSUME TypeOK, FlowsInOrder, ShutInOrder, NoneDiscarded, [Next]_vars, starts' <= 1
             PROVE  Discarded' = {}
  BY DEF NoneDiscarded
<1>1. starts <= 1 /\ Discarded = {}
  BY StartsGrow DEF NoneDiscarded
<1>2. ~SubmitDiscards /\ \A l \in LBs : ~DispatchDiscards(l)
  BY <1>1, NoDiscardYet
<1>3. fate' = fate \/ \E p, v : v # "discarded" /\ fate' = [fate EXCEPT ![p] = v]
  <2>1. CASE SubmitPushes
    BY <2>1 DEF SubmitPushes
  <2>2. ASSUME NEW l \in LBs, Receive(l) \/ DispatchPushes(l) PROVE fate' = fate
    BY <2>2 DEF Receive, DispatchPushes
  <2>3. ASSUME NEW f \in FPs, Take(f) PROVE fate' = fate
    BY <2>3 DEF Take
  <2>4. ASSUME NEW f \in FPs, Process(f)
        PROVE  \E p, v : v # "discarded" /\ fate' = [fate EXCEPT ![p] = v]
    BY <2>4 DEF Process
  <2> QED
    BY <1>2, <2>1, <2>2, <2>3, <2>4, MovesOrStill
<1> QED
  BY <1>1, <1>3 DEF Discarded, TypeOK, WorkersOK

(* What balancer l has pushed, whether it has counted it yet or not.       *)
Pushed(l) == packets_dispatched_[l] + IF at[l] = "count" THEN 1 ELSE 0

(* What fast path f has been given.                                        *)
Given(f) == packets_processed_[f] + Load(f)

GivenByOwn ==
  starts <= 1 => \A l \in LBs : Pushed(l) = SumFunction([f \in FPsOf(l) |-> Given(f)])

LEMMA GivenType ==
  ASSUME TypeOK, NEW f \in FPs
  PROVE  Given(f) \in Nat /\ (TypeOK' => Given(f)' \in Nat)
<1>1. packets_processed_[f] \in Nat /\ (TypeOK' => packets_processed_'[f] \in Nat)
  BY DEF TypeOK, WorkersOK
<1>2. Load(f) \in Nat /\ (TypeOK' => Load(f)' \in Nat)
  BY LoadType, Sizes
<1>3. Given(f)' = packets_processed_'[f] + Load(f)'
  BY DEF Given
<1> QED
  BY <1>1, <1>2, <1>3 DEF Given

(* A balancer that pushes gives one packet more to one of its fast paths,  *)
(* and the other balancers' fast paths get none.                           *)
LEMMA GivenOnDispatch ==
  ASSUME TypeOK, TypeOK', FlowsInOrder, GivenByOwn, starts <= 1,
         NEW b \in LBs, DispatchPushes(b), NEW l \in LBs
  PROVE  Pushed(l)' = SumFunction([f \in FPsOf(l) |-> Given(f)'])
<1>1. PICK q \in FPsOf(b) :
        /\ q \in FPs /\ Load(q)' = Load(q) + 1
        /\ \A u \in Worker \ {b, q} : Load(u)' = Load(u)
  BY DispatchLoads
<1>2. /\ packets_dispatched_' = packets_dispatched_ /\ packets_processed_' = packets_processed_
      /\ at[b] = "push" /\ at' = [at EXCEPT ![b] = "count"]
  BY DEF DispatchPushes, counters
<1>3. ASSUME NEW f \in FPs
      PROVE  Given(f)' = IF f = q THEN Given(f) + 1 ELSE Given(f)
  <2>1. f \in Worker /\ f # b
    BY Sizes
  <2>2. Given(f)' = packets_processed_[f] + Load(f)'
    BY <1>2 DEF Given
  <2>3. packets_processed_[f] \in Nat /\ Load(f) \in Nat
    BY <2>1, LoadType DEF TypeOK, WorkersOK
  <2> QED
    BY <1>1, <2>1, <2>2, <2>3 DEF Given
<1> DEFINE g == [f \in FPsOf(l) |-> Given(f)]
           h == [f \in FPsOf(l) |-> Given(f)']
<1>4. g \in [FPsOf(l) -> Nat] /\ h \in [FPsOf(l) -> Nat]
  BY FiniteParts, GivenType
<1>5. Pushed(l) = SumFunction(g)
  BY DEF GivenByOwn
<1>6. CASE l = b
  <2>1. q \in FPsOf(l) /\ h[q] = g[q] + 1 /\ \A f \in FPsOf(l) \ {q} : h[f] = g[f]
    BY <1>1, <1>3, <1>6, FiniteParts
  <2>2. Pushed(l)' = Pushed(l) + 1
    <3>1. at[l] = "push" /\ at'[l] = "count" /\ packets_dispatched_[l] \in Nat
      BY <1>2, <1>6, Sizes DEF TypeOK, WorkersOK
    <3>2. Pushed(l) = packets_dispatched_[l] + 0 /\ Pushed(l)' = packets_dispatched_'[l] + 1
      BY <3>1 DEF Pushed
    <3> QED
      BY <1>2, <3>1, <3>2
  <2> HIDE DEF g, h
  <2>3. SumFunction(h) + g[q] = SumFunction(g) + h[q]
    BY <1>4, <2>1, FiniteParts, SumOfChange
  <2>4. SumFunction(h) \in Nat /\ SumFunction(g) \in Nat /\ g[q] \in Nat
    BY <1>4, <2>1, FiniteParts, SumIsNat
  <2>5. SumFunction(h) = Pushed(l)'
    BY <1>5, <2>1, <2>2, <2>3, <2>4
  <2> QED
    BY <2>5 DEF h
<1>7. CASE l # b
  <2>1. q \notin FPsOf(l)
    BY <1>1, <1>7, OwnFastPathsOnly
  <2>2. h = g
    BY <1>3, <2>1, FiniteParts
  <2>3. Pushed(l)' = Pushed(l)
    BY <1>2, <1>7, Sizes DEF Pushed, TypeOK, WorkersOK
  <2> QED
    BY <1>5, <2>2, <2>3
<1> QED
  BY <1>6, <1>7

(* The other steps change neither what a balancer has pushed nor what its  *)
(* fast paths have been given.                                             *)
LEMMA GivenStill ==
  ASSUME TypeOK, GivenByOwn, starts <= 1, NEW l \in LBs,
         Pushed(l)' = Pushed(l), \A f \in FPs : Given(f)' = Given(f)
  PROVE  Pushed(l)' = SumFunction([f \in FPsOf(l) |-> Given(f)'])
<1>1. [f \in FPsOf(l) |-> Given(f)'] = [f \in FPsOf(l) |-> Given(f)]
  BY FiniteParts
<1> QED
  BY <1>1 DEF GivenByOwn

LEMMA BalancerStill ==
  ASSUME TypeOK, [Next]_vars, NEW l \in LBs
  PROVE  \/ Receive(l) \/ DispatchPushes(l) \/ DispatchDiscards(l) \/ CountDispatched(l)
         \/ /\ packets_received_'[l] = packets_received_[l]
            /\ packets_dispatched_'[l] = packets_dispatched_[l]
            /\ \/ at'[l] = at[l]
               \/ at[l] \notin {"push", "count"} /\ at'[l] \notin {"push", "count"}
<1> DEFINE Same == /\ packets_received_'[l] = packets_received_[l]
                   /\ packets_dispatched_'[l] = packets_dispatched_[l]
                   /\ \/ at'[l] = at[l]
                      \/ at[l] \notin {"push", "count"} /\ at'[l] \notin {"push", "count"}
<1>1. l \in Worker /\ DOMAIN at = Worker /\ at = [w \in Worker |-> at[w]]
  BY Sizes DEF TypeOK, WorkersOK
<1>2. ASSUME NEW w \in Worker, CheckRunning(w) \/ TryPopFails(w) PROVE Same
  BY <1>1, <1>2 DEF CheckRunning, TryPopFails, counters
<1>3. ASSUME NEW b \in LBs, b # l,
             Receive(b) \/ DispatchPushes(b) \/ DispatchDiscards(b) \/ CountDispatched(b)
      PROVE  Same
  BY <1>1, <1>3 DEF Receive, DispatchPushes, DispatchDiscards, CountDispatched, counters,
     TypeOK, WorkersOK
<1>4. ASSUME NEW f \in FPs, Take(f) \/ Process(f) PROVE Same
  <2>1. f # l
    BY Sizes
  <2> QED
    BY <1>1, <1>4, <2>1 DEF Take, Process, counters
<1>5. ASSUME StartFastPaths \/ StartLoadBalancers PROVE Same
  <2>1. at[l] = "off"
    <3>1. l \notin Alive
      BY <1>5, Sizes DEF StartFastPaths, StartLoadBalancers, Alive, Stopping
    <3> QED
      BY <1>1, <3>1 DEF TypeOK, WorkersOK
  <2>2. at'[l] \in {at[l], "check"} /\ UNCHANGED counters
    BY <1>1, <1>5 DEF StartFastPaths, StartLoadBalancers, StartWorkers
  <2> QED
    BY <2>1, <2>2 DEF counters
<1>6. ASSUME \/ Submit \/ SubmitPushes \/ SubmitDiscards
             \/ Stop \/ StopWorker \/ ShutWorkerQueue \/ JoinWorker
             \/ GetStats \/ ReadReceived \/ ReadDispatched \/ ReadProcessed \/ Answer
             \/ UNCHANGED vars
      PROVE  Same
  <2>1. at' = at /\ UNCHANGED counters
    BY <1>6 DEF Submit, SubmitPushes, SubmitDiscards, Submitted, Stop, StopWorker,
       ShutWorkerQueue, JoinWorker, GetStats, ReadReceived, ReadDispatched,
       ReadProcessed, Answer, vars
  <2> QED
    BY <2>1 DEF counters
<1>7. ASSUME NEW b \in LBs, b # l, LoadBalancerStep(b) PROVE Same
  <2>1. b \in Worker
    BY Sizes
  <2> QED
    BY <2>1, <1>2, <1>3, <1>7 DEF LoadBalancerStep
<1>8. ASSUME LoadBalancerStep(l), ~Receive(l), ~DispatchPushes(l), ~DispatchDiscards(l),
             ~CountDispatched(l)
      PROVE  Same
  BY <1>1, <1>2, <1>8 DEF LoadBalancerStep
<1>9. ASSUME NEW f \in FPs, FastPathStep(f) PROVE Same
  <2>1. f \in Worker
    BY Sizes
  <2> QED
    BY <2>1, <1>2, <1>4, <1>9 DEF FastPathStep
<1> HIDE DEF Same
<1>10. \/ \E b \in LBs : LoadBalancerStep(b)
       \/ Same
  BY <1>5, <1>6, <1>9 DEF Next, OwnerStep
<1>11. \/ Receive(l) \/ DispatchPushes(l) \/ DispatchDiscards(l) \/ CountDispatched(l)
       \/ Same
  BY <1>7, <1>8, <1>10
<1> QED
  BY <1>11 DEF Same

LEMMA PushedStill ==
  ASSUME TypeOK, [Next]_vars, \A l \in LBs : ~DispatchPushes(l) /\ ~DispatchDiscards(l)
  PROVE  \A l \in LBs : Pushed(l)' = Pushed(l)
<1> SUFFICES ASSUME NEW l \in LBs PROVE Pushed(l)' = Pushed(l)
  OBVIOUS
<1>1. l \in Worker /\ packets_dispatched_[l] \in Nat
  BY Sizes DEF TypeOK, WorkersOK
<1>2. CASE packets_dispatched_'[l] = packets_dispatched_[l] /\ (at[l] = "count" <=> at'[l] = "count")
  BY <1>2 DEF Pushed
<1>3. CASE CountDispatched(l)
  <2>1. at[l] = "count" /\ at'[l] # "count" /\ packets_dispatched_'[l] = packets_dispatched_[l] + 1
    BY <1>1, <1>3 DEF CountDispatched, TypeOK, WorkersOK
  <2>2. Pushed(l) = packets_dispatched_[l] + 1 /\ Pushed(l)' = packets_dispatched_'[l] + 0
    BY <2>1 DEF Pushed
  <2> QED
    BY <1>1, <2>1, <2>2
<1>4. CASE Receive(l)
  <2>1. packets_dispatched_' = packets_dispatched_ /\ at[l] = "pop" /\ at'[l] = "push"
    BY <1>1, <1>4 DEF Receive, TypeOK, WorkersOK
  <2> QED
    BY <1>2, <2>1
<1> QED
  BY <1>2, <1>3, <1>4, BalancerStill

LEMMA GivenStep ==
  TypeOK /\ TypeOK' /\ FlowsInOrder /\ ShutInOrder /\ GivenByOwn /\ [Next]_vars => GivenByOwn'
<1> SUFFICES ASSUME TypeOK, TypeOK', FlowsInOrder, ShutInOrder, GivenByOwn, [Next]_vars,
                    starts' <= 1, NEW l \in LBs
             PROVE  Pushed(l)' = SumFunction([f \in FPsOf(l) |-> Given(f)'])
  BY DEF GivenByOwn
<1>1. starts <= 1
  BY StartsGrow
<1>2. CASE \E b \in LBs : DispatchPushes(b)
  BY <1>1, <1>2, GivenOnDispatch
<1>3. CASE ~\E b \in LBs : DispatchPushes(b)
  <2>1. ~SubmitDiscards /\ \A b \in LBs : ~DispatchDiscards(b) /\ ~DispatchPushes(b)
    BY <1>1, <1>3, NoDiscardYet
  <2>2. Pushed(l)' = Pushed(l)
    BY <2>1, PushedStill
  <2>3. ASSUME NEW f \in FPs PROVE Given(f)' = Given(f)
    <3>1. f \in Worker /\ f \notin LBs
      BY Sizes
    <3>2. CASE packets_processed_' = packets_processed_ /\ Load(f)' = Load(f)
      BY <3>2 DEF Given
    <3>3. CASE SubmitPushes
      <4>1. /\ Upcoming \in Packet /\ hand' = hand /\ packets_processed_' = packets_processed_
            /\ queue' = [queue EXCEPT ![Dest(0, Upcoming)] = Append(@, Upcoming)]
        BY <3>3 DEF SubmitPushes, Submitted, counters, TypeOK, OwnerOK
      <4>2. Dest(0, Upcoming) # f
        BY <3>1, <4>1, Destinations
      <4>3. queue'[f] = queue[f]
        BY <3>1, <4>1, <4>2 DEF TypeOK, WorkersOK
      <4> QED
        BY <3>2, <4>1, <4>3 DEF Load
    <3>4. ASSUME NEW w \in Worker, (Receive(w) /\ w \in LBs) \/ (Take(w) /\ w \in FPs)
          PROVE  Given(f)' = Given(f)
      <4>1. /\ at[w] = "pop" /\ queue[w] # <<>>
            /\ hand' = [hand EXCEPT ![w] = Head(queue[w])]
            /\ queue' = [queue EXCEPT ![w] = Tail(@)]
            /\ packets_processed_' = packets_processed_
        BY <3>4 DEF Receive, Take, counters
      <4>2. Load(f)' = Load(f)
        BY <3>1, <4>1, LoadOnPop
      <4> QED
        BY <3>2, <4>1, <4>2
    <3>5. ASSUME NEW e \in FPs, Process(e) PROVE Given(f)' = Given(f)
      <4>1. CASE e # f
        <5>1. packets_processed_'[f] = packets_processed_[f] /\ Load(f)' = Load(f)
          BY <3>1, <3>5, <4>1, ProcessLoads
        <5> QED
          BY <5>1 DEF Given
      <4>2. CASE e = f
        <5>1. packets_processed_'[f] = packets_processed_[f] + 1 /\ Load(f)' = Load(f) - 1
          BY <3>5, <4>2, ProcessLoads
        <5>2. packets_processed_[f] \in Nat /\ Load(f) \in Nat
          BY <3>1, LoadType DEF TypeOK, WorkersOK
        <5>3. Given(f)' = packets_processed_'[f] + Load(f)'
          BY DEF Given
        <5> QED
          BY <5>1, <5>2, <5>3 DEF Given
      <4> QED
        BY <4>1, <4>2
    <3>6. CASE UNCHANGED <<hand, queue, packets_submitted_, packets_processed_, fate>>
      BY <3>6 DEF Given, Load
    <3>7. ASSUME NEW b \in LBs, Receive(b) PROVE Given(f)' = Given(f)
      <4>1. b \in Worker
        BY Sizes
      <4> QED
        BY <3>4, <3>7, <4>1
    <3>8. ASSUME NEW e \in FPs, Take(e) PROVE Given(f)' = Given(f)
      <4>1. e \in Worker
        BY Sizes
      <4> QED
        BY <3>4, <3>8, <4>1
    <3> QED
      BY <2>1, <3>3, <3>5, <3>6, <3>7, <3>8, MovesOrStill
  <2> QED
    BY <1>1, <2>2, <2>3, GivenStill
<1> QED
  BY <1>2, <1>3

(* No packet is lost from the accounts: what was submitted has been        *)
(* processed, is in the pipeline or was thrown away; until the second      *)
(* start none is thrown away, and each balancer's own fast paths have been *)
(* given exactly what it has pushed.                                       *)
THEOREM AccountsBalance == Spec => []Accounting
<1> DEFINE Inv == Balanced /\ ShutInOrder /\ NoneDiscarded /\ GivenByOwn
<1>1. Init => ShutInOrder /\ NoneDiscarded /\ GivenByOwn
  <2> SUFFICES ASSUME Init PROVE ShutInOrder /\ NoneDiscarded /\ GivenByOwn
    OBVIOUS
  <2>1. ShutInOrder /\ NoneDiscarded
    BY DEF Init, ShutInOrder, NoneDiscarded, Discarded
  <2>2. ASSUME NEW l \in LBs PROVE Pushed(l) = SumFunction([f \in FPsOf(l) |-> Given(f)])
    <3> DEFINE g == [f \in FPsOf(l) |-> Given(f)]
    <3>1. \A f \in FPs : Given(f) = 0
      <4>1. ASSUME NEW f \in FPs PROVE Load(f) = 0 /\ packets_processed_[f] = 0
        <5>1. f \in Worker
          BY Sizes
        <5> QED
          BY <5>1 DEF Init, Load
      <4> QED
        BY <4>1 DEF Given
    <3>2. g \in [FPsOf(l) -> Nat] /\ \A f \in FPsOf(l) : g[f] = 0
      BY <3>1, FiniteParts
    <3>3. Pushed(l) = 0
      BY Sizes DEF Init, Pushed
    <3> HIDE DEF g
    <3>4. SumFunction(g) = 0
      BY <3>2, FiniteParts, SumOfZeros
    <3> QED
      BY <3>3, <3>4 DEF g
  <2> QED
    BY <2>1, <2>2 DEF GivenByOwn
<1>2. Init => Inv
  BY <1>1, BalanceInit
<1>3. TypeOK /\ TypeOK' /\ FlowsInOrder /\ Inv /\ [Next]_vars => Inv'
  BY BalanceStep, ShutStep, NoneDiscardedStep, GivenStep
<1>4. Inv => Accounting
  BY DEF Balanced, Balance, Loads, NoneDiscarded, GivenByOwn, Pushed, Given, Accounting
<1> QED
  BY <1>2, <1>3, <1>4, TypeCorrect, OrderInit, OrderStep, PTL DEF Spec

----------------------------------------------------------------------------
(* The answers of getStats.                                                *)

(* What balancer l has received, and what is in its queue.                 *)
Came == [l \in LBs |-> packets_received_[l] + Len(queue[l])]

(* A balancer counts what it has received once it has pushed it, before it *)
(* receives again; and it receives what was submitted.                     *)
CountedInTurn ==
  /\ \A l \in LBs :
       /\ at[l] \in {"push", "count"} => packets_received_[l] = packets_dispatched_[l] + 1
       /\ at[l] \notin {"push", "count"} => packets_received_[l] = packets_dispatched_[l]
  /\ SumFunction(Came) <= packets_submitted_

LEMMA SubmittedGrows ==
  ASSUME [Next]_vars
  PROVE  packets_submitted_' \in {packets_submitted_, packets_submitted_ + 1}
<1>1. ASSUME NEW l \in LBs, Receive(l) \/ DispatchPushes(l) \/ DispatchDiscards(l)
      PROVE  packets_submitted_' = packets_submitted_
  BY <1>1 DEF Receive, DispatchPushes, DispatchDiscards, owner
<1>2. ASSUME NEW f \in FPs, Take(f) \/ Process(f)
      PROVE  packets_submitted_' = packets_submitted_
  BY <1>2 DEF Take, Process, owner
<1>3. CASE SubmitPushes \/ SubmitDiscards
  BY <1>3 DEF SubmitPushes, SubmitDiscards, Submitted
<1> QED
  BY <1>1, <1>2, <1>3, MovesOrStill

LEMMA CountedType ==
  ASSUME TypeOK
  PROVE  /\ packets_received_ \in [LBs -> Nat] /\ packets_dispatched_ \in [LBs -> Nat]
         /\ packets_processed_ \in [FPs -> Nat]
         /\ packets_submitted_ \in Nat
         /\ \A l \in LBs : l \in Worker /\ Len(queue[l]) \in Nat
<1>1. ASSUME NEW l \in LBs PROVE l \in Worker /\ Len(queue[l]) \in Nat
  <2>1. l \in Worker
    BY Sizes
  <2>2. queue[l] \in Seq(Packet)
    BY <2>1 DEF TypeOK, WorkersOK
  <2> QED
    BY <2>1, <2>2
<1> QED
  BY <1>1, BalanceParts DEF TypeOK, WorkersOK

LEMMA CameOnSubmit ==
  ASSUME TypeOK, TypeOK', SubmitPushes
  PROVE  SumFunction(Came') = SumFunction(Came) + 1
<1>p. PICK p \in Packet : p = Upcoming
  BY DEF SubmitPushes, TypeOK, OwnerOK
<1>q. PICK q \in LBs : q = Dest(0, p)
  BY Destinations
<1>1. packets_received_' = packets_received_ /\ queue' = [queue EXCEPT ![q] = Append(@, p)]
  BY <1>p, <1>q DEF SubmitPushes, Submitted, counters
<1>2. queue[q] \in Seq(Packet) /\ q \in Worker
  BY Sizes DEF TypeOK, WorkersOK
<1>3. queue'[q] = Append(queue[q], p) /\ \A l \in LBs \ {q} : queue'[l] = queue[l]
  BY <1>1, <1>2, Sizes DEF TypeOK, WorkersOK
<1>4. Len(queue'[q]) = Len(queue[q]) + 1
  BY <1>2, <1>3
<1> DEFINE f == Came
           g == Came'
<1>5. /\ f \in [LBs -> Nat] /\ g \in [LBs -> Nat] /\ g[q] = f[q] + 1
      /\ \A l \in LBs \ {q} : g[l] = f[l]
  <2>1. g = [l \in LBs |-> packets_received_'[l] + Len(queue'[l])]
    BY DEF Came
  <2>2. \A l \in LBs : packets_received_[l] \in Nat /\ Len(queue[l]) \in Nat /\ Len(queue'[l]) \in Nat
    BY CountedType DEF TypeOK, WorkersOK
  <2> QED
    BY <1>1, <1>3, <1>4, <2>1, <2>2 DEF Came
<1> HIDE DEF f, g
<1>6. SumFunction(g) + f[q] = SumFunction(f) + g[q]
  BY <1>5, FiniteParts, SumOfChange
<1>7. SumFunction(g) \in Nat /\ SumFunction(f) \in Nat /\ f[q] \in Nat
  BY <1>5, FiniteParts, SumIsNat
<1>8. SumFunction(g) = SumFunction(f) + 1
  BY <1>5, <1>6, <1>7
<1> QED
  BY <1>8 DEF f, g

(* Only a submit brings a packet to the balancers.                         *)
LEMMA CameStill ==
  ASSUME TypeOK, FlowsInOrder, [Next]_vars, ~SubmitPushes
  PROVE  Came' = Came
<1>1. CASE packets_received_' = packets_received_ /\ \A l \in LBs : queue'[l] = queue[l]
  BY <1>1 DEF Came
<1>2. CASE SubmitDiscards
  BY <1>1, <1>2 DEF SubmitDiscards, Submitted, counters
<1>3. ASSUME NEW b \in LBs, Receive(b) PROVE Came' = Came
  <2>1. /\ queue[b] # <<>> /\ queue[b] \in Seq(Packet) /\ b \in Worker
        /\ packets_received_[b] \in Nat
    BY <1>3, Sizes DEF Receive, TypeOK, WorkersOK
  <2>2. /\ queue'[b] = Tail(queue[b]) /\ packets_received_'[b] = packets_received_[b] + 1
        /\ \A l \in LBs \ {b} : queue'[l] = queue[l] /\ packets_received_'[l] = packets_received_[l]
    BY <1>3, <2>1, Sizes DEF Receive, TypeOK, WorkersOK
  <2>3. Len(queue'[b]) = Len(queue[b]) - 1 /\ Len(queue[b]) \in Nat
    BY <2>1, <2>2
  <2>4. \A l \in LBs :
          packets_received_'[l] + Len(queue'[l]) = packets_received_[l] + Len(queue[l])
    <3>1. packets_received_'[b] + Len(queue'[b]) = packets_received_[b] + Len(queue[b])
      BY <2>1, <2>2, <2>3
    <3> QED
      BY <2>2, <3>1
  <2> QED
    BY <2>4 DEF Came
<1>4. ASSUME NEW b \in LBs, DispatchPushes(b) PROVE Came' = Came
  <2>1. PICK q \in FPs : q = Dest(b, hand[b])
    BY <1>4, HandPushed DEF DispatchPushes
  <2>2. queue' = [queue EXCEPT ![q] = Append(@, hand[b])] /\ packets_received_' = packets_received_
    BY <1>4, <2>1 DEF DispatchPushes, counters
  <2>3. \A l \in LBs : queue'[l] = queue[l]
    BY <2>2, Sizes DEF TypeOK, WorkersOK
  <2> QED
    BY <1>1, <2>2, <2>3
<1>5. ASSUME NEW b \in LBs, DispatchDiscards(b) PROVE Came' = Came
  BY <1>1, <1>5 DEF DispatchDiscards, counters
<1>6. ASSUME NEW f \in FPs, Take(f) \/ Process(f) PROVE Came' = Came
  <2>1. packets_received_' = packets_received_ /\ \A l \in LBs : queue'[l] = queue[l]
    BY <1>6, Sizes DEF Take, Process, counters, TypeOK, WorkersOK
  <2> QED
    BY <1>1, <2>1
<1>7. CASE UNCHANGED <<hand, queue, packets_submitted_, packets_received_,
                       packets_processed_, fate>>
  BY <1>1, <1>7
<1> QED
  BY <1>2, <1>3, <1>4, <1>5, <1>6, <1>7, MovesOrStill

LEMMA CountedStep ==
  TypeOK /\ TypeOK' /\ FlowsInOrder /\ CountedInTurn /\ [Next]_vars => CountedInTurn'
<1> SUFFICES ASSUME TypeOK, TypeOK', FlowsInOrder, CountedInTurn, [Next]_vars
             PROVE  CountedInTurn'
  OBVIOUS
<1>1. ASSUME NEW l \in LBs
      PROVE  /\ at'[l] \in {"push", "count"} => packets_received_'[l] = packets_dispatched_'[l] + 1
             /\ at'[l] \notin {"push", "count"} => packets_received_'[l] = packets_dispatched_'[l]
  <2>1. /\ packets_received_[l] \in Nat /\ packets_dispatched_[l] \in Nat /\ l \in Worker
        /\ at[l] \in {"push", "count"} => packets_received_[l] = packets_dispatched_[l] + 1
        /\ at[l] \notin {"push", "count"} => packets_received_[l] = packets_dispatched_[l]
    BY CountedType DEF CountedInTurn
  <2>2. CASE Receive(l)
    <3>1. /\ at[l] = "pop" /\ at'[l] = "push" /\ packets_dispatched_' = packets_dispatched_
          /\ packets_received_'[l] = packets_received_[l] + 1
      BY <2>1, <2>2 DEF Receive, TypeOK, WorkersOK
    <3> QED
      BY <2>1, <3>1
  <2>3. CASE CountDispatched(l)
    <3>1. /\ at[l] = "count" /\ at'[l] = "check" /\ packets_received_' = packets_received_
          /\ packets_dispatched_'[l] = packets_dispatched_[l] + 1
      BY <2>1, <2>3 DEF CountDispatched, TypeOK, WorkersOK
    <3> QED
      BY <2>1, <3>1
  <2>4. CASE DispatchPushes(l) \/ DispatchDiscards(l)
    <3>1. /\ at[l] = "push" /\ at'[l] = "count" /\ packets_received_' = packets_received_
          /\ packets_dispatched_' = packets_dispatched_
      BY <2>1, <2>4 DEF DispatchPushes, DispatchDiscards, counters, TypeOK, WorkersOK
    <3> QED
      BY <2>1, <3>1
  <2> QED
    BY <2>1, <2>2, <2>3, <2>4, BalancerStill
<1>2. SumFunction(Came') <= packets_submitted_'
  <2>1. SumFunction(Came) <= packets_submitted_ /\ packets_submitted_ \in Nat
        /\ SumFunction(Came) \in Nat
    <3>1. Came \in [LBs -> Nat]
      BY CountedType DEF Came
    <3> QED
      BY <3>1, CountedType, FiniteParts, SumIsNat DEF CountedInTurn
  <2>2. CASE SubmitPushes
    <3>1. packets_submitted_' = packets_submitted_ + 1
      BY <2>2 DEF SubmitPushes, Submitted
    <3> QED
      BY <2>1, <2>2, <3>1, CameOnSubmit
  <2>3. CASE ~SubmitPushes
    <3>1. packets_submitted_' \in {packets_submitted_, packets_submitted_ + 1}
      BY SubmittedGrows
    <3>2. Came' = Came
      BY <2>3, CameStill
    <3> QED
      BY <2>1, <3>1, <3>2
  <2> QED
    BY <2>2, <2>3
<1> QED
  BY <1>1, <1>2 DEF CountedInTurn

(* The sum of the values of f at the workers before n.                     *)
SumBefore(f, n) == SumFunction([x \in DOMAIN f |-> IF x < n THEN f[x] ELSE 0])

LEMMA SumBeforeIsNat ==
  ASSUME NEW S, IsFiniteSet(S), NEW f \in [S -> Nat], NEW n
  PROVE  SumBefore(f, n) \in Nat
<1> DEFINE g == [x \in DOMAIN f |-> IF x < n THEN f[x] ELSE 0]
<1>1. g \in [S -> Nat]
  OBVIOUS
<1> HIDE DEF g
<1>2. SumFunction(g) \in Nat
  BY <1>1, SumIsNat
<1> QED
  BY <1>2 DEF SumBefore, g

(* More workers, and greater values, make a greater sum.                   *)
LEMMA SumBeforeGrows ==
  ASSUME NEW S \in SUBSET Nat, IsFiniteSet(S), NEW f \in [S -> Nat], NEW g \in [S -> Nat],
         \A x \in S : f[x] <= g[x], NEW m \in Nat, NEW n \in Nat, m <= n
  PROVE  SumBefore(f, m) <= SumBefore(g, n)
<1> DEFINE a == [x \in DOMAIN f |-> IF x < m THEN f[x] ELSE 0]
           b == [x \in DOMAIN g |-> IF x < n THEN g[x] ELSE 0]
<1>1. a \in [S -> Nat] /\ b \in [S -> Nat]
  OBVIOUS
<1>2. ASSUME NEW x \in S PROVE a[x] <= b[x]
  <2>1. f[x] \in Nat /\ g[x] \in Nat /\ f[x] <= g[x] /\ x \in Nat
    OBVIOUS
  <2>2. CASE x < m
    BY <2>1, <2>2
  <2>3. CASE ~(x < m)
    BY <2>1, <2>3
  <2> QED
    BY <2>2, <2>3
<1> HIDE DEF a, b
<1>3. SumFunction(a) <= SumFunction(b)
  BY <1>1, <1>2, SumGrows
<1> QED
  BY <1>3 DEF SumBefore, a, b

LEMMA SumBeforeNext ==
  ASSUME NEW S \in SUBSET Nat, IsFiniteSet(S), NEW f \in [S -> Nat], NEW n \in S
  PROVE  SumBefore(f, n + 1) = SumBefore(f, n) + f[n]
<1> DEFINE a == [x \in DOMAIN f |-> IF x < n THEN f[x] ELSE 0]
           b == [x \in DOMAIN f |-> IF x < n + 1 THEN f[x] ELSE 0]
<1>1. a \in [S -> Nat] /\ b \in [S -> Nat] /\ n \in Nat /\ f[n] \in Nat
  OBVIOUS
<1>2. a[n] = 0 /\ b[n] = f[n]
  BY <1>1
<1>3. ASSUME NEW x \in S \ {n} PROVE b[x] = a[x]
  <2>1. x \in Nat /\ (x < n <=> x < n + 1)
    BY <1>1
  <2> QED
    BY <2>1
<1> HIDE DEF a, b
<1>4. SumFunction(b) + a[n] = SumFunction(a) + b[n]
  BY <1>1, <1>3, SumOfChange
<1>5. SumFunction(a) \in Nat /\ SumFunction(b) \in Nat
  BY <1>1, SumIsNat
<1>6. SumFunction(b) = SumFunction(a) + f[n]
  BY <1>1, <1>2, <1>4, <1>5
<1> QED
  BY <1>6 DEF SumBefore, a, b

LEMMA SumBeforeAll ==
  ASSUME NEW S, IsFiniteSet(S), NEW f \in [S -> Nat], NEW n
  PROVE  SumBefore(f, n) <= SumFunction(f)
<1> DEFINE g == [x \in DOMAIN f |-> IF x < n THEN f[x] ELSE 0]
<1>1. g \in [S -> Nat] /\ \A x \in S : g[x] <= f[x]
  OBVIOUS
<1> HIDE DEF g
<1>2. SumFunction(g) <= SumFunction(f)
  BY <1>1, SumGrows
<1> QED
  BY <1>2 DEF SumBefore, g

(* No step takes back what a worker has counted.                           *)
LEMMA CountersGrow ==
  ASSUME TypeOK, TypeOK', FlowsInOrder, [Next]_vars
  PROVE  /\ \A l \in LBs : packets_received_[l] <= packets_received_'[l]
         /\ \A l \in LBs : packets_dispatched_[l] <= packets_dispatched_'[l]
         /\ \A f \in FPs : packets_processed_[f] <= packets_processed_'[f]
<1>1. ASSUME NEW l \in LBs
      PROVE  /\ packets_received_[l] <= packets_received_'[l]
             /\ packets_dispatched_[l] <= packets_dispatched_'[l]
  <2>1. packets_received_[l] \in Nat /\ packets_dispatched_[l] \in Nat
    BY CountedType
  <2>2. /\ packets_received_'[l] \in {packets_received_[l], packets_received_[l] + 1}
        /\ packets_dispatched_'[l] \in {packets_dispatched_[l], packets_dispatched_[l] + 1}
    <3>1. CASE Receive(l)
      BY <3>1 DEF Receive, TypeOK, WorkersOK
    <3>2. CASE CountDispatched(l)
      BY <3>2 DEF CountDispatched, TypeOK, WorkersOK
    <3>3. CASE DispatchPushes(l) \/ DispatchDiscards(l)
      BY <3>3 DEF DispatchPushes, DispatchDiscards, counters
    <3> QED
      BY <3>1, <3>2, <3>3, BalancerStill
  <2> QED
    BY <2>1, <2>2
<1>2. ASSUME NEW f \in FPs PROVE packets_processed_[f] <= packets_processed_'[f]
  <2>1. packets_processed_[f] \in Nat
    BY CountedType
  <2>2. CASE packets_processed_' = packets_processed_
    BY <2>1, <2>2
  <2>3. ASSUME NEW e \in FPs, Process(e) PROVE packets_processed_[f] <= packets_processed_'[f]
    <3>1. packets_processed_'[f] \in {packets_processed_[f], packets_processed_[f] + 1}
      BY <2>3 DEF Process, TypeOK, WorkersOK
    <3> QED
      BY <2>1, <3>1
  <2>4. ASSUME NEW l \in LBs, Receive(l) \/ DispatchPushes(l) \/ DispatchDiscards(l)
        PROVE  packets_processed_' = packets_processed_
    BY <2>4 DEF Receive, DispatchPushes, DispatchDiscards, counters
  <2>5. ASSUME NEW e \in FPs, Take(e) PROVE packets_processed_' = packets_processed_
    BY <2>5 DEF Take, counters
  <2>6. CASE SubmitPushes \/ SubmitDiscards
    BY <2>2, <2>6 DEF SubmitPushes, SubmitDiscards, Submitted, counters
  <2> QED
    BY <2>2, <2>3, <2>4, <2>5, <2>6, MovesOrStill
<1> QED
  BY <1>1, <1>2

(* The worker that getStats reads next, and up to where it has read what   *)
(* the balancers have received.                                            *)
Place         == IF main = "answer" THEN NumLBs + NumFPs + 1 ELSE cursor
ReceivedPlace == IF main = "dispatched" THEN cursor + 1 ELSE Place

(* The sums read so far are of counters that have only grown since; and of *)
(* what each balancer is said to have received, all but one packet is said *)
(* to have been dispatched, or will be when that counter is read.          *)
StatsSoFar ==
  main \in {"received", "dispatched", "processed", "answer"} =>
    /\ stats.submitted = packets_submitted_
    /\ stats.received <= SumBefore(packets_received_, ReceivedPlace)
    /\ stats.dispatched <= SumBefore(packets_dispatched_, Place)
    /\ stats.processed <= SumBefore(packets_processed_, Place)
    /\ main = "received" => stats.received <= stats.dispatched + (cursor - 1)
    /\ main = "dispatched" =>
         stats.received <= stats.dispatched + packets_dispatched_[cursor] + cursor
    /\ main \in {"processed", "answer"} => stats.received <= stats.dispatched + NumLBs

LEMMA StatsType ==
  ASSUME TypeOK
  PROVE  /\ stats.submitted \in Nat /\ stats.received \in Nat
         /\ stats.dispatched \in Nat /\ stats.processed \in Nat
         /\ cursor \in Nat /\ Place \in Nat /\ ReceivedPlace \in Nat /\ NumLBs \in Nat
         /\ LBs \in SUBSET Nat /\ FPs \in SUBSET Nat
<1>1. LBs \in SUBSET Nat /\ FPs \in SUBSET Nat /\ NumLBs \in Nat /\ NumFPs \in Nat
  BY Sizes
<1>2. cursor \in Nat
  <2>1. cursor \in Worker \/ cursor = 0
    BY Sizes DEF TypeOK, OwnerOK, Mains, Stopping
  <2>2. \A w \in Worker : w \in Nat
    BY Sizes
  <2> QED
    BY <2>1, <2>2
<1>3. stats \in [submitted : Nat, received : Nat, dispatched : Nat, processed : Nat]
  BY DEF TypeOK, OwnerOK
<1> QED
  BY <1>1, <1>2, <1>3 DEF Place, ReceivedPlace

(* While getStats does not move, what it has read so far stays below.      *)
LEMMA StatsWait ==
  ASSUME TypeOK, TypeOK', FlowsInOrder, StatsSoFar, [Next]_vars, UNCHANGED owner
  PROVE  StatsSoFar'
<1> SUFFICES ASSUME main \in {"received", "dispatched", "processed", "answer"}
             PROVE  StatsSoFar'
  BY DEF StatsSoFar, owner
<1>1. /\ main' = main /\ cursor' = cursor /\ stats' = stats
      /\ packets_submitted_' = packets_submitted_
      /\ Place' = Place /\ ReceivedPlace' = ReceivedPlace
  BY DEF owner, Place, ReceivedPlace
<1>2. /\ packets_received_' \in [LBs -> Nat] /\ packets_dispatched_' \in [LBs -> Nat]
      /\ packets_processed_' \in [FPs -> Nat]
  BY DEF TypeOK, WorkersOK
<1>3. /\ SumBefore(packets_received_, ReceivedPlace) <= SumBefore(packets_received_', ReceivedPlace)
      /\ SumBefore(packets_dispatched_, Place) <= SumBefore(packets_dispatched_', Place)
      /\ SumBefore(packets_processed_, Place) <= SumBefore(packets_processed_', Place)
  <2>1. Place \in Nat /\ ReceivedPlace \in Nat /\ Place <= Place
        /\ ReceivedPlace <= ReceivedPlace /\ LBs \in SUBSET Nat /\ FPs \in SUBSET Nat
    BY StatsType
  <2> QED
    BY <1>2, <2>1, CountedType, CountersGrow, FiniteParts, SumBeforeGrows
<1>4. /\ SumBefore(packets_received_, ReceivedPlace) \in Nat
      /\ SumBefore(packets_received_', ReceivedPlace) \in Nat
      /\ SumBefore(packets_dispatched_, Place) \in Nat
      /\ SumBefore(packets_dispatched_', Place) \in Nat
      /\ SumBefore(packets_processed_, Place) \in Nat
      /\ SumBefore(packets_processed_', Place) \in Nat
  BY <1>2, CountedType, FiniteParts, SumBeforeIsNat
<1>5. /\ stats'.received <= SumBefore(packets_received_', ReceivedPlace')
      /\ stats'.dispatched <= SumBefore(packets_dispatched_', Place')
      /\ stats'.processed <= SumBefore(packets_processed_', Place')
  BY <1>1, <1>3, <1>4, StatsType DEF StatsSoFar
<1>6. main = "dispatched" =>
        stats.received <= stats.dispatched + packets_dispatched_'[cursor] + cursor
  <2> SUFFICES ASSUME main = "dispatched"
               PROVE  stats.received <= stats.dispatched + packets_dispatched_'[cursor] + cursor
    OBVIOUS
  <2>1. cursor \in LBs
    BY DEF TypeOK, OwnerOK
  <2>2. packets_dispatched_[cursor] <= packets_dispatched_'[cursor]
        /\ packets_dispatched_[cursor] \in Nat /\ packets_dispatched_'[cursor] \in Nat
    BY <1>2, <2>1, CountersGrow, CountedType
  <2> QED
    BY <2>2, StatsType DEF StatsSoFar
<1> QED
  BY <1>1, <1>5, <1>6 DEF StatsSoFar

LEMMA StatsBegin ==
  ASSUME TypeOK, TypeOK', GetStats
  PROVE  StatsSoFar'
<1>1. /\ main' = "received" /\ cursor' = 1 /\ packets_submitted_' = packets_submitted_
      /\ stats' = [NoStats EXCEPT !.submitted = packets_submitted_]
      /\ UNCHANGED counters
  BY DEF GetStats
<1>2. /\ stats'.submitted = packets_submitted_ /\ stats'.received = 0
      /\ stats'.dispatched = 0 /\ stats'.processed = 0
  BY <1>1 DEF NoStats
<1>3. /\ SumBefore(packets_received_', ReceivedPlace') \in Nat
      /\ SumBefore(packets_dispatched_', Place') \in Nat
      /\ SumBefore(packets_processed_', Place') \in Nat
  BY <1>1, CountedType, FiniteParts, SumBeforeIsNat DEF counters
<1> QED
  BY <1>1, <1>2, <1>3 DEF StatsSoFar

LEMMA StatsOnReceived ==
  ASSUME TypeOK, TypeOK', CountedInTurn, StatsSoFar, ReadReceived
  PROVE  StatsSoFar'
<1>1. /\ main = "received" /\ main' = "dispatched" /\ cursor' = cursor
      /\ packets_submitted_' = packets_submitted_
      /\ stats' = [stats EXCEPT !.received = @ + packets_received_[cursor]]
      /\ UNCHANGED <<packets_received_, packets_dispatched_, packets_processed_>>
      /\ cursor \in LBs
  BY DEF ReadReceived, counters, TypeOK, OwnerOK
<1>2. /\ stats'.received = stats.received + packets_received_[cursor]
      /\ stats'.submitted = stats.submitted /\ stats'.dispatched = stats.dispatched
      /\ stats'.processed = stats.processed
  BY <1>1 DEF TypeOK, OwnerOK
<1>3. Place = cursor /\ Place' = cursor /\ ReceivedPlace = cursor /\ ReceivedPlace' = cursor + 1
  BY <1>1 DEF Place, ReceivedPlace
<1>4. /\ packets_received_[cursor] \in Nat /\ packets_dispatched_[cursor] \in Nat
      /\ packets_received_[cursor] <= packets_dispatched_[cursor] + 1
  BY <1>1, CountedType DEF CountedInTurn
<1>5. /\ SumBefore(packets_received_, cursor + 1)
           = SumBefore(packets_received_, cursor) + packets_received_[cursor]
      /\ SumBefore(packets_received_, cursor) \in Nat
  BY <1>1, CountedType, StatsType, FiniteParts, SumBeforeNext, SumBeforeIsNat
<1>6. stats'.received <= SumBefore(packets_received_, cursor + 1)
  BY <1>1, <1>2, <1>3, <1>4, <1>5, StatsType DEF StatsSoFar
<1>7. stats'.received <= stats'.dispatched + packets_dispatched_[cursor] + cursor
  BY <1>1, <1>2, <1>4, StatsType DEF StatsSoFar
<1> QED
  BY <1>1, <1>2, <1>3, <1>6, <1>7 DEF StatsSoFar

LEMMA StatsOnDispatched ==
  ASSUME TypeOK, TypeOK', StatsSoFar, ReadDispatched
  PROVE  StatsSoFar'
<1>1. /\ main = "dispatched" /\ main' \in {"received", "processed"} /\ cursor' = cursor + 1
      /\ main' = "processed" => cursor + 1 \notin LBs
      /\ packets_submitted_' = packets_submitted_
      /\ stats' = [stats EXCEPT !.dispatched = @ + packets_dispatched_[cursor]]
      /\ UNCHANGED <<packets_received_, packets_dispatched_, packets_processed_>>
      /\ cursor \in LBs
  BY DEF ReadDispatched, counters, TypeOK, OwnerOK
<1>2. /\ stats'.dispatched = stats.dispatched + packets_dispatched_[cursor]
      /\ stats'.submitted = stats.submitted /\ stats'.received = stats.received
      /\ stats'.processed = stats.processed
  BY <1>1 DEF TypeOK, OwnerOK
<1>3. /\ Place = cursor /\ Place' = cursor + 1
      /\ ReceivedPlace = cursor + 1 /\ ReceivedPlace' = cursor + 1
  BY <1>1 DEF Place, ReceivedPlace
<1>4. packets_dispatched_[cursor] \in Nat
  BY <1>1, CountedType
<1>5. /\ SumBefore(packets_dispatched_, cursor + 1)
           = SumBefore(packets_dispatched_, cursor) + packets_dispatched_[cursor]
      /\ SumBefore(packets_dispatched_, cursor) \in Nat
  BY <1>1, CountedType, StatsType, FiniteParts, SumBeforeNext, SumBeforeIsNat
<1>6. stats'.dispatched <= SumBefore(packets_dispatched_, cursor + 1)
  BY <1>1, <1>2, <1>3, <1>4, <1>5, StatsType DEF StatsSoFar
<1>7. stats'.processed <= SumBefore(packets_processed_, cursor + 1)
  <2>1. SumBefore(packets_processed_, cursor) <= SumBefore(packets_processed_, cursor + 1)
    <3>1. cursor \in Nat /\ cursor + 1 \in Nat /\ cursor <= cursor + 1
          /\ \A f \in FPs : packets_processed_[f] <= packets_processed_[f]
      BY CountedType, StatsType
    <3> QED
      BY <3>1, CountedType, StatsType, FiniteParts, SumBeforeGrows
  <2>2. /\ SumBefore(packets_processed_, cursor) \in Nat
        /\ SumBefore(packets_processed_, cursor + 1) \in Nat
    BY CountedType, FiniteParts, SumBeforeIsNat
  <2> QED
    BY <1>1, <1>2, <1>3, <2>1, <2>2, StatsType DEF StatsSoFar
<1>8. stats'.received <= stats'.dispatched + cursor
  BY <1>1, <1>2, <1>4, StatsType DEF StatsSoFar
<1>9. main' = "processed" => cursor = NumLBs
  BY <1>1, Sizes DEF LBs
<1>10. cursor \in Nat /\ cursor + 1 - 1 = cursor
  BY StatsType
<1> QED
  BY <1>1, <1>2, <1>3, <1>6, <1>7, <1>8, <1>9, <1>10 DEF StatsSoFar

LEMMA StatsOnProcessed ==
  ASSUME TypeOK, TypeOK', StatsSoFar, ReadProcessed
  PROVE  StatsSoFar'
<1>1. /\ main = "processed" /\ cursor \in FPs
      /\ \/ main' = "processed" /\ cursor' = cursor + 1
         \/ main' = "answer" /\ cursor + 1 \notin Worker
      /\ packets_submitted_' = packets_submitted_
      /\ stats' = [stats EXCEPT !.processed = @ + packets_processed_[cursor]]
      /\ UNCHANGED <<packets_received_, packets_dispatched_, packets_processed_>>
  BY DEF ReadProcessed, counters, TypeOK, OwnerOK
<1>2. /\ stats'.processed = stats.processed + packets_processed_[cursor]
      /\ stats'.submitted = stats.submitted /\ stats'.received = stats.received
      /\ stats'.dispatched = stats.dispatched
  BY <1>1 DEF TypeOK, OwnerOK
<1>3. Place = cursor /\ ReceivedPlace = cursor /\ Place' = cursor + 1 /\ ReceivedPlace' = cursor + 1
  <2>1. Place = cursor /\ ReceivedPlace = cursor
    BY <1>1 DEF Place, ReceivedPlace
  <2>2. cursor + 1 \notin Worker => cursor + 1 = NumLBs + NumFPs + 1
    BY <1>1, Sizes DEF FPs, Worker
  <2> QED
    BY <1>1, <2>1, <2>2 DEF Place, ReceivedPlace
<1>4. packets_processed_[cursor] \in Nat
  BY <1>1, CountedType
<1>5. /\ SumBefore(packets_processed_, cursor + 1)
           = SumBefore(packets_processed_, cursor) + packets_processed_[cursor]
      /\ SumBefore(packets_processed_, cursor) \in Nat
  BY <1>1, CountedType, StatsType, FiniteParts, SumBeforeNext, SumBeforeIsNat
<1>6. stats'.processed <= SumBefore(packets_processed_, cursor + 1)
  BY <1>1, <1>2, <1>3, <1>4, <1>5, StatsType DEF StatsSoFar
<1>7. /\ stats'.received <= SumBefore(packets_received_, cursor + 1)
      /\ stats'.dispatched <= SumBefore(packets_dispatched_, cursor + 1)
  <2>1. /\ SumBefore(packets_received_, cursor) <= SumBefore(packets_received_, cursor + 1)
        /\ SumBefore(packets_dispatched_, cursor) <= SumBefore(packets_dispatched_, cursor + 1)
    <3>1. cursor \in Nat /\ cursor + 1 \in Nat /\ cursor <= cursor + 1
          /\ \A l \in LBs : /\ packets_received_[l] <= packets_received_[l]
                            /\ packets_dispatched_[l] <= packets_dispatched_[l]
      BY CountedType, StatsType
    <3> QED
      BY <3>1, CountedType, StatsType, FiniteParts, SumBeforeGrows
  <2>2. /\ SumBefore(packets_received_, cursor) \in Nat
        /\ SumBefore(packets_received_, cursor + 1) \in Nat
        /\ SumBefore(packets_dispatched_, cursor) \in Nat
        /\ SumBefore(packets_dispatched_, cursor + 1) \in Nat
    BY CountedType, FiniteParts, SumBeforeIsNat
  <2> QED
    BY <1>1, <1>2, <1>3, <2>1, <2>2, StatsType DEF StatsSoFar
<1>8. stats'.received <= stats'.dispatched + NumLBs
  BY <1>1, <1>2 DEF StatsSoFar
<1> QED
  BY <1>1, <1>2, <1>3, <1>6, <1>7, <1>8 DEF StatsSoFar

LEMMA StatsStep ==
  TypeOK /\ TypeOK' /\ FlowsInOrder /\ CountedInTurn /\ StatsSoFar /\ [Next]_vars
    => StatsSoFar'
<1> SUFFICES ASSUME TypeOK, TypeOK', FlowsInOrder, CountedInTurn, StatsSoFar, [Next]_vars
             PROVE  StatsSoFar'
  OBVIOUS
<1>1. CASE UNCHANGED owner
  BY <1>1, StatsWait
<1>2. ASSUME NEW l \in LBs, LoadBalancerStep(l) PROVE UNCHANGED owner
  BY <1>2 DEF LoadBalancerStep, CheckRunning, TryPopFails, Receive, DispatchPushes,
     DispatchDiscards, CountDispatched
<1>3. ASSUME NEW f \in FPs, FastPathStep(f) PROVE UNCHANGED owner
  BY <1>3 DEF FastPathStep, CheckRunning, TryPopFails, Take, Process
<1>4. CASE GetStats \/ ReadReceived \/ ReadDispatched \/ ReadProcessed
  BY <1>4, StatsBegin, StatsOnReceived, StatsOnDispatched, StatsOnProcessed
<1>5. CASE \/ StartFastPaths \/ StartLoadBalancers \/ Submit \/ SubmitPushes \/ SubmitDiscards
           \/ Stop \/ StopWorker \/ ShutWorkerQueue \/ JoinWorker \/ Answer
  <2>1. main' \notin {"received", "dispatched", "processed", "answer"}
    BY <1>5 DEF StartFastPaths, StartLoadBalancers, Submit, SubmitPushes, SubmitDiscards,
       Submitted, Stop, StopWorker, ShutWorkerQueue, JoinWorker, Answer
  <2> QED
    BY <2>1 DEF StatsSoFar
<1>6. CASE UNCHANGED vars
  BY <1>1, <1>6 DEF vars
<1> QED
  BY <1>1, <1>2, <1>3, <1>4, <1>5, <1>6 DEF Next, OwnerStep

(* However far the workers get between two of its reads, getStats never    *)
(* says that a stage had more packets than were submitted, nor that more   *)
(* than one packet per balancer was received and not dispatched.           *)
THEOREM StatsAreBounded == Spec => []StatsBounded
<1>1. Init => CountedInTurn /\ StatsSoFar
  <2> SUFFICES ASSUME Init PROVE CountedInTurn /\ StatsSoFar
    OBVIOUS
  <2>1. /\ Came \in [LBs -> Nat] /\ \A l \in LBs : Came[l] = 0
        /\ packets_submitted_ = 0
    BY Sizes DEF Init, Came
  <2>2. SumFunction(Came) = 0
    BY <2>1, FiniteParts, SumOfZeros
  <2> QED
    BY <2>1, <2>2, Sizes DEF Init, CountedInTurn, StatsSoFar
<1>2. TypeOK /\ Balanced /\ CountedInTurn /\ StatsSoFar => StatsBounded
  <2> SUFFICES ASSUME TypeOK, Balanced, CountedInTurn, StatsSoFar, main = "answer"
               PROVE  /\ stats.submitted = packets_submitted_
                      /\ stats.received <= packets_submitted_
                      /\ stats.dispatched <= packets_submitted_
                      /\ stats.processed <= packets_submitted_
                      /\ stats.received <= stats.dispatched + NumLBs
    BY DEF StatsBounded
  <2>1. /\ Came \in [LBs -> Nat]
        /\ \A l \in LBs : /\ packets_dispatched_[l] <= packets_received_[l]
                          /\ packets_received_[l] <= Came[l]
    <3>1. ASSUME NEW l \in LBs
          PROVE  /\ packets_received_[l] + Len(queue[l]) \in Nat
                 /\ packets_dispatched_[l] <= packets_received_[l]
                 /\ packets_received_[l] <= packets_received_[l] + Len(queue[l])
      <4>1. /\ packets_received_[l] \in Nat /\ packets_dispatched_[l] \in Nat
            /\ Len(queue[l]) \in Nat
        BY CountedType
      <4> QED
        BY <4>1 DEF CountedInTurn
    <3> QED
      BY <3>1 DEF Came
  <2>2. /\ SumFunction(packets_dispatched_) <= SumFunction(packets_received_)
        /\ SumFunction(packets_received_) <= SumFunction(Came)
        /\ SumFunction(Came) <= packets_submitted_
    BY <2>1, CountedType, FiniteParts, SumGrows DEF CountedInTurn
  <2>3. SumFunction(packets_processed_) <= packets_submitted_
    BY BalanceParts DEF Balanced, Balance
  <2>4. /\ SumBefore(packets_received_, ReceivedPlace) <= SumFunction(packets_received_)
        /\ SumBefore(packets_dispatched_, Place) <= SumFunction(packets_dispatched_)
        /\ SumBefore(packets_processed_, Place) <= SumFunction(packets_processed_)
    BY CountedType, FiniteParts, SumBeforeAll
  <2>5. /\ SumBefore(packets_received_, ReceivedPlace) \in Nat
        /\ SumBefore(packets_dispatched_, Place) \in Nat
        /\ SumBefore(packets_processed_, Place) \in Nat
        /\ SumFunction(packets_received_) \in Nat /\ SumFunction(packets_dispatched_) \in Nat
        /\ SumFunction(packets_processed_) \in Nat /\ SumFunction(Came) \in Nat
        /\ packets_submitted_ \in Nat
    BY <2>1, CountedType, FiniteParts, SumBeforeIsNat, SumIsNat
  <2>6. /\ stats.submitted = packets_submitted_
        /\ stats.received <= SumBefore(packets_received_, ReceivedPlace)
        /\ stats.dispatched <= SumBefore(packets_dispatched_, Place)
        /\ stats.processed <= SumBefore(packets_processed_, Place)
        /\ stats.received <= stats.dispatched + NumLBs
    BY DEF StatsSoFar
  <2> QED
    BY <2>2, <2>3, <2>4, <2>5, <2>6, StatsType
<1> QED
  BY <1>1, <1>2, BalanceInit, BalanceStep, CountedStep, StatsStep, TypeCorrect, OrderInit,
     OrderStep, PTL DEF Spec

----------------------------------------------------------------------------
(* Nobody waits for ever.                                                  *)

(* The workers whose turn to be stopped has not come are running.          *)
Kept == {w \in Alive : main \in {"shut", "join"} => w # cursor}

KeptRun == \A w \in Kept : on[w] /\ at[w] # "off"

(* The worker that stop joins has been told to go.                         *)
ToldToGo == (main \in {"shut", "join"} => ~on[cursor]) /\ (main = "join" => shut[cursor])

(* Somebody who waits for a packet to be taken out of queue q.             *)
WaitsAt(q) == \/ main = "submit" /\ q = Dest(0, Upcoming)
              \/ \E l \in LBs : at[l] = "push" /\ q = Dest(l, hand[l])

Full(q) == ~shut[q] /\ Len(queue[q]) >= QueueCap

(* A submit or a balancer that waits for room in a queue waits for a       *)
(* worker that is running, is not about to stop and has a packet to take,  *)
(* and in the case of a fast path waits for nobody; and stop, when it      *)
(* waits for a worker, has told that worker to go.                         *)
WaitsEnd ==
  /\ \A q \in Worker : WaitsAt(q) /\ Full(q) =>
       on[q] /\ at[q] # "off" /\ queue[q] # <<>> /\ (q \in FPs => at[q] # "push")
  /\ main = "join" => ~on[cursor] /\ shut[cursor]

LEMMA KeptStep == TypeOK /\ TypeOK' /\ KeptRun /\ [Next]_vars => KeptRun'
<1> SUFFICES ASSUME TypeOK, TypeOK', KeptRun, [Next]_vars PROVE KeptRun'
  OBVIOUS
<1>1. on \in [Worker -> BOOLEAN] /\ at \in [Worker -> {"off", "check", "pop", "push", "count", "work"}]
  BY DEF TypeOK, WorkersOK
<1>2. ASSUME UNCHANGED <<on, at>>, Kept' \subseteq Kept PROVE KeptRun'
  BY <1>2 DEF KeptRun
<1>3. Alive \subseteq Worker
  BY Sizes DEF Alive
<1>4. ASSUME UNCHANGED owner PROVE Kept' = Kept
  BY <1>4 DEF owner, Kept, Alive, Stopping
<1>5. ASSUME NEW w \in Worker, UNCHANGED <<owner, on>>, \A u \in Worker : u # w => at'[u] = at[u],
             on[w] => at'[w] # "off"
      PROVE  KeptRun'
  BY <1>3, <1>4, <1>5 DEF KeptRun, Kept
<1>6. CASE UNCHANGED vars
  BY <1>2, <1>4, <1>6 DEF vars
<1>7. CASE StartFastPaths
  <2>1. main' = "start" /\ \A w \in FPs : on'[w] /\ at'[w] = "check"
    BY <1>1, <1>7, Sizes DEF StartFastPaths, StartWorkers
  <2>2. Kept' = FPs
    BY <2>1 DEF Kept, Alive, Stopping
  <2> QED
    BY <2>1, <2>2 DEF KeptRun
<1>8. CASE StartLoadBalancers
  <2>1. /\ main = "start" /\ main' = "idle" /\ running_'
        /\ \A w \in LBs : on'[w] /\ at'[w] = "check"
        /\ \A w \in FPs : on'[w] = on[w] /\ at'[w] = at[w]
    BY <1>1, <1>8, Sizes DEF StartLoadBalancers, StartWorkers
  <2>2. Kept = FPs /\ Kept' = Worker
    BY <2>1 DEF Kept, Alive, Stopping
  <2> QED
    BY <2>1, <2>2, Sizes DEF KeptRun
<1>9. CASE Submit \/ SubmitPushes \/ SubmitDiscards \/ GetStats \/ ReadReceived
           \/ ReadDispatched \/ ReadProcessed \/ Answer
  <2>1. UNCHANGED <<on, at, running_>> /\ ~Stopping /\ ~Stopping'
        /\ main # "start" /\ main' # "start"
    BY <1>9 DEF Submit, SubmitPushes, SubmitDiscards, Submitted, GetStats, ReadReceived,
       ReadDispatched, ReadProcessed, Answer, Stopping
  <2>2. Kept' = Kept
    BY <2>1 DEF Kept, Alive, Stopping
  <2> QED
    BY <1>2, <2>1, <2>2
<1>10. CASE Stop
  <2>1. /\ main = "idle" /\ running_ /\ main' = "stop" /\ cursor' = 1
        /\ UNCHANGED <<on, at>>
    BY <1>10 DEF Stop
  <2>2. Kept = Worker
    BY <2>1 DEF Kept, Alive, Stopping
  <2>3. Kept' \subseteq Worker
    BY <2>1 DEF Kept, Alive, Stopping
  <2> QED
    BY <1>2, <2>1, <2>2, <2>3
<1>11. CASE StopWorker
  <2>1. /\ main = "stop" /\ main' = "shut" /\ cursor' = cursor /\ at' = at
        /\ \A w \in Worker : w # cursor => on'[w] = on[w]
    BY <1>1, <1>11 DEF StopWorker
  <2>2. Kept' \subseteq Kept /\ cursor \notin Kept' /\ Kept' \subseteq Worker
    BY <2>1 DEF Kept, Alive, Stopping
  <2> QED
    BY <2>1, <2>2 DEF KeptRun
<1>12. CASE ShutWorkerQueue
  <2>1. main = "shut" /\ main' = "join" /\ cursor' = cursor /\ UNCHANGED <<on, at>>
    BY <1>12 DEF ShutWorkerQueue
  <2>2. Kept' = Kept
    BY <2>1 DEF Kept, Alive, Stopping
  <2> QED
    BY <1>2, <2>1, <2>2
<1>13. CASE JoinWorker
  <2>1. main = "join" /\ cursor \in Worker /\ UNCHANGED <<on, at>>
    BY <1>13 DEF JoinWorker, TypeOK, OwnerOK, Stopping
  <2>2. CASE cursor + 1 \in Worker
    <3>1. cursor' = cursor + 1 /\ main' = "stop"
      BY <1>13, <2>2 DEF JoinWorker
    <3>2. \A w \in Worker : w >= cursor + 1 => w >= cursor /\ w # cursor
      BY <2>1, Sizes
    <3>3. Kept' \subseteq Kept
      BY <2>1, <3>1, <3>2 DEF Kept, Alive, Stopping
    <3> QED
      BY <1>2, <2>1, <3>3
  <2>3. CASE cursor + 1 \notin Worker
    <3>1. main' = "idle" /\ ~running_'
      BY <1>13, <2>3 DEF JoinWorker
    <3>2. Kept' = {}
      BY <3>1 DEF Kept, Alive, Stopping
    <3> QED
      BY <3>2 DEF KeptRun
  <2> QED
    BY <2>2, <2>3
<1>14. ASSUME NEW w \in Worker, LoadBalancerStep(w) \/ FastPathStep(w) PROVE KeptRun'
  <2>1. UNCHANGED <<owner, on>>
    BY <1>14 DEF LoadBalancerStep, FastPathStep, CheckRunning, TryPopFails, Receive,
       DispatchPushes, DispatchDiscards, CountDispatched, Take, Process
  <2>2. (\A u \in Worker : u # w => at'[u] = at[u]) /\ (on[w] => at'[w] # "off")
    BY <1>1, <1>14 DEF LoadBalancerStep, FastPathStep, CheckRunning, TryPopFails, Receive,
       DispatchPushes, DispatchDiscards, CountDispatched, Take, Process
  <2> QED
    BY <1>5, <2>1, <2>2
<1> QED
  BY <1>6, <1>7, <1>8, <1>9, <1>10, <1>11, <1>12, <1>13, <1>14, Sizes DEF Next, OwnerStep

LEMMA ToldStep == TypeOK /\ ToldToGo /\ [Next]_vars => ToldToGo'
<1> SUFFICES ASSUME TypeOK, ToldToGo, [Next]_vars PROVE ToldToGo'
  OBVIOUS
<1>1. on \in [Worker -> BOOLEAN] /\ shut \in [Worker -> BOOLEAN]
  BY DEF TypeOK, WorkersOK
<1>2. ASSUME UNCHANGED <<main, cursor, on, shut>> PROVE ToldToGo'
  BY <1>2 DEF ToldToGo
<1>3. ASSUME main' \notin {"shut", "join"} PROVE ToldToGo'
  BY <1>3 DEF ToldToGo
<1>4. CASE UNCHANGED vars
  BY <1>2, <1>4 DEF vars, owner
<1>5. CASE StopWorker \/ ShutWorkerQueue
  <2>1. main \in {"stop", "shut"} /\ cursor \in Worker /\ cursor' = cursor
    BY <1>5 DEF StopWorker, ShutWorkerQueue, TypeOK, OwnerOK, Stopping
  <2>2. CASE StopWorker
    BY <1>1, <2>1, <2>2 DEF StopWorker, ToldToGo
  <2>3. CASE ShutWorkerQueue
    BY <1>1, <2>1, <2>3 DEF ShutWorkerQueue, ToldToGo
  <2> QED
    BY <1>5, <2>2, <2>3
<1>6. CASE StartFastPaths \/ Submit \/ Stop \/ GetStats \/ StartLoadBalancers \/ SubmitPushes
           \/ SubmitDiscards \/ JoinWorker \/ ReadReceived \/ ReadDispatched \/ ReadProcessed
           \/ Answer
  <2>1. main' \notin {"shut", "join"}
    BY <1>6 DEF StartFastPaths, Submit, Stop, GetStats, StartLoadBalancers, SubmitPushes,
       SubmitDiscards, Submitted, JoinWorker, ReadReceived, ReadDispatched, ReadProcessed, Answer
  <2> QED
    BY <1>3, <2>1
<1>7. ASSUME NEW w \in Worker, LoadBalancerStep(w) \/ FastPathStep(w) PROVE ToldToGo'
  <2>1. UNCHANGED <<owner, on, shut>>
    BY <1>7 DEF LoadBalancerStep, FastPathStep, CheckRunning, TryPopFails, Receive,
       DispatchPushes, DispatchDiscards, CountDispatched, Take, Process
  <2> QED
    BY <1>2, <2>1 DEF owner
<1> QED
  BY <1>4, <1>5, <1>6, <1>7, Sizes DEF Next, OwnerStep

LEMMA KeptInit == Init => KeptRun /\ ToldToGo
BY DEF Init, KeptRun, Kept, Alive, Stopping, ToldToGo

(* The fast paths are stopped after the balancers, so while somebody waits *)
(* for room in a queue its worker is kept running.                         *)
LEMMA WaitedForIsKept ==
  ASSUME TypeOK, NEW q \in Worker, WaitsAt(q)
  PROVE  q \in Kept
<1>1. CASE main = "submit" /\ q = Dest(0, Upcoming)
  BY <1>1 DEF TypeOK, OwnerOK, Kept, Alive, Stopping
<1>2. ASSUME NEW l \in LBs, at[l] = "push", q = Dest(l, hand[l]) PROVE q \in Kept
  <2>1. l \in Worker /\ hand[l] \in Packet /\ l \in Alive
    BY <1>2, Sizes DEF TypeOK, WorkersOK
  <2>2. q \in FPs
    BY <1>2, <2>1, Destinations
  <2>3. l < q /\ l \notin FPs
    BY <2>2, Sizes DEF LBs, FPs
  <2>4. CASE Stopping
    <3>1. cursor \in Worker /\ l >= cursor
      BY <2>1, <2>4 DEF TypeOK, OwnerOK, Alive, Stopping
    <3>2. q >= cursor /\ q # cursor
      BY <2>3, <3>1, Sizes
    <3> QED
      BY <2>4, <3>2 DEF Kept, Alive, Stopping
  <2>5. CASE ~Stopping
    <3>1. main # "start"
      BY <2>1, <2>3, Sizes DEF Alive, Stopping
    <3> QED
      BY <2>1, <2>5, <3>1 DEF Kept, Alive, Stopping
  <2> QED
    BY <2>4, <2>5
<1> QED
  BY <1>1, <1>2 DEF WaitsAt

(* The safety that CallsReturn rests on: whoever waits in a call, waits    *)
(* for a worker that goes on, and no wait goes round in a circle.          *)
THEOREM NobodyWaitsInVain ==
  ASSUME QueueCap > 0
  PROVE  Spec => []WaitsEnd
<1>1. TypeOK /\ KeptRun /\ ToldToGo => WaitsEnd
  <2> SUFFICES ASSUME TypeOK, KeptRun, ToldToGo PROVE WaitsEnd
    OBVIOUS
  <2>1. ASSUME NEW q \in Worker, WaitsAt(q), Full(q)
        PROVE  on[q] /\ at[q] # "off" /\ queue[q] # <<>> /\ (q \in FPs => at[q] # "push")
    <3>1. q \in Kept
      BY <2>1, WaitedForIsKept
    <3>2. queue[q] \in Seq(Packet) /\ Len(queue[q]) >= QueueCap
      BY <2>1 DEF Full, TypeOK, WorkersOK
    <3>3. queue[q] # <<>>
      BY <3>2, PipelineAssumption
    <3>4. q \in FPs => at[q] # "push"
      BY DEF TypeOK, WorkersOK
    <3> QED
      BY <3>1, <3>3, <3>4 DEF KeptRun
  <2> QED
    BY <2>1 DEF WaitsEnd, ToldToGo
<1>2. Spec => []TypeOK
  BY TypeCorrect
<1>3. Spec => [](KeptRun /\ ToldToGo)
  <2>1. TypeOK /\ TypeOK' /\ KeptRun /\ ToldToGo /\ [Next]_vars => KeptRun' /\ ToldToGo'
    BY KeptStep, ToldStep
  <2> QED
    BY <1>2, <2>1, KeptInit, PTL DEF Spec
<1> QED
  BY <1>1, <1>2, <1>3, PTL

=============================================================================
