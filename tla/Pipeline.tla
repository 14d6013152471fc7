------------------------------ MODULE Pipeline ------------------------------
(***************************************************************************)
(* src/pipeline_manager.cpp: the pipeline without reader, rules and        *)
(* writer, fed by the thread that owns it through submit.  That thread is  *)
(* the only user of the object (running_ and packets_submitted_ are plain  *)
(* members), so its calls follow one another; the load balancers and the   *)
(* fast paths run beside it.                                               *)
(*                                                                         *)
(* Unlike DPIEngine this module has the counters of both kinds of workers, *)
(* each stepped where the code does it, and getStats, which reads them one *)
(* by one while the workers go on.                                         *)
(***************************************************************************)
EXTENDS Dispatch, Sequences, FiniteSets, Functions

CONSTANTS
  Jobs,       (* the tuples of the packets, in the order of submission     *)
  QueueCap,   (* capacity of every input queue, 10000 in the code          *)
  MaxStarts   (* bound on the calls of start that start anything           *)

ASSUME PipelineAssumption ==
  /\ Jobs \in Seq(Tuple)
  /\ QueueCap \in Nat
  /\ MaxStarts \in Nat

Packet   == 1..Len(Jobs)
NoPacket == 0

(* Wrong: the fast paths of a balancer are served in turn.                 *)
DestInTurn(t, p) == IF t \in LBs THEN NumLBs + 1 + (t - 1) * FpsPerLb + (p % FpsPerLb)
                                 ELSE LBFor(Jobs[p])

(* The queue that worker t, or submit (t = 0), pushes packet p to.         *)
Dest(t, p) == IF t \in LBs THEN SelectFP(t, Jobs[p]) ELSE LBFor(Jobs[p])

VARIABLES
  (* The owner.                                                            *)
  main,                (* the call it is in, and how far                   *)
  cursor,              (* the worker that stopAll or getStats is at        *)
  running_,            (* PipelineManager::running_                        *)
  packets_submitted_,  (* the member of that name                          *)
  starts,              (* the number of times start has started threads    *)
  stats,               (* what getStats has summed up so far               *)
  (* The workers and their input queues.                                   *)
  at, hand, on,        (* place in its loop, local variable, running_      *)
  queue, shut,         (* queue_ and shutdown_                             *)
  packets_received_, packets_dispatched_,   (* of each load balancer       *)
  packets_processed_,                       (* of each fast path           *)
  (* History.                                                              *)
  fate,                (* what has become of each packet                   *)
  settled              (* had all packets been processed when the current  *)
                       (* call of getStats began?                          *)

owner    == <<main, cursor, running_, packets_submitted_, starts, stats, settled>>
counters == <<packets_received_, packets_dispatched_, packets_processed_>>
vars == <<owner, at, hand, on, queue, shut, counters, fate>>

NoStats == [submitted |-> 0, received |-> 0, dispatched |-> 0, processed |-> 0]

Init ==
  /\ main = "idle" /\ cursor = 0 /\ running_ = FALSE
  /\ packets_submitted_ = 0 /\ starts = 0
  /\ stats = NoStats /\ settled = FALSE
  /\ at    = [w \in Worker |-> "off"]
  /\ hand  = [w \in Worker |-> NoPacket]
  /\ on    = [w \in Worker |-> FALSE]
  /\ queue = [w \in Worker |-> <<>>]
  /\ shut  = [w \in Worker |-> FALSE]
  /\ packets_received_   = [l \in LBs |-> 0]
  /\ packets_dispatched_ = [l \in LBs |-> 0]
  /\ packets_processed_  = [f \in FPs |-> 0]
  /\ fate  = [p \in Packet |-> "new"]

----------------------------------------------------------------------------
(* start                                                                   *)

StartWorkers(workers) ==
  /\ on' = [w \in Worker |-> w \in workers \/ on[w]]
  /\ at' = [w \in Worker |-> IF w \in workers THEN "check" ELSE at[w]]
  /\ UNCHANGED <<cursor, packets_submitted_, stats, settled, hand, queue, shut,
                 counters, fate>>

(* A start of what is running returns at once.                             *)
StartFastPaths ==
  /\ main = "idle" /\ ~running_ /\ starts < MaxStarts
  /\ StartWorkers(FPs)
  /\ starts' = starts + 1
  /\ main' = "start"
  /\ UNCHANGED running_

StartLoadBalancers ==
  /\ main = "start"
  /\ StartWorkers(LBs)
  /\ running_' = TRUE
  /\ main' = "idle"
  /\ UNCHANGED starts

----------------------------------------------------------------------------
(* submit, which throws if the pipeline is not running.                    *)

Upcoming == packets_submitted_ + 1   (* the packet submitted next          *)

Submit ==
  /\ main = "idle" /\ running_ /\ Upcoming \in Packet
  /\ main' = "submit"
  /\ UNCHANGED <<cursor, running_, packets_submitted_, starts, stats, settled,
                 at, hand, on, queue, shut, counters, fate>>

(* The push returns, whatever it did, and the packet is counted.           *)
Submitted ==
  /\ packets_submitted_' = packets_submitted_ + 1
  /\ main' = "idle"
  /\ UNCHANGED <<cursor, running_, starts, stats, settled, at, hand, on, shut,
                 counters>>

SubmitPushes ==
  LET q == Dest(0, Upcoming)
  IN  /\ main = "submit"
      /\ ~shut[q] /\ Len(queue[q]) < QueueCap
      /\ queue' = [queue EXCEPT ![q] = Append(@, Upcoming)]
      /\ fate'  = [fate EXCEPT ![Upcoming] = "submitted"]
      /\ Submitted

SubmitDiscards ==
  /\ main = "submit"
  /\ shut[Dest(0, Upcoming)]
  /\ fate' = [fate EXCEPT ![Upcoming] = "discarded"]
  /\ UNCHANGED queue
  /\ Submitted

----------------------------------------------------------------------------
(* stop: LBManager::stopAll, then FPManager::stopAll.                      *)

Stop ==
  /\ main = "idle" /\ running_
  /\ main' = "stop" /\ cursor' = 1
  /\ UNCHANGED <<running_, packets_submitted_, starts, stats, settled, at, hand,
                 on, queue, shut, counters, fate>>

StopWorker ==
  /\ main = "stop"
  /\ on' = [on EXCEPT ![cursor] = FALSE]
  /\ main' = "shut"
  /\ UNCHANGED <<cursor, running_, packets_submitted_, starts, stats, settled,
                 at, hand, queue, shut, counters, fate>>

(* Wrong: shuts all queues down before it joins the first worker.          *)
ShutAllQueues ==
  /\ main = "shut"
  /\ shut' = [w \in Worker |-> TRUE]
  /\ main' = "join"
  /\ UNCHANGED <<cursor, running_, packets_submitted_, starts, stats, settled,
                 at, hand, on, queue, counters, fate>>

ShutWorkerQueue ==
  /\ main = "shut"
  /\ shut' = [shut EXCEPT ![cursor] = TRUE]
  /\ main' = "join"
  /\ UNCHANGED <<cursor, running_, packets_submitted_, starts, stats, settled,
                 at, hand, on, queue, counters, fate>>

(* Wrong: detaches the worker instead of joining it.                       *)
DetachWorker ==
  /\ main = "join"
  /\ IF cursor + 1 \in Worker
     THEN cursor' = cursor + 1 /\ main' = "stop" /\ UNCHANGED running_
     ELSE cursor' = 0 /\ main' = "idle" /\ running_' = FALSE
  /\ UNCHANGED <<packets_submitted_, starts, stats, settled, at, hand, on, queue,
                 shut, counters, fate>>

JoinWorker ==
  /\ main = "join"
  /\ at[cursor] = "off"
  /\ IF cursor + 1 \in Worker
     THEN cursor' = cursor + 1 /\ main' = "stop" /\ UNCHANGED running_
     ELSE cursor' = 0 /\ main' = "idle" /\ running_' = FALSE
  /\ UNCHANGED <<packets_submitted_, starts, stats, settled, at, hand, on, queue,
                 shut, counters, fate>>

----------------------------------------------------------------------------
(* getStats: one atomic counter after the other, in the order of the pipe. *)

GetStats ==
  /\ main = "idle"
  /\ stats' = [NoStats EXCEPT !.submitted = packets_submitted_]
  /\ settled' = (SumFunction(packets_processed_) = Len(Jobs))
  /\ cursor' = 1
  /\ main' = "received"
  /\ UNCHANGED <<running_, packets_submitted_, starts, at, hand, on, queue, shut,
                 counters, fate>>

ReadReceived ==
  /\ main = "received"
  /\ stats' = [stats EXCEPT !.received = @ + packets_received_[cursor]]
  /\ main' = "dispatched"
  /\ UNCHANGED <<cursor, running_, packets_submitted_, starts, settled, at, hand,
                 on, queue, shut, counters, fate>>

ReadDispatched ==
  /\ main = "dispatched"
  /\ stats' = [stats EXCEPT !.dispatched = @ + packets_dispatched_[cursor]]
  /\ cursor' = cursor + 1
  /\ main' = IF cursor + 1 \in LBs THEN "received" ELSE "processed"
  /\ UNCHANGED <<running_, packets_submitted_, starts, settled, at, hand, on,
                 queue, shut, counters, fate>>

ReadProcessed ==
  /\ main = "processed"
  /\ stats' = [stats EXCEPT !.processed = @ + packets_processed_[cursor]]
  /\ IF cursor + 1 \in Worker
     THEN cursor' = cursor + 1 /\ UNCHANGED main
     ELSE cursor' = 0 /\ main' = "answer"
  /\ UNCHANGED <<running_, packets_submitted_, starts, settled, at, hand, on,
                 queue, shut, counters, fate>>

Answer ==
  /\ main = "answer"
  /\ stats' = NoStats /\ settled' = FALSE
  /\ main' = "idle"
  /\ UNCHANGED <<cursor, running_, packets_submitted_, starts, at, hand, on,
                 queue, shut, counters, fate>>

----------------------------------------------------------------------------
(* The loop of a worker.                                                   *)

(* Wrong: goes round for ever.                                             *)
CheckNothing(w) ==
  /\ at[w] = "check"
  /\ at' = [at EXCEPT ![w] = "pop"]
  /\ UNCHANGED <<owner, hand, on, queue, shut, counters, fate>>

CheckRunning(w) ==
  /\ at[w] = "check"
  /\ at' = [at EXCEPT ![w] = IF on[w] THEN "pop" ELSE "off"]
  /\ UNCHANGED <<owner, hand, on, queue, shut, counters, fate>>

(* Wrong: counts a packet before it looks at what tryPop returned.         *)
TryPopFailsCounted(w) ==
  /\ at[w] = "pop"
  /\ queue[w] = <<>>
  /\ packets_received_' = [l \in LBs |-> packets_received_[l] + IF l = w THEN 1 ELSE 0]
  /\ at' = [at EXCEPT ![w] = "check"]
  /\ UNCHANGED <<owner, hand, on, queue, shut, packets_dispatched_,
                 packets_processed_, fate>>

TryPopFails(w) ==
  /\ at[w] = "pop"
  /\ queue[w] = <<>>
  /\ at' = [at EXCEPT ![w] = "check"]
  /\ UNCHANGED <<owner, hand, on, queue, shut, counters, fate>>

(* packets_received_ is stepped after tryPop has returned; nobody who      *)
(* reads it sees the queue.                                                *)
Receive(l) ==
  /\ at[l] = "pop" /\ queue[l] # <<>>
  /\ hand'  = [hand EXCEPT ![l] = Head(queue[l])]
  /\ queue' = [queue EXCEPT ![l] = Tail(@)]
  /\ packets_received_' = [packets_received_ EXCEPT ![l] = @ + 1]
  /\ at' = [at EXCEPT ![l] = "push"]
  /\ UNCHANGED <<owner, on, shut, packets_dispatched_, packets_processed_, fate>>

(* Wrong: keeps one place of the queue free.                               *)
DispatchPushesIfTwoFree(l) ==
  LET q == Dest(l, hand[l])
  IN  /\ at[l] = "push"
      /\ ~shut[q] /\ Len(queue[q]) < QueueCap - 1
      /\ queue' = [queue EXCEPT ![q] = Append(@, hand[l])]
      /\ hand'  = [hand EXCEPT ![l] = NoPacket]
      /\ at' = [at EXCEPT ![l] = "count"]
      /\ UNCHANGED <<owner, on, shut, counters, fate>>

DispatchPushes(l) ==
  LET q == Dest(l, hand[l])
  IN  /\ at[l] = "push"
      /\ ~shut[q] /\ Len(queue[q]) < QueueCap
      /\ queue' = [queue EXCEPT ![q] = Append(@, hand[l])]
      /\ hand'  = [hand EXCEPT ![l] = NoPacket]
      /\ at' = [at EXCEPT ![l] = "count"]
      /\ UNCHANGED <<owner, on, shut, counters, fate>>

DispatchDiscards(l) ==
  /\ at[l] = "push"
  /\ shut[Dest(l, hand[l])]
  /\ fate' = [fate EXCEPT ![hand[l]] = "discarded"]
  /\ hand' = [hand EXCEPT ![l] = NoPacket]
  /\ at' = [at EXCEPT ![l] = "count"]
  /\ UNCHANGED <<owner, on, queue, shut, counters>>

(* packets_dispatched_ is stepped after the push, when the fast path may   *)
(* already have counted the packet.                                        *)
CountDispatched(l) ==
  /\ at[l] = "count"
  /\ packets_dispatched_' = [packets_dispatched_ EXCEPT ![l] = @ + 1]
  /\ at' = [at EXCEPT ![l] = "check"]
  /\ UNCHANGED <<owner, hand, on, queue, shut, packets_received_,
                 packets_processed_, fate>>

Take(f) ==
  /\ at[f] = "pop" /\ queue[f] # <<>>
  /\ hand'  = [hand EXCEPT ![f] = Head(queue[f])]
  /\ queue' = [queue EXCEPT ![f] = Tail(@)]
  /\ at' = [at EXCEPT ![f] = "work"]
  /\ UNCHANGED <<owner, on, shut, counters, fate>>

(* processPacket without rules accepts, and without an output queue pushes *)
(* nothing.                                                                *)
Process(f) ==
  /\ at[f] = "work"
  /\ packets_processed_' = [packets_processed_ EXCEPT ![f] = @ + 1]
  /\ fate' = [fate EXCEPT ![hand[f]] = "processed"]
  /\ hand' = [hand EXCEPT ![f] = NoPacket]
  /\ at' = [at EXCEPT ![f] = "check"]
  /\ UNCHANGED <<owner, on, queue, shut, packets_received_, packets_dispatched_>>

----------------------------------------------------------------------------
(* The rest of the call the owner is in.                                   *)
OwnerStep ==
  \/ StartLoadBalancers
  \/ SubmitPushes \/ SubmitDiscards
  \/ StopWorker \/ ShutWorkerQueue \/ JoinWorker
  \/ ReadReceived \/ ReadDispatched \/ ReadProcessed \/ Answer

LoadBalancerStep(l) ==
  \/ CheckRunning(l) \/ TryPopFails(l)
  \/ Receive(l) \/ DispatchPushes(l) \/ DispatchDiscards(l)
  \/ CountDispatched(l)

FastPathStep(f) == CheckRunning(f) \/ TryPopFails(f) \/ Take(f) \/ Process(f)

Next ==
  \/ StartFastPaths \/ Submit \/ Stop \/ GetStats \/ OwnerStep
  \/ \E l \in LBs : LoadBalancerStep(l)
  \/ \E f \in FPs : FastPathStep(f)

Spec == Init /\ [][Next]_vars

(* Every thread that can run is scheduled; the owner need not call         *)
(* anything, but goes on with a call it is in.                             *)
Fairness ==
  /\ WF_vars(OwnerStep)
  /\ \A l \in LBs : WF_vars(LoadBalancerStep(l))
  /\ \A f \in FPs : WF_vars(FastPathStep(f))

FairSpec == Spec /\ Fairness

----------------------------------------------------------------------------
(* Properties.                                                             *)

Mains == {"idle", "start", "submit", "stop", "shut", "join",
          "received", "dispatched", "processed", "answer"}
Fates == {"new", "submitted", "processed", "discarded"}

Stopping == main \in {"stop", "shut", "join"}

(* The workers that may be running, by where the owner is.                 *)
Alive == CASE main = "start" -> FPs
           [] Stopping       -> {w \in Worker : w >= cursor}
           [] OTHER          -> IF running_ THEN Worker ELSE {}

OwnerOK ==
  /\ main \in Mains /\ running_ \in BOOLEAN /\ settled \in BOOLEAN
  /\ packets_submitted_ \in 0..Len(Jobs) /\ starts \in 0..MaxStarts
  /\ stats \in [submitted : Nat, received : Nat, dispatched : Nat, processed : Nat]
  /\ main = "received" \/ main = "dispatched" => cursor \in LBs
  /\ main = "processed" => cursor \in FPs
  /\ Stopping => cursor \in Worker /\ running_
  /\ main \in {"idle", "start", "submit", "answer"} => cursor = 0
  /\ main = "start" => ~running_
  /\ main = "submit" => running_ /\ Upcoming \in Packet

WorkersOK ==
  /\ at    \in [Worker -> {"off", "check", "pop", "push", "count", "work"}]
  /\ hand  \in [Worker -> Packet \cup {NoPacket}]
  /\ on    \in [Worker -> BOOLEAN]
  /\ queue \in [Worker -> Seq(Packet)]
  /\ shut  \in [Worker -> BOOLEAN]
  /\ packets_received_   \in [LBs -> Nat]
  /\ packets_dispatched_ \in [LBs -> Nat]
  /\ packets_processed_  \in [FPs -> Nat]
  /\ fate  \in [Packet -> Fates]
  /\ \A l \in LBs : at[l] # "work"
  /\ \A f \in FPs : at[f] \notin {"push", "count"}
  /\ \A w \in Worker : /\ at[w] \in {"push", "work"} <=> hand[w] # NoPacket
                       /\ at[w] # "off" => w \in Alive

(* Types; where the owner and each kind of worker can be; a worker holds a *)
(* packet exactly while it pushes or processes it; only workers that have  *)
(* been started and not yet joined are running.                            *)
TypeOK == OwnerOK /\ WorkersOK

Discarded == {p \in Packet : fate[p] = "discarded"}

(* How many packets worker w has in its queue and in its hand.             *)
Load(w) == Len(queue[w]) + IF hand[w] = NoPacket THEN 0 ELSE 1

(* What submit counts has been processed, is on its way or stranded in a   *)
(* queue, or was thrown away by a push into a queue that is shut down; and *)
(* until the pipeline is started for the second time none is thrown away,  *)
(* wherever stop catches the packets, and what a balancer dispatched, it   *)
(* did dispatch to its own fast paths.                                     *)
Accounting ==
  /\ packets_submitted_ =
       SumFunction(packets_processed_) + SumFunction([w \in Worker |-> Load(w)])
         + Cardinality(Discarded)
  /\ starts <= 1 =>
       /\ Discarded = {}
       /\ \A l \in LBs :
            packets_dispatched_[l] + (IF at[l] = "count" THEN 1 ELSE 0) =
              SumFunction([f \in FPsOf(l) |-> packets_processed_[f] + Load(f)])

(* The packets of a flow are processed in the order in which they were     *)
(* submitted, across a restart too: when one is, none that was submitted   *)
(* earlier is still in the pipeline.                                       *)
ProcessedInOrder ==
  \A p, q \in Packet :
    p < q /\ Jobs[p] = Jobs[q] /\ fate[q] = "processed" => fate[p] # "submitted"

(* getStats reads one counter after the other, so its answer is of no      *)
(* single moment, and it may say that more packets were processed than     *)
(* dispatched.  But no stage is ever said to have had more packets than    *)
(* were submitted, and each balancer holds back one packet at most.        *)
StatsBounded ==
  main = "answer" =>
    /\ stats.submitted = packets_submitted_
    /\ \A k \in {"received", "dispatched", "processed"} : stats[k] <= stats.submitted
    /\ stats.received <= stats.dispatched + NumLBs

(* Every call returns: a submit is not blocked for ever by a full queue,   *)
(* nor a stop by a worker that is, though a stopped balancer may have to   *)
(* wait for its fast path first.                                           *)
CallsReturn == main # "idle" ~> main = "idle"

(* A packet in the pipeline is processed or discarded in the end, unless   *)
(* the pipeline is stopped.                                                *)
AllProcessed ==
  \A p \in Packet :
    running_ /\ fate[p] = "submitted" ~> fate[p] # "submitted" \/ ~running_

(* What tests/pipeline_manager_test.cpp asserts: if all packets have been  *)
(* processed when getStats is called, then it says that all have been      *)
(* dispatched.                                                             *)
AllDispatched ==
  main = "answer" /\ settled => stats.dispatched = stats.submitted

=============================================================================
