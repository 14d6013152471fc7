----------------------------- MODULE DPIEngine -----------------------------
(***************************************************************************)
(* The packet pipeline of src/dpi_engine.cpp: the thread that calls        *)
(* processFile, the reader, the load balancers (src/load_balancer.cpp),    *)
(* the fast paths (src/fast_path.cpp) and the output writer, connected by  *)
(* the bounded blocking queues that ThreadSafeQueue implements, each push  *)
(* and each pop one step here (module BoundedFifo).                        *)
(*                                                                         *)
(* Threads are numbered along the pipeline: the reader, the load balancers *)
(* in the order of lbs_, the fast paths in the order of fps_, the writer.  *)
(* The queue of a thread is the one it pops from.  A packet is its         *)
(* position in the capture.  The verdict of shouldDrop is a free choice:   *)
(* nothing here depends on the rules.                                      *)
(***************************************************************************)
EXTENDS Integers, Sequences, FiniteSets, Functions

CONSTANTS
  Tuple,              (* the five-tuples in the capture                    *)
  Ignored,            (* a record that the reader skips: not parsed, not   *)
                      (* IPv4, or neither TCP nor UDP                      *)
  Capture,            (* the records of the input files, one after another *)
  FileEnd,            (* FileEnd[r]: the last record of the r-th file      *)
  Hash,               (* what FiveTupleHash returns for each tuple         *)
  NumLBs,             (* config_.num_load_balancers                        *)
  FpsPerLb,           (* config_.fps_per_lb                                *)
  QueueCap,           (* capacity of the load balancers' and fast paths'   *)
                      (* input queues, 10000 in the code                   *)
  OutCap,             (* config_.queue_size, capacity of output_queue_     *)
  SleepOutlastsDrain  (* does the 500 ms sleep of processFile last until   *)
                      (* the pipeline is empty?                            *)

ASSUME EngineAssumption ==
  /\ Ignored \notin Tuple
  /\ Capture \in Seq(Tuple \cup {Ignored})
  /\ FileEnd \in Seq(0..Len(Capture))
  /\ \A r \in 2..Len(FileEnd) : FileEnd[r - 1] <= FileEnd[r]
  /\ Hash \in [Tuple -> Nat]
  /\ NumLBs \in Nat \ {0}
  /\ FpsPerLb \in Nat \ {0}
  /\ QueueCap \in Nat
  /\ OutCap \in Nat
  /\ SleepOutlastsDrain \in BOOLEAN

NumFPs == NumLBs * FpsPerLb

Reader == 0
LBs    == 1..NumLBs
FPs    == NumLBs + 1 .. NumLBs + NumFPs
Worker == 1 .. NumLBs + NumFPs
Writer == NumLBs + NumFPs + 1
Thread == 0..Writer
Queue  == 1..Writer           (* the queue of each thread but the reader   *)

(* The records that become packet jobs.                                    *)
Packet   == {p \in 1..Len(Capture) : Capture[p] # Ignored}
NoPacket == 0
NoIndex  == 0

(* Wrong: the fast paths of a balancer are served in turn.                 *)
SelectFPInTurn(l, p) == NumLBs + 1 + (l - 1) * FpsPerLb + (p % FpsPerLb)

(* getLBForPacket, and selectFP of load balancer l over its own fast       *)
(* paths, both from the same hash.                                         *)
LBForPacket(p) == 1 + (Hash[Capture[p]] % NumLBs)
SelectFP(l, p) == NumLBs + 1 + (l - 1) * FpsPerLb + (Hash[Capture[p]] % FpsPerLb)

(* The queue thread t pushes packet p to.                                  *)
Dest(t, p) ==
  CASE t = Reader -> LBForPacket(p)
    [] t \in LBs  -> SelectFP(t, p)
    [] OTHER      -> Writer

Cap(q) == IF q = Writer THEN OutCap ELSE QueueCap

VARIABLES
  (* The caller of processFile.                                            *)
  main,                 (* where it is                                     *)
  run,                  (* the number of calls made                        *)
  cursor,               (* the worker being stopped by stopAll             *)
  running_,             (* DPIEngine::running_                             *)
  processing_complete_, (* the flag of the same name                       *)
  (* The threads.                                                          *)
  at,                   (* at[t]: where thread t is in its loop            *)
  hand,                 (* hand[t]: the packet in its local variable       *)
  on,                   (* on[w]: running_ of the load balancer, fast path *)
  next,                 (* the record the reader reads next                *)
  fp_index,             (* fp_index[l]: the fast path that balancer l has  *)
                        (* pushed to and not yet counted, if any           *)
  (* The queues.                                                           *)
  queue,                (* queue[q]: its packets, oldest first             *)
  shut,                 (* shut[q]: its shutdown_                          *)
  (* The output file.                                                      *)
  header,               (* has writeOutputHeader been called for it?       *)
  file,                 (* the packets written to it                       *)
  (* The counters.                                                         *)
  total_packets,        (* of stats_                                       *)
  forwarded_packets,    (* of stats_                                       *)
  per_fp_counts_,       (* per_fp_counts_[f]: sent to f by its balancer    *)
  packets_processed_,   (* of each fast path: accepted                     *)
  packets_dropped_,     (* of each fast path                               *)
  (* History: what has become of each packet.                              *)
  fate

control  == <<main, run, cursor, running_, processing_complete_>>
counters == <<total_packets, forwarded_packets, fp_index, per_fp_counts_,
              packets_processed_, packets_dropped_>>
vars == <<control, at, hand, on, next, queue, shut, header, file, counters, fate>>

Fates == {"unread", "read", "accepted", "dropped", "written", "discarded"}

(* "off": the thread has not been started, or its function has returned.   *)
(* "check": the condition of its loop.  "work": processPacket of a fast    *)
(* path, writeOutputPacket of the writer.  "push": blocked in, or about to *)
(* make, the push of what it holds.  "count": a balancer after the push,   *)
(* before it has stepped its counters.                                     *)
Places == {"off", "open", "check", "checkEmpty", "pop", "work", "push", "count"}

Init ==
  /\ main = "idle" /\ run = 0 /\ cursor = 0
  /\ running_ = FALSE /\ processing_complete_ = FALSE
  /\ at    = [t \in Thread |-> "off"]
  /\ hand  = [t \in Thread |-> NoPacket]
  /\ on    = [w \in Worker |-> FALSE]
  /\ next  = 1
  /\ fp_index = [l \in LBs |-> NoIndex]
  /\ queue = [q \in Queue |-> <<>>]
  /\ shut  = [q \in Queue |-> FALSE]
  /\ header = FALSE /\ file = <<>>
  /\ total_packets = 0 /\ forwarded_packets = 0
  /\ per_fp_counts_     = [f \in FPs |-> 0]
  /\ packets_processed_ = [f \in FPs |-> 0]
  /\ packets_dropped_   = [f \in FPs |-> 0]
  /\ fate  = [p \in Packet |-> "unread"]

----------------------------------------------------------------------------
(* processFile, start and stop.                                            *)

(* The output file cannot be opened: processFile returns false, and there  *)
(* is no output of this call.                                              *)
OpenOutputFails ==
  /\ main = "idle" /\ run < Len(FileEnd)
  /\ run' = run + 1
  /\ header' = FALSE /\ file' = <<>>
  /\ UNCHANGED <<main, cursor, running_, processing_complete_, at, hand, on,
                 next, queue, shut, counters, fate>>

(* The output file is opened, and so truncated, and start begins: it       *)
(* returns at once if running_ is set, which stop has always cleared.      *)
Start ==
  /\ main = "idle" /\ run < Len(FileEnd)
  /\ ~running_
  /\ run' = run + 1
  /\ header' = FALSE /\ file' = <<>>
  /\ running_' = TRUE /\ processing_complete_' = FALSE
  /\ at' = [at EXCEPT ![Writer] = "check"]
  /\ main' = "startFPs"
  /\ UNCHANGED <<cursor, hand, on, next, queue, shut, counters, fate>>

StartWorkers(workers) ==
  /\ on' = [w \in Worker |-> w \in workers \/ on[w]]
  /\ at' = [t \in Thread |-> IF t \in workers THEN "check" ELSE at[t]]
  /\ UNCHANGED <<run, cursor, running_, processing_complete_, hand, next,
                 queue, shut, header, file, counters, fate>>

StartFastPaths ==
  /\ main = "startFPs"
  /\ StartWorkers(FPs)
  /\ main' = "startLBs"

StartLoadBalancers ==
  /\ main = "startLBs"
  /\ StartWorkers(LBs)
  /\ main' = "startReader"

StartReader ==
  /\ main = "startReader"
  /\ at' = [at EXCEPT ![Reader] = "open"]
  /\ main' = "waiting"
  /\ UNCHANGED <<run, cursor, running_, processing_complete_, hand, on, next,
                 queue, shut, header, file, counters, fate>>

(* waitForCompletion joins the reader, and nothing else.                   *)
WaitForCompletion ==
  /\ main = "waiting"
  /\ at[Reader] = "off"
  /\ processing_complete_' = TRUE
  /\ main' = "draining"
  /\ UNCHANGED <<run, cursor, running_, at, hand, on, next, queue, shut,
                 header, file, counters, fate>>

(* No packet is queued and no thread holds one.                            *)
Quiet ==
  /\ \A q \in Queue  : queue[q] = <<>>
  /\ \A t \in Thread : hand[t] = NoPacket

(* The sleep of 500 ms is over.  The first thing stop does is to clear     *)
(* running_, the flag that keeps the writer in its loop.                   *)
StopRequest ==
  /\ main = "draining"
  /\ SleepOutlastsDrain => Quiet
  /\ running_' = FALSE
  /\ cursor' = 1
  /\ main' = "stop"
  /\ UNCHANGED <<run, processing_complete_, at, hand, on, next, queue, shut,
                 header, file, counters, fate>>

(* LBManager::stopAll, then FPManager::stopAll: for each worker in turn,   *)
(* clear its running_, shut its queue down, join its thread.               *)
StopWorker ==
  /\ main = "stop"
  /\ on' = [on EXCEPT ![cursor] = FALSE]
  /\ main' = "shut"
  /\ UNCHANGED <<run, cursor, running_, processing_complete_, at, hand, next,
                 queue, shut, header, file, counters, fate>>

(* Wrong: shuts all queues down before it joins the first worker.          *)
ShutAllQueues ==
  /\ main = "shut"
  /\ shut' = [q \in Queue |-> q \in Worker \/ shut[q]]
  /\ main' = "join"
  /\ UNCHANGED <<run, cursor, running_, processing_complete_, at, hand, on,
                 next, queue, header, file, counters, fate>>

ShutWorkerQueue ==
  /\ main = "shut"
  /\ shut' = [shut EXCEPT ![cursor] = TRUE]
  /\ main' = "join"
  /\ UNCHANGED <<run, cursor, running_, processing_complete_, at, hand, on,
                 next, queue, header, file, counters, fate>>

(* Wrong: detaches the worker instead of joining it.                       *)
DetachWorker ==
  /\ main = "join"
  /\ IF cursor + 1 \in Worker
     THEN cursor' = cursor + 1 /\ main' = "stop"
     ELSE cursor' = 0          /\ main' = "shutOutput"
  /\ UNCHANGED <<run, running_, processing_complete_, at, hand, on, next,
                 queue, shut, header, file, counters, fate>>

JoinWorker ==
  /\ main = "join"
  /\ at[cursor] = "off"
  /\ IF cursor + 1 \in Worker
     THEN cursor' = cursor + 1 /\ main' = "stop"
     ELSE cursor' = 0          /\ main' = "shutOutput"
  /\ UNCHANGED <<run, running_, processing_complete_, at, hand, on, next,
                 queue, shut, header, file, counters, fate>>

(* Wrong: joins the writer without shutting its queue down.                *)
LeaveOutputQueueOpen ==
  /\ main = "shutOutput"
  /\ main' = "joinWriter"
  /\ UNCHANGED <<run, cursor, running_, processing_complete_, at, hand, on,
                 next, queue, shut, header, file, counters, fate>>

ShutOutputQueue ==
  /\ main = "shutOutput"
  /\ shut' = [shut EXCEPT ![Writer] = TRUE]
  /\ main' = "joinWriter"
  /\ UNCHANGED <<run, cursor, running_, processing_complete_, at, hand, on,
                 next, queue, header, file, counters, fate>>

(* The writer is joined, the output file closed: processFile returns true. *)
JoinWriter ==
  /\ main = "joinWriter"
  /\ at[Writer] = "off"
  /\ processing_complete_' = TRUE
  /\ main' = "idle"
  /\ UNCHANGED <<run, cursor, running_, at, hand, on, next, queue, shut,
                 header, file, counters, fate>>

----------------------------------------------------------------------------
(* The reader.                                                             *)

(* Wrong: reads the last record of the file before once more.              *)
FirstRecordOfLast == IF run = 1 THEN 1 ELSE FileEnd[run - 1]

FirstRecord == IF run = 1 THEN 1 ELSE FileEnd[run - 1] + 1

(* The input file cannot be opened, which nobody is told.                  *)
OpenInputFails ==
  /\ at[Reader] = "open"
  /\ at' = [at EXCEPT ![Reader] = "off"]
  /\ UNCHANGED <<control, hand, on, next, queue, shut, header, file,
                 counters, fate>>

(* Wrong: leaves the PCAP header to somebody else.                         *)
OpenInputNoHeader ==
  /\ at[Reader] = "open"
  /\ next' = FirstRecord
  /\ at' = [at EXCEPT ![Reader] = "check"]
  /\ UNCHANGED <<control, hand, on, queue, shut, header, file, counters, fate>>

OpenInput ==
  /\ at[Reader] = "open"
  /\ header' = TRUE
  /\ next' = FirstRecord
  /\ at' = [at EXCEPT ![Reader] = "check"]
  /\ UNCHANGED <<control, hand, on, queue, shut, file, counters, fate>>

(* Wrong: counts the record before it looks at its protocol.               *)
SkipRecordCounted ==
  /\ at[Reader] = "check"
  /\ next <= FileEnd[run]
  /\ Capture[next] = Ignored
  /\ next' = next + 1
  /\ total_packets' = total_packets + 1
  /\ UNCHANGED <<control, at, hand, on, queue, shut, header, file,
                 forwarded_packets, fp_index, per_fp_counts_, packets_processed_,
                 packets_dropped_, fate>>

SkipRecord ==
  /\ at[Reader] = "check"
  /\ next <= FileEnd[run]
  /\ Capture[next] = Ignored
  /\ next' = next + 1
  /\ UNCHANGED <<control, at, hand, on, queue, shut, header, file, counters, fate>>

ReadPacket ==
  /\ at[Reader] = "check"
  /\ next <= FileEnd[run]
  /\ Capture[next] # Ignored
  /\ next' = next + 1
  /\ total_packets' = total_packets + 1
  /\ hand' = [hand EXCEPT ![Reader] = next]
  /\ at' = [at EXCEPT ![Reader] = "push"]
  /\ fate' = [fate EXCEPT ![next] = "read"]
  /\ UNCHANGED <<control, on, queue, shut, header, file, forwarded_packets,
                 fp_index, per_fp_counts_, packets_processed_, packets_dropped_>>

(* Wrong: stops one record early.                                          *)
EndOfFileEarly ==
  /\ at[Reader] = "check"
  /\ next >= FileEnd[run]
  /\ at' = [at EXCEPT ![Reader] = "off"]
  /\ UNCHANGED <<control, hand, on, next, queue, shut, header, file,
                 counters, fate>>

EndOfFile ==
  /\ at[Reader] = "check"
  /\ next > FileEnd[run]
  /\ at' = [at EXCEPT ![Reader] = "off"]
  /\ UNCHANGED <<control, hand, on, next, queue, shut, header, file,
                 counters, fate>>

----------------------------------------------------------------------------
(* push, by the reader, a load balancer or a fast path.                    *)

(* The push returns, whatever it did; a balancer has still to count it.    *)
Pushed(t, q) ==
  /\ hand' = [hand EXCEPT ![t] = NoPacket]
  /\ at'   = [at EXCEPT ![t] = IF t \in LBs THEN "count" ELSE "check"]
  /\ fp_index' = IF t \in LBs THEN [fp_index EXCEPT ![t] = q] ELSE fp_index
  /\ UNCHANGED <<control, on, next, shut, header, file, total_packets, forwarded_packets,
                 per_fp_counts_, packets_processed_, packets_dropped_>>

Push(t) ==
  LET q == Dest(t, hand[t])
  IN  /\ at[t] = "push"
      /\ ~shut[q]
      /\ Len(queue[q]) < Cap(q)
      /\ queue' = [queue EXCEPT ![q] = Append(@, hand[t])]
      /\ Pushed(t, q)
      /\ UNCHANGED fate

(* A push to a queue that is shut down returns without a trace.            *)
PushDiscards(t) ==
  LET q == Dest(t, hand[t])
  IN  /\ at[t] = "push"
      /\ shut[q]
      /\ Pushed(t, q)
      /\ fate' = [fate EXCEPT ![hand[t]] = "discarded"]
      /\ UNCHANGED queue

(* The fast path may have judged the packet before its balancer counts it. *)
CountDispatched(l) ==
  /\ at[l] = "count"
  /\ per_fp_counts_' = [per_fp_counts_ EXCEPT ![fp_index[l]] = @ + 1]
  /\ fp_index' = [fp_index EXCEPT ![l] = NoIndex]
  /\ at' = [at EXCEPT ![l] = "check"]
  /\ UNCHANGED <<control, hand, on, next, queue, shut, header, file, total_packets,
                 forwarded_packets, packets_processed_, packets_dropped_, fate>>

----------------------------------------------------------------------------
(* The loop of a load balancer and of a fast path.                         *)

CheckRunning(w) ==
  /\ at[w] = "check"
  /\ at' = [at EXCEPT ![w] = IF on[w] THEN "pop" ELSE "off"]
  /\ UNCHANGED <<control, hand, on, next, queue, shut, header, file,
                 counters, fate>>

(* tryPop returns false: its 100 ms are over, or the queue is shut down.   *)
TryPopFails(w) ==
  /\ at[w] = "pop"
  /\ queue[w] = <<>>
  /\ at' = [at EXCEPT ![w] = "check"]
  /\ UNCHANGED <<control, hand, on, next, queue, shut, header, file,
                 counters, fate>>

(* Wrong: reads the front of the queue without removing it.                *)
PopPeeks(t) ==
  /\ at[t] = "pop"
  /\ queue[t] # <<>>
  /\ hand'  = [hand EXCEPT ![t] = Head(queue[t])]
  /\ at'    = [at EXCEPT ![t] = IF t \in LBs THEN "push" ELSE "work"]
  /\ UNCHANGED <<control, on, next, queue, shut, header, file, counters, fate>>

Pop(t) ==
  /\ at[t] = "pop"
  /\ queue[t] # <<>>
  /\ hand'  = [hand EXCEPT ![t] = Head(queue[t])]
  /\ queue' = [queue EXCEPT ![t] = Tail(@)]
  /\ at'    = [at EXCEPT ![t] = IF t \in LBs THEN "push" ELSE "work"]
  /\ UNCHANGED <<control, on, next, shut, header, file, counters, fate>>

(* Wrong: no return after the verdict, the packet is pushed all the same.  *)
DropFallsThrough(f) ==
  /\ at[f] = "work"
  /\ packets_dropped_' = [packets_dropped_ EXCEPT ![f] = @ + 1]
  /\ fate' = [fate EXCEPT ![hand[f]] = "dropped"]
  /\ at'   = [at EXCEPT ![f] = "push"]
  /\ UNCHANGED <<control, hand, on, next, queue, shut, header, file, total_packets,
                 forwarded_packets, fp_index, per_fp_counts_, packets_processed_>>

(* Wrong: returns before it has counted.                                   *)
DropUncounted(f) ==
  /\ at[f] = "work"
  /\ fate' = [fate EXCEPT ![hand[f]] = "dropped"]
  /\ hand' = [hand EXCEPT ![f] = NoPacket]
  /\ at'   = [at EXCEPT ![f] = "check"]
  /\ UNCHANGED <<control, on, next, queue, shut, header, file, counters>>

(* processPacket, with either verdict.                                     *)
Drop(f) ==
  /\ at[f] = "work"
  /\ packets_dropped_' = [packets_dropped_ EXCEPT ![f] = @ + 1]
  /\ fate' = [fate EXCEPT ![hand[f]] = "dropped"]
  /\ hand' = [hand EXCEPT ![f] = NoPacket]
  /\ at'   = [at EXCEPT ![f] = "check"]
  /\ UNCHANGED <<control, on, next, queue, shut, header, file, total_packets,
                 forwarded_packets, fp_index, per_fp_counts_, packets_processed_>>

Accept(f) ==
  /\ at[f] = "work"
  /\ packets_processed_' = [packets_processed_ EXCEPT ![f] = @ + 1]
  /\ fate' = [fate EXCEPT ![hand[f]] = "accepted"]
  /\ at'   = [at EXCEPT ![f] = "push"]
  /\ UNCHANGED <<control, hand, on, next, queue, shut, header, file,
                 total_packets, forwarded_packets, fp_index, per_fp_counts_,
                 packets_dropped_>>

----------------------------------------------------------------------------
(* The writer: while (running_ || !output_queue_.empty()).                 *)

WriterChecksRunning ==
  /\ at[Writer] = "check"
  /\ at' = [at EXCEPT ![Writer] = IF running_ THEN "pop" ELSE "checkEmpty"]
  /\ UNCHANGED <<control, hand, on, next, queue, shut, header, file,
                 counters, fate>>

WriterChecksEmpty ==
  /\ at[Writer] = "checkEmpty"
  /\ at' = [at EXCEPT ![Writer] = IF queue[Writer] = <<>> THEN "off" ELSE "pop"]
  /\ UNCHANGED <<control, hand, on, next, queue, shut, header, file,
                 counters, fate>>

(* pop, unlike tryPop, waits until the queue is shut down.                 *)
WriterPopFails ==
  /\ at[Writer] = "pop"
  /\ queue[Writer] = <<>>
  /\ shut[Writer]
  /\ at' = [at EXCEPT ![Writer] = "check"]
  /\ UNCHANGED <<control, hand, on, next, queue, shut, header, file,
                 counters, fate>>

WritePacket ==
  /\ at[Writer] = "work"
  /\ file' = Append(file, hand[Writer])
  /\ forwarded_packets' = forwarded_packets + 1
  /\ fate' = [fate EXCEPT ![hand[Writer]] = "written"]
  /\ hand' = [hand EXCEPT ![Writer] = NoPacket]
  /\ at'   = [at EXCEPT ![Writer] = "check"]
  /\ UNCHANGED <<control, on, next, queue, shut, header, total_packets,
                 fp_index, per_fp_counts_, packets_processed_, packets_dropped_>>

----------------------------------------------------------------------------
MainStep ==
  \/ StartFastPaths \/ StartLoadBalancers \/ StartReader
  \/ WaitForCompletion \/ StopRequest
  \/ StopWorker \/ ShutWorkerQueue \/ JoinWorker
  \/ ShutOutputQueue \/ JoinWriter

ReaderStep ==
  \/ OpenInputFails \/ OpenInput \/ SkipRecord \/ ReadPacket \/ EndOfFile
  \/ Push(Reader) \/ PushDiscards(Reader)

WorkerStep(w) ==
  \/ CheckRunning(w) \/ TryPopFails(w) \/ Pop(w)
  \/ w \in LBs /\ CountDispatched(w)
  \/ w \in FPs /\ (Drop(w) \/ Accept(w))
  \/ Push(w) \/ PushDiscards(w)

WriterStep ==
  \/ WriterChecksRunning \/ WriterChecksEmpty
  \/ Pop(Writer) \/ WriterPopFails \/ WritePacket

(* Every call has returned, and no other will be made.                     *)
Finished ==
  /\ main = "idle" /\ run = Len(FileEnd)
  /\ UNCHANGED vars

Next ==
  \/ OpenOutputFails \/ Start \/ MainStep
  \/ ReaderStep \/ (\E w \in Worker : WorkerStep(w)) \/ WriterStep
  \/ Finished

Spec == Init /\ [][Next]_vars

(* The operating system schedules every thread that can run.  The caller   *)
(* need not call processFile.                                              *)
Fairness ==
  /\ WF_vars(MainStep)
  /\ WF_vars(ReaderStep)
  /\ \A w \in Worker : WF_vars(WorkerStep(w))
  /\ WF_vars(WriterStep)

FairSpec == Spec /\ Fairness

----------------------------------------------------------------------------
(* Properties.                                                             *)

Mains == {"idle", "startFPs", "startLBs", "startReader", "waiting", "draining",
          "stop", "shut", "join", "shutOutput", "joinWriter"}

ControlOK ==
  /\ main \in Mains /\ run \in 0..Len(FileEnd)
  /\ cursor \in 0 .. NumLBs + NumFPs
  /\ main \in {"stop", "shut", "join"} <=> cursor # 0
  /\ running_ \in BOOLEAN /\ processing_complete_ \in BOOLEAN
  /\ main # "idle" => run # 0

(* The threads that may be running, by where the caller is.                *)
Alive == CASE main = "idle"                         -> {}
           [] main \in {"shutOutput", "joinWriter"} -> {Writer}
           [] main = "startFPs"                     -> {Writer}
           [] main = "startLBs"                     -> FPs \cup {Writer}
           [] main \in {"startReader", "draining"}  -> Queue
           [] main = "waiting"                      -> Thread
           [] OTHER                                 -> {t \in Queue : t >= cursor}

PhaseOK == \A t \in Thread : at[t] # "off" => t \in Alive

ThreadsOK ==
  /\ at    \in [Thread -> Places]
  /\ hand  \in [Thread -> Packet \cup {NoPacket}]
  /\ on    \in [Worker -> BOOLEAN]
  /\ next  \in Nat \ {0}
  /\ fp_index \in [LBs -> FPs \cup {NoIndex}]
  /\ at[Reader] \in {"off", "open", "check", "push"}
  /\ \A l \in LBs : at[l] \in {"off", "check", "pop", "push", "count"}
  /\ \A f \in FPs : at[f] \in {"off", "check", "pop", "work", "push"}
  /\ at[Writer] \in {"off", "check", "checkEmpty", "pop", "work"}
  /\ \A t \in Thread : at[t] \in {"work", "push"} <=> hand[t] # NoPacket
  /\ \A l \in LBs : at[l] = "count" <=> fp_index[l] # NoIndex

DataOK ==
  /\ queue \in [Queue -> Seq(Packet)]
  /\ shut  \in [Queue -> BOOLEAN]
  /\ header \in BOOLEAN /\ file \in Seq(Packet)
  /\ total_packets \in Nat /\ forwarded_packets \in Nat
  /\ per_fp_counts_     \in [FPs -> Nat]
  /\ packets_processed_ \in [FPs -> Nat]
  /\ packets_dropped_   \in [FPs -> Nat]
  /\ fate  \in [Packet -> Fates]

(* Types; where each kind of thread can be; a thread holds a packet        *)
(* exactly while it works on it or pushes it, and a balancer a fast path   *)
(* exactly while it has still to count its push; the cursor names a worker *)
(* while stopAll runs; only threads that were started and not yet joined   *)
(* are running.                                                            *)
TypeOK == ControlOK /\ PhaseOK /\ ThreadsOK /\ DataOK

(* stop takes the pipeline down from its head: while processFile runs for  *)
(* the first time, no thread is ever about to push into a queue that is    *)
(* shut down, where push would silently throw the packet away.             *)
StagedShutdown ==
  run <= 1 => \A t \in Thread : at[t] = "push" => ~shut[Dest(t, hand[t])]

(* Where p is in the pipeline.                                             *)
Where(p) ==
  {<<t>> : t \in {u \in Thread : hand[u] = p}}
    \cup UNION {{<<q, k>> : k \in {j \in DOMAIN queue[q] : queue[q][j] = p}} : q \in Queue}

(* A packet that was read and has not been dropped, written or thrown away *)
(* is in exactly one queue or in the hand of exactly one thread: none is   *)
(* duplicated, and none vanishes on its way.  What has been settled is     *)
(* nowhere in the pipeline any more.                                       *)
OnePlace ==
  \A p \in Packet :
    Cardinality(Where(p)) = IF fate[p] \in {"read", "accepted"} THEN 1 ELSE 0

(* Every packet that reaches the output queue has passed the rule check of *)
(* a fast path, as outputThreadFunc assumes when it counts it forwarded,   *)
(* and nothing is in the file that was not written once.                   *)
OnlyCheckedPackets ==
  /\ \A k \in DOMAIN queue[Writer] : fate[queue[Writer][k]] = "accepted"
  /\ hand[Writer] # NoPacket => fate[hand[Writer]] = "accepted"
  /\ \A k \in DOMAIN file : fate[file[k]] = "written"

(* total_packets is what was forwarded, what the fast paths dropped, what  *)
(* is still on its way or stranded in a queue, and what was thrown away.   *)
Accounting ==
  total_packets =
    forwarded_packets + SumFunction(packets_dropped_)
      + SumFunction([q \in Queue |-> Len(queue[q])])
      + Cardinality({t \in Thread : hand[t] # NoPacket})
      + Cardinality({p \in Packet : fate[p] = "discarded"})

(* What the balancers have pushed to a fast path, counted or about to be,  *)
(* has arrived there: it was judged, is being judged, or waits in the      *)
(* queue.  Their counters lag behind, so that more packets may have been   *)
(* judged than are said to have been sent.                                 *)
DispatchedArrives ==
  run <= 1 =>
    \A f \in FPs :
      per_fp_counts_[f] + Cardinality({l \in LBs : fp_index[l] = f}) =
        packets_processed_[f] + packets_dropped_[f]
          + Len(queue[f]) + (IF at[f] = "work" THEN 1 ELSE 0)

(* The packets of a flow are in the output file in the order of the        *)
(* capture, and none is there twice.                                       *)
FlowOrder ==
  \A j, k \in DOMAIN file :
    j < k /\ Capture[file[j]] = Capture[file[k]] => file[j] < file[k]

(* The reader writes the PCAP header, the writer the packets: in the first *)
(* call of processFile the header comes before any packet.  (In a second   *)
(* call the writer may first write what the first call left in its queue.) *)
HeaderFirst == run <= 1 /\ file # <<>> => header

(* If the sleep of processFile lasts until the pipeline is empty, every    *)
(* packet of the input file has been dropped or written when it returns.   *)
AllAnswered ==
  SleepOutlastsDrain /\ main = "idle" /\ header =>
    \A p \in Packet \cap (FirstRecord .. FileEnd[run]) :
      fate[p] \in {"dropped", "written"}

(* processFile returns: the reader is not blocked for ever by a full       *)
(* queue, and stop is not blocked for ever in a join.                      *)
ProcessFileReturns == main # "idle" ~> main = "idle"

(* The abstract view of a packet: only its verdict and its fate.           *)
FilterFate(s) == CASE s \in {"unread", "read"} -> "pending"
                   [] s = "discarded"          -> "lost"
                   [] OTHER                    -> s

Filter == INSTANCE PacketFilter WITH
            Flow   <- Capture,
            fate   <- [p \in Packet |-> FilterFate(fate[p])],
            output <- file

(* The pipeline implements the packet filter: one verdict per packet, only *)
(* accepted packets written, each once, and both in the order of the flow, *)
(* whatever the threads do and wherever stop catches them.                 *)
ImplementsFilter == Filter!Spec

----------------------------------------------------------------------------
(* Why the order of a flow survives the pipeline: the inductive invariant. *)

(* The packets thread t holds or has in its queue.                         *)
At(t) == {p \in Packet : \/ hand[t] = p
                         \/ t \in Queue /\ \E k \in DOMAIN queue[t] : queue[t][k] = p}

SameFlow(p, q) == Capture[p] = Capture[q]

(* All packets of a flow take the same load balancer and fast path.        *)
Lanes ==
  \A t \in Thread : \A p \in At(t) :
    /\ t \in LBs => t = LBForPacket(p)
    /\ t \in FPs => t = SelectFP(LBForPacket(p), p)

(* A packet in the pipeline was read; it is accepted once its fast path    *)
(* has decided to push it to the writer.                                   *)
FatesInPlace ==
  /\ \A t \in Thread : hand[t] # NoPacket =>
       fate[hand[t]] = IF t = Writer \/ (t \in FPs /\ at[t] = "push")
                       THEN "accepted" ELSE "read"
  /\ \A q \in Queue : \A k \in DOMAIN queue[q] :
       fate[queue[q][k]] = IF q = Writer THEN "accepted" ELSE "read"
  /\ \A k \in DOMAIN file : fate[file[k]] = "written"

(* What the reader has not come to yet is unread, in this file and in the  *)
(* files that follow.                                                      *)
Frontier ==
  /\ \A p \in Packet : fate[p] # "unread" => p < next
  /\ next <= IF run = 0 THEN 1 ELSE FileEnd[run] + 1
  /\ main \in {"startFPs", "startLBs", "startReader"} \/ at[Reader] = "open"
       => next <= FirstRecord

(* Of two packets of a flow in the pipeline, the earlier one is ahead: in  *)
(* a queue, between a queue and the thread that pops from it, and between  *)
(* threads, which are numbered along the pipeline.                         *)
InOrder ==
  /\ \A q \in Queue : \A j, k \in DOMAIN queue[q] :
       j < k /\ SameFlow(queue[q][j], queue[q][k]) => queue[q][j] < queue[q][k]
  /\ \A q \in Queue : \A k \in DOMAIN queue[q] :
       hand[q] # NoPacket /\ SameFlow(hand[q], queue[q][k]) => hand[q] < queue[q][k]
  /\ \A t, u \in Thread : t < u =>
       \A x \in At(t), y \in At(u) : SameFlow(x, y) => y < x

(* A packet still to be judged comes after those of its flow that were     *)
(* judged, and one still to be written after those that were written.      *)
Judgements ==
  \A t \in Thread : \A x \in At(t) : \A y \in Packet : SameFlow(x, y) =>
    /\ fate[x] = "read" /\ fate[y] \in {"accepted", "dropped", "written"} => y < x
    /\ fate[y] = "written" => y < x

PipelineOrder == Lanes /\ FatesInPlace /\ Frontier /\ InOrder /\ Judgements

=============================================================================
