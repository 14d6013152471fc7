--------------------------- MODULE DPIEngineProof ---------------------------
(***************************************************************************)
(* DPIEngine for any capture, any hash function, any number of load        *)
(* balancers and fast paths and any capacity of the queues: types, how the *)
(* pipeline is shut down, the order of a flow and the refinement of        *)
(* PacketFilter; then what becomes of the packets, that is, the header of  *)
(* the output file, the counters, the place of every packet, the accounts, *)
(* and that all have been answered when a sleep that is long enough is     *)
(* over; and who waits for whom.                                           *)
(***************************************************************************)
EXTENDS DPIEngine, Sums

----------------------------------------------------------------------------
(* The numbering of the threads and the routes.                            *)

(* A remainder is smaller than the divisor.                                *)
LEMMA ModRange == ASSUME NEW h \in Nat, NEW n \in Nat \ {0}
                  PROVE  h % n \in 0..n-1
OBVIOUS

(* A product of naturals grows with its first factor.                      *)
LEMMA BlockRange ==
  ASSUME NEW n \in Nat \ {0}, NEW f \in Nat \ {0}, NEW l \in 1..n, NEW r \in 0..f-1
  PROVE  (l - 1) * f + r + 1 \in 1 .. n * f
<1>1. (l - 1) * f \in Nat
  OBVIOUS
<1>2. (l - 1) * f + f <= n * f
  OBVIOUS
<1> QED
  BY <1>1, <1>2

(* How the numbers of the threads and of the queues lie.                   *)
LEMMA Numbering ==
  /\ NumFPs \in Nat \ {0} /\ NumLBs \in Nat \ {0} /\ Writer \in Nat
  /\ LBs \cup FPs = Worker /\ LBs \cap FPs = {}
  /\ Worker \subseteq Queue /\ Queue \subseteq Thread
  /\ Thread = {Reader, Writer} \cup Worker
  /\ Queue = {Writer} \cup Worker
  /\ Writer \notin Worker /\ Reader \notin Queue /\ Reader # Writer
  /\ Worker \subseteq Nat \ {0} /\ Thread \subseteq Nat
  /\ \A l \in LBs, f \in FPs : Reader < l /\ l < f /\ f < Writer
<1>1. NumFPs \in Nat \ {0} /\ NumLBs \in Nat \ {0}
  BY EngineAssumption DEF EngineAssumption, NumFPs
<1> QED
  BY <1>1 DEF LBs, FPs, Worker, Writer, Reader, Queue, Thread

(* A packet is a captured record with a five-tuple, which has a hash.      *)
LEMMA PacketHash ==
  ASSUME NEW p \in Packet
  PROVE  p \in Nat \ {0} /\ Capture[p] \in Tuple /\ Hash[Capture[p]] \in Nat
BY EngineAssumption DEF EngineAssumption, Packet

(* The reader pushes to a load balancer, a load balancer to a fast path of *)
(* its own, a fast path to the writer.                                     *)
LEMMA Routes ==
  ASSUME NEW p \in Packet
  PROVE  /\ LBForPacket(p) \in LBs
         /\ \A l \in LBs : SelectFP(l, p) \in FPs
         /\ Dest(Reader, p) = LBForPacket(p)
         /\ \A l \in LBs : Dest(l, p) = SelectFP(l, p)
         /\ \A f \in FPs : Dest(f, p) = Writer
<1>1. LBForPacket(p) \in LBs
  <2>1. Hash[Capture[p]] % NumLBs \in 0 .. NumLBs - 1
    BY PacketHash, Numbering, ModRange
  <2> QED
    BY <2>1, Numbering DEF LBForPacket, LBs
<1>2. ASSUME NEW l \in LBs PROVE SelectFP(l, p) \in FPs
  <2>1. FpsPerLb \in Nat \ {0}
    BY EngineAssumption DEF EngineAssumption
  <2>2. Hash[Capture[p]] % FpsPerLb \in 0 .. FpsPerLb - 1
    BY <2>1, PacketHash, ModRange
  <2>3. l \in 1..NumLBs
    BY <1>2 DEF LBs
  <2>4. (l - 1) * FpsPerLb + (Hash[Capture[p]] % FpsPerLb) + 1 \in 1 .. NumFPs
    BY <2>1, <2>2, <2>3, Numbering, BlockRange DEF NumFPs
  <2>5. (l - 1) * FpsPerLb \in Nat
    BY <2>1, <2>3
  <2> QED
    BY <2>2, <2>4, <2>5, Numbering DEF SelectFP, FPs
<1> QED
  BY <1>1, <1>2, Numbering DEF Dest

(* A thread about to push holds a packet, and pushes it to a queue further *)
(* down the pipeline.                                                      *)
LEMMA PushTarget ==
  ASSUME TypeOK, NEW t \in Thread, at[t] = "push"
  PROVE  /\ hand[t] \in Packet
         /\ t # Writer
         /\ Dest(t, hand[t]) \in Queue
         /\ t < Dest(t, hand[t])
         /\ t \in LBs => Dest(t, hand[t]) \in FPs
<1>1. hand[t] \in Packet
  BY DEF TypeOK, ThreadsOK
<1>2. t # Writer
  BY DEF TypeOK, ThreadsOK
<1> QED
  BY <1>1, <1>2, Routes, Numbering

----------------------------------------------------------------------------
(* The type invariant.                                                     *)

(* The initial state is well typed.                                        *)
LEMMA TypeInit == Init => TypeOK
<1> SUFFICES ASSUME Init PROVE TypeOK
  OBVIOUS
<1> USE Numbering
<1>1. /\ \A t \in Thread : at[t] = "off" /\ hand[t] = NoPacket
      /\ at \in [Thread -> Places] /\ hand \in [Thread -> Packet \cup {NoPacket}]
  BY DEF Init, Places
<1>2. queue \in [Queue -> Seq(Packet)] /\ file \in Seq(Packet)
  BY DEF Init
<1>3. /\ per_fp_counts_ \in [FPs -> Nat]
      /\ packets_processed_ \in [FPs -> Nat]
      /\ packets_dropped_ \in [FPs -> Nat]
  BY DEF Init
<1>4. run \in 0..Len(FileEnd)
  BY EngineAssumption DEF Init, EngineAssumption
<1>5. fate \in [Packet -> Fates] /\ shut \in [Queue -> BOOLEAN] /\ on \in [Worker -> BOOLEAN]
  BY DEF Init, Fates
<1>6. ControlOK
  <2>1. 0 \in 0 .. NumLBs + NumFPs
    OBVIOUS
  <2> QED
    BY <1>4, <2>1 DEF Init, ControlOK, Mains
<1>7. PhaseOK
  BY <1>1 DEF PhaseOK
<1>8. ThreadsOK
  BY <1>1, <1>5 DEF Init, ThreadsOK
<1>9. DataOK
  BY <1>2, <1>3, <1>5 DEF Init, DataOK
<1> QED
  BY <1>6, <1>7, <1>8, <1>9 DEF TypeOK

(* The number of the next call is the number of a file.                    *)
LEMMA RunLength == ASSUME TypeOK, run < Len(FileEnd) PROVE run + 1 \in 0..Len(FileEnd)
BY EngineAssumption DEF TypeOK, ControlOK, EngineAssumption

(* A thread that works on a packet or pushes it holds one.                 *)
LEMMA Holds ==
  ASSUME TypeOK, NEW t \in Thread, at[t] \in {"work", "push"}
  PROVE  hand[t] \in Packet
BY DEF TypeOK, ThreadsOK

(* The reader runs only while a file is processed.                         *)
LEMMA ReaderRuns ==
  ASSUME TypeOK, at[Reader] # "off"
  PROVE  main = "waiting" /\ run \in 1..Len(FileEnd)
<1>1. main = "waiting"
  BY Numbering DEF TypeOK, PhaseOK, Alive, ControlOK, Mains
<1>2. run # 0 /\ run \in 0..Len(FileEnd) /\ Len(FileEnd) \in Nat
  BY <1>1, EngineAssumption DEF TypeOK, ControlOK, EngineAssumption
<1> QED
  BY <1>1, <1>2

(* What the reader reads next is a packet unless it is skipped.            *)
LEMMA NextPacket ==
  ASSUME TypeOK, ReadPacket
  PROVE  next \in Packet
<1>1. run \in 1..Len(FileEnd)
  BY ReaderRuns DEF ReadPacket
<1>2. FileEnd[run] \in 0..Len(Capture)
  BY <1>1, EngineAssumption DEF EngineAssumption
<1> QED
  BY <1>2, EngineAssumption DEF ReadPacket, TypeOK, ThreadsOK, Packet, EngineAssumption

(* The first record of a file has a position.                              *)
LEMMA FirstPosition ==
  ASSUME TypeOK, at[Reader] = "open"
  PROVE  FirstRecord \in Nat \ {0}
<1>1. run \in 1..Len(FileEnd)
  BY ReaderRuns
<1> QED
  BY <1>1, EngineAssumption DEF FirstRecord, EngineAssumption

(* The variables of the calling thread.                                    *)
LEMMA ControlStep == TypeOK /\ [Next]_vars => ControlOK'
<1> SUFFICES ASSUME TypeOK, [Next]_vars PROVE ControlOK'
  OBVIOUS
<1> USE Numbering DEF control, counters, TypeOK, ControlOK
<1>1. CASE UNCHANGED vars
  BY <1>1 DEF vars
<1>2. CASE OpenOutputFails
  BY <1>2, RunLength DEF OpenOutputFails, Mains
<1>3. CASE Start
  <2>1. run + 1 \in 0..Len(FileEnd) /\ run + 1 # 0
    BY <1>3, RunLength, EngineAssumption DEF Start, EngineAssumption, ControlOK
  <2> QED
    BY <1>3, <2>1 DEF Start, Mains, ControlOK
<1>4. CASE StartFastPaths
  BY <1>4 DEF StartFastPaths, StartWorkers, Mains
<1>5. CASE StartLoadBalancers
  BY <1>5 DEF StartLoadBalancers, StartWorkers, Mains
<1>6. CASE StartReader
  BY <1>6 DEF StartReader, Mains
<1>7. CASE WaitForCompletion
  BY <1>7 DEF WaitForCompletion, Mains
<1>8. CASE StopRequest
  <2>1. 1 \in 0 .. NumLBs + NumFPs
    OBVIOUS
  <2>2. /\ main = "draining" /\ main' = "stop" /\ cursor' = 1 /\ running_' = FALSE
        /\ UNCHANGED <<run, processing_complete_>>
    BY <1>8 DEF StopRequest
  <2>3. ControlOK
    OBVIOUS
  <2>4. main' \in Mains /\ run' \in 0..Len(FileEnd) /\ main' # "idle" /\ run' # 0
    BY <2>2, <2>3 DEF Mains
  <2>5. cursor' \in 0 .. NumLBs + NumFPs /\ cursor' # 0
    BY <2>1, <2>2
  <2>6. running_' \in BOOLEAN /\ processing_complete_' \in BOOLEAN
    BY <2>2, <2>3
  <2> HIDE DEF TypeOK
  <2> QED
    BY <2>2, <2>4, <2>5, <2>6
<1>9. CASE StopWorker
  BY <1>9 DEF StopWorker, Mains
<1>10. CASE ShutWorkerQueue
  BY <1>10 DEF ShutWorkerQueue, Mains
<1>11. CASE JoinWorker
  BY <1>11 DEF JoinWorker, Mains, Worker
<1>12. CASE ShutOutputQueue
  BY <1>12 DEF ShutOutputQueue, Mains
<1>13. CASE JoinWriter
  BY <1>13 DEF JoinWriter, Mains
<1>14. CASE OpenInputFails
  BY <1>14 DEF OpenInputFails
<1>15. CASE OpenInput
  BY <1>15 DEF OpenInput
<1>16. CASE SkipRecord
  BY <1>16 DEF SkipRecord
<1>17. CASE ReadPacket
  BY <1>17 DEF ReadPacket
<1>18. CASE EndOfFile
  BY <1>18 DEF EndOfFile
<1>19. ASSUME NEW t \in Thread, Push(t) PROVE ControlOK'
  BY <1>19 DEF Push, Pushed
<1>20. ASSUME NEW t \in Thread, PushDiscards(t) PROVE ControlOK'
  BY <1>20 DEF PushDiscards, Pushed
<1>21. ASSUME NEW w \in Worker, CheckRunning(w) PROVE ControlOK'
  BY <1>21 DEF CheckRunning
<1>22. ASSUME NEW w \in Worker, TryPopFails(w) PROVE ControlOK'
  BY <1>22 DEF TryPopFails
<1>23. ASSUME NEW t \in Queue, Pop(t) PROVE ControlOK'
  BY <1>23 DEF Pop
<1>24. ASSUME NEW f \in FPs, Drop(f) PROVE ControlOK'
  BY <1>24 DEF Drop
<1>25. ASSUME NEW f \in FPs, Accept(f) PROVE ControlOK'
  BY <1>25 DEF Accept
<1>26. CASE WriterChecksRunning
  BY <1>26 DEF WriterChecksRunning
<1>27. CASE WriterChecksEmpty
  BY <1>27 DEF WriterChecksEmpty
<1>28. CASE WriterPopFails
  BY <1>28 DEF WriterPopFails
<1>29. CASE WritePacket
  BY <1>29 DEF WritePacket
<1>30. ASSUME NEW l \in LBs, CountDispatched(l) PROVE ControlOK'
  BY <1>30 DEF CountDispatched
<1> QED
  BY <1>1, <1>2, <1>3, <1>4, <1>5, <1>6, <1>7, <1>8, <1>9, <1>10, <1>11,
     <1>12, <1>13, <1>14, <1>15, <1>16, <1>17, <1>18, <1>19, <1>20, <1>21,
     <1>22, <1>23, <1>24, <1>25, <1>26, <1>27, <1>28, <1>29, <1>30
     DEF Next, MainStep, ReaderStep, WorkerStep, WriterStep, Finished

(* Only threads that were started and not yet joined run.                  *)
LEMMA PhaseStep == TypeOK /\ [Next]_vars => PhaseOK'
<1> SUFFICES ASSUME TypeOK, [Next]_vars PROVE PhaseOK'
  OBVIOUS
<1> USE Numbering DEF control, counters, TypeOK, PhaseOK, Alive
<1>1. CASE UNCHANGED vars
  BY <1>1 DEF vars
<1>2. CASE OpenOutputFails
  BY <1>2 DEF OpenOutputFails
<1>3. CASE Start
  BY <1>3 DEF Start
<1>4. CASE StartFastPaths
  BY <1>4 DEF StartFastPaths, StartWorkers
<1>5. CASE StartLoadBalancers
  BY <1>5 DEF StartLoadBalancers, StartWorkers
<1>6. CASE StartReader
  BY <1>6 DEF StartReader
<1>7. CASE WaitForCompletion
  BY <1>7 DEF WaitForCompletion
<1>8. CASE StopRequest
  <2>1. main' = "stop" /\ cursor' = 1 /\ main = "draining" /\ at' = at
    BY <1>8 DEF StopRequest
  <2>2. Alive = Queue
    BY <2>1
  <2>3. Alive' = {t \in Queue : t >= 1}
    BY <2>1
  <2>4. \A t \in Queue : t >= 1
    BY DEF Queue
  <2> QED
    BY <2>1, <2>2, <2>3, <2>4
<1>9. CASE StopWorker
  BY <1>9 DEF StopWorker
<1>10. CASE ShutWorkerQueue
  BY <1>10 DEF ShutWorkerQueue
<1>11. CASE JoinWorker
  <2>1. main = "join" /\ at[cursor] = "off" /\ at' = at
    BY <1>11 DEF JoinWorker
  <2>2. Alive = {t \in Queue : t >= cursor} /\ cursor \in Nat
    BY <2>1 DEF ControlOK
  <2>3. CASE cursor + 1 \in Worker
    <3>1. Alive' = {t \in Queue : t >= cursor + 1}
      BY <1>11, <2>3 DEF JoinWorker
    <3> QED
      BY <2>1, <2>2, <3>1
  <2>4. CASE cursor + 1 \notin Worker
    <3>1. Alive' = {Writer}
      BY <1>11, <2>4 DEF JoinWorker
    <3>2. \A t \in Worker : t > cursor => FALSE
      BY <2>2, <2>4 DEF Worker
    <3> QED
      BY <2>1, <2>2, <3>1, <3>2
  <2> QED
    BY <2>3, <2>4
<1>12. CASE ShutOutputQueue
  BY <1>12 DEF ShutOutputQueue
<1>13. CASE JoinWriter
  BY <1>13 DEF JoinWriter
<1>14. CASE OpenInputFails
  BY <1>14 DEF OpenInputFails
<1>15. CASE OpenInput
  BY <1>15 DEF OpenInput
<1>16. CASE SkipRecord
  BY <1>16 DEF SkipRecord
<1>17. CASE ReadPacket
  BY <1>17 DEF ReadPacket
<1>18. CASE EndOfFile
  BY <1>18 DEF EndOfFile
<1>19. ASSUME NEW t \in Thread, Push(t) PROVE PhaseOK'
  BY <1>19 DEF Push, Pushed
<1>20. ASSUME NEW t \in Thread, PushDiscards(t) PROVE PhaseOK'
  BY <1>20 DEF PushDiscards, Pushed
<1>21. ASSUME NEW w \in Worker, CheckRunning(w) PROVE PhaseOK'
  BY <1>21 DEF CheckRunning
<1>22. ASSUME NEW w \in Worker, TryPopFails(w) PROVE PhaseOK'
  BY <1>22 DEF TryPopFails
<1>23. ASSUME NEW t \in Queue, Pop(t) PROVE PhaseOK'
  BY <1>23 DEF Pop
<1>24. ASSUME NEW f \in FPs, Drop(f) PROVE PhaseOK'
  BY <1>24 DEF Drop
<1>25. ASSUME NEW f \in FPs, Accept(f) PROVE PhaseOK'
  BY <1>25 DEF Accept
<1>26. CASE WriterChecksRunning
  BY <1>26 DEF WriterChecksRunning
<1>27. CASE WriterChecksEmpty
  BY <1>27 DEF WriterChecksEmpty
<1>28. CASE WriterPopFails
  BY <1>28 DEF WriterPopFails
<1>29. CASE WritePacket
  BY <1>29 DEF WritePacket
<1>30. ASSUME NEW l \in LBs, CountDispatched(l) PROVE PhaseOK'
  BY <1>30 DEF CountDispatched
<1> QED
  BY <1>1, <1>2, <1>3, <1>4, <1>5, <1>6, <1>7, <1>8, <1>9, <1>10, <1>11,
     <1>12, <1>13, <1>14, <1>15, <1>16, <1>17, <1>18, <1>19, <1>20, <1>21,
     <1>22, <1>23, <1>24, <1>25, <1>26, <1>27, <1>28, <1>29, <1>30
     DEF Next, MainStep, ReaderStep, WorkerStep, WriterStep, Finished

(* The variables of the threads.                                           *)
LEMMA ThreadsStep == TypeOK /\ [Next]_vars => ThreadsOK'
<1> SUFFICES ASSUME TypeOK, [Next]_vars PROVE ThreadsOK'
  OBVIOUS
<1> USE Numbering DEF control, counters, TypeOK, ThreadsOK
<1>0. ASSUME NEW t \in Thread, NEW q, at[t] = "push", Pushed(t, q), t # Writer,
             t \in LBs => q \in FPs
      PROVE  ThreadsOK'
  <2>1. /\ hand' = [hand EXCEPT ![t] = NoPacket] /\ UNCHANGED <<on, next>>
        /\ at' = [at EXCEPT ![t] = IF t \in LBs THEN "count" ELSE "check"]
        /\ fp_index' = IF t \in LBs THEN [fp_index EXCEPT ![t] = q] ELSE fp_index
    BY <1>0 DEF Pushed
  <2>2. t \in LBs => q # NoIndex
    BY <1>0 DEF NoIndex
  <2>3. fp_index' \in [LBs -> FPs \cup {NoIndex}]
    BY <1>0, <2>1
  <2>4. \A l \in LBs : at'[l] = "count" <=> fp_index'[l] # NoIndex
    BY <1>0, <2>1, <2>2
  <2>5. /\ at' \in [Thread -> Places] /\ hand' \in [Thread -> Packet \cup {NoPacket}]
        /\ \A u \in Thread : at'[u] \in {"work", "push"} <=> hand'[u] # NoPacket
    BY <2>1 DEF Places
  <2>6. /\ at'[Reader] \in {"off", "open", "check", "push"}
        /\ \A l \in LBs : at'[l] \in {"off", "check", "pop", "push", "count"}
        /\ \A f \in FPs : at'[f] \in {"off", "check", "pop", "work", "push"}
        /\ at'[Writer] \in {"off", "check", "checkEmpty", "pop", "work"}
    BY <1>0, <2>1
  <2> QED
    BY <2>1, <2>3, <2>4, <2>5, <2>6
<1>1. CASE UNCHANGED vars
  BY <1>1 DEF vars
<1>2. CASE OpenOutputFails
  BY <1>2 DEF OpenOutputFails
<1>3. CASE Start
  BY <1>3 DEF Start, Places, PhaseOK, Alive
<1>4. CASE StartFastPaths
  BY <1>4 DEF StartFastPaths, StartWorkers, Places, PhaseOK, Alive
<1>5. CASE StartLoadBalancers
  BY <1>5 DEF StartLoadBalancers, StartWorkers, Places, PhaseOK, Alive
<1>6. CASE StartReader
  BY <1>6 DEF StartReader, Places, PhaseOK, Alive
<1>7. CASE WaitForCompletion
  BY <1>7 DEF WaitForCompletion
<1>8. CASE StopRequest
  BY <1>8 DEF StopRequest
<1>9. CASE StopWorker
  BY <1>9 DEF StopWorker
<1>10. CASE ShutWorkerQueue
  BY <1>10 DEF ShutWorkerQueue
<1>11. CASE JoinWorker
  BY <1>11 DEF JoinWorker
<1>12. CASE ShutOutputQueue
  BY <1>12 DEF ShutOutputQueue
<1>13. CASE JoinWriter
  BY <1>13 DEF JoinWriter
<1>14. CASE OpenInputFails
  BY <1>14 DEF OpenInputFails, Places
<1>15. CASE OpenInput
  BY <1>15, FirstPosition DEF OpenInput, Places
<1>16. CASE SkipRecord
  BY <1>16 DEF SkipRecord
<1>17. CASE ReadPacket
  BY <1>17, NextPacket DEF ReadPacket, Places, NoPacket
<1>18. CASE EndOfFile
  BY <1>18 DEF EndOfFile, Places
<1>19. ASSUME NEW t \in Thread, Push(t) PROVE ThreadsOK'
  BY <1>0, <1>19, PushTarget DEF Push
<1>20. ASSUME NEW t \in Thread, PushDiscards(t) PROVE ThreadsOK'
  BY <1>0, <1>20, PushTarget DEF PushDiscards
<1>21. ASSUME NEW w \in Worker, CheckRunning(w) PROVE ThreadsOK'
  BY <1>21 DEF CheckRunning, Places
<1>22. ASSUME NEW w \in Worker, TryPopFails(w) PROVE ThreadsOK'
  BY <1>22 DEF TryPopFails, Places
<1>23. ASSUME NEW t \in Queue, Pop(t) PROVE ThreadsOK'
  <2>1. Head(queue[t]) \in Packet
    BY <1>23 DEF Pop, DataOK
  <2>2. NoPacket \notin Packet
    BY PacketHash DEF NoPacket
  <2> QED
    BY <1>23, <2>1, <2>2 DEF Pop, Places
<1>24. ASSUME NEW f \in FPs, Drop(f) PROVE ThreadsOK'
  BY <1>24 DEF Drop, Places
<1>25. ASSUME NEW f \in FPs, Accept(f) PROVE ThreadsOK'
  BY <1>25 DEF Accept, Places
<1>26. CASE WriterChecksRunning
  BY <1>26 DEF WriterChecksRunning, Places
<1>27. CASE WriterChecksEmpty
  BY <1>27 DEF WriterChecksEmpty, Places
<1>28. CASE WriterPopFails
  BY <1>28 DEF WriterPopFails, Places
<1>29. CASE WritePacket
  BY <1>29 DEF WritePacket, Places
<1>30. ASSUME NEW l \in LBs, CountDispatched(l) PROVE ThreadsOK'
  BY <1>30 DEF CountDispatched, Places, NoIndex
<1> QED
  BY <1>1, <1>2, <1>3, <1>4, <1>5, <1>6, <1>7, <1>8, <1>9, <1>10, <1>11,
     <1>12, <1>13, <1>14, <1>15, <1>16, <1>17, <1>18, <1>19, <1>20, <1>21,
     <1>22, <1>23, <1>24, <1>25, <1>26, <1>27, <1>28, <1>29, <1>30
     DEF Next, MainStep, ReaderStep, WorkerStep, WriterStep, Finished

(* The queues, the output file, the counters and the fates.                *)
LEMMA DataStep == TypeOK /\ [Next]_vars => DataOK'
<1> SUFFICES ASSUME TypeOK, [Next]_vars PROVE DataOK'
  OBVIOUS
<1> USE Numbering DEF control, counters, TypeOK, DataOK
<1>0. <<>> \in Seq(Packet)
  OBVIOUS
<1>1. CASE UNCHANGED vars
  BY <1>1 DEF vars
<1>2. CASE OpenOutputFails
  BY <1>0, <1>2 DEF OpenOutputFails
<1>3. CASE Start
  BY <1>0, <1>3 DEF Start
<1>4. CASE StartFastPaths
  BY <1>4 DEF StartFastPaths, StartWorkers
<1>5. CASE StartLoadBalancers
  BY <1>5 DEF StartLoadBalancers, StartWorkers
<1>6. CASE StartReader
  BY <1>6 DEF StartReader
<1>7. CASE WaitForCompletion
  BY <1>7 DEF WaitForCompletion
<1>8. CASE StopRequest
  BY <1>8 DEF StopRequest
<1>9. CASE StopWorker
  BY <1>9 DEF StopWorker
<1>10. CASE ShutWorkerQueue
  BY <1>10 DEF ShutWorkerQueue
<1>11. CASE JoinWorker
  BY <1>11 DEF JoinWorker
<1>12. CASE ShutOutputQueue
  BY <1>12 DEF ShutOutputQueue
<1>13. CASE JoinWriter
  BY <1>13 DEF JoinWriter
<1>14. CASE OpenInputFails
  BY <1>14 DEF OpenInputFails
<1>15. CASE OpenInput
  BY <1>15 DEF OpenInput
<1>16. CASE SkipRecord
  BY <1>16 DEF SkipRecord
<1>17. CASE ReadPacket
  BY <1>17, NextPacket DEF ReadPacket, Fates
<1>18. CASE EndOfFile
  BY <1>18 DEF EndOfFile
<1>19. ASSUME NEW t \in Thread, Push(t) PROVE DataOK'
  <2> DEFINE q == Dest(t, hand[t])
  <2>1. hand[t] \in Packet /\ q \in Queue
    BY <1>19, PushTarget DEF Push
  <2>2. queue' \in [Queue -> Seq(Packet)]
    <3>1. queue[q] \in Seq(Packet)
      BY <2>1
    <3>2. Append(queue[q], hand[t]) \in Seq(Packet)
      BY <2>1, <3>1
    <3>3. queue' = [queue EXCEPT ![q] = Append(queue[q], hand[t])]
      BY <1>19 DEF Push
    <3> QED
      BY <2>1, <3>2, <3>3
  <2> QED
    BY <1>19, <2>2 DEF Push, Pushed
<1>20. ASSUME NEW t \in Thread, PushDiscards(t) PROVE DataOK'
  <2> DEFINE q == Dest(t, hand[t])
  <2>1. hand[t] \in Packet /\ q \in Queue
    BY <1>20, PushTarget DEF PushDiscards
  <2>2. fate' \in [Packet -> Fates]
    BY <1>20, <2>1 DEF PushDiscards, Fates
  <2> QED
    BY <1>20, <2>2 DEF PushDiscards, Pushed
<1>21. ASSUME NEW w \in Worker, CheckRunning(w) PROVE DataOK'
  BY <1>21 DEF CheckRunning
<1>22. ASSUME NEW w \in Worker, TryPopFails(w) PROVE DataOK'
  BY <1>22 DEF TryPopFails
<1>23. ASSUME NEW t \in Queue, Pop(t) PROVE DataOK'
  BY <1>23 DEF Pop
<1>24. ASSUME NEW f \in FPs, Drop(f) PROVE DataOK'
  <2>1. f \in Thread /\ hand[f] \in Packet
    BY <1>24, Holds DEF Drop
  <2> QED
    BY <1>24, <2>1 DEF Drop, Fates
<1>25. ASSUME NEW f \in FPs, Accept(f) PROVE DataOK'
  <2>1. f \in Thread /\ hand[f] \in Packet
    BY <1>25, Holds DEF Accept
  <2> QED
    BY <1>25, <2>1 DEF Accept, Fates
<1>26. CASE WriterChecksRunning
  BY <1>26 DEF WriterChecksRunning
<1>27. CASE WriterChecksEmpty
  BY <1>27 DEF WriterChecksEmpty
<1>28. CASE WriterPopFails
  BY <1>28 DEF WriterPopFails
<1>29. CASE WritePacket
  <2>1. hand[Writer] \in Packet
    BY <1>29, Holds DEF WritePacket
  <2>2. file' \in Seq(Packet)
    BY <1>29, <2>1 DEF WritePacket
  <2> QED
    BY <1>29, <2>1, <2>2 DEF WritePacket, Fates
<1>30. ASSUME NEW l \in LBs, CountDispatched(l) PROVE DataOK'
  <2>1. fp_index[l] \in FPs
    BY <1>30 DEF CountDispatched, ThreadsOK
  <2> QED
    BY <1>30, <2>1 DEF CountDispatched
<1> QED
  BY <1>1, <1>2, <1>3, <1>4, <1>5, <1>6, <1>7, <1>8, <1>9, <1>10, <1>11,
     <1>12, <1>13, <1>14, <1>15, <1>16, <1>17, <1>18, <1>19, <1>20, <1>21,
     <1>22, <1>23, <1>24, <1>25, <1>26, <1>27, <1>28, <1>29, <1>30
     DEF Next, MainStep, ReaderStep, WorkerStep, WriterStep, Finished

(* The state of the engine has its types in every reachable state.         *)
THEOREM TypeCorrect == Spec => []TypeOK
<1>1. TypeOK /\ [Next]_vars => TypeOK'
  BY ControlStep, PhaseStep, ThreadsStep, DataStep DEF TypeOK
<1> QED
  BY TypeInit, <1>1, PTL DEF Spec

----------------------------------------------------------------------------
(* The staged shutdown.                                                    *)

(* During the first call, a queue is shut down once stopAll has come to    *)
(* its owner, and the output queue last of all.                            *)
ShutInOrder ==
  run <= 1 => \A q \in Queue : shut[q] =>
    \/ main = "idle" /\ run = 1
    \/ main \in {"stop", "shut"} /\ q < cursor
    \/ main = "join" /\ q <= cursor
    \/ main = "shutOutput" /\ q \in Worker
    \/ main = "joinWriter"

(* stopAll never shuts a queue down before its turn.                       *)
LEMMA ShutStep == TypeOK /\ TypeOK' /\ ShutInOrder /\ [Next]_vars => ShutInOrder'
<1> SUFFICES ASSUME TypeOK, TypeOK', ShutInOrder, [Next]_vars PROVE ShutInOrder'
  OBVIOUS
<1> USE Numbering DEF ShutInOrder, control
<1>0. run \in Nat /\ cursor \in 0 .. NumLBs + NumFPs /\ shut \in [Queue -> BOOLEAN]
  BY EngineAssumption DEF TypeOK, ControlOK, DataOK, EngineAssumption
<1>1. CASE UNCHANGED <<main, run, cursor, shut>>
  BY <1>1
<1>2. CASE OpenOutputFails \/ Start
  <2>1. main = "idle" /\ run' = run + 1 /\ shut' = shut
    BY <1>2 DEF OpenOutputFails, Start
  <2> QED
    BY <1>0, <2>1
<1>3. CASE \/ StartFastPaths \/ StartLoadBalancers \/ StartReader
           \/ WaitForCompletion \/ StopRequest
  <2>1. /\ main \in {"startFPs", "startLBs", "startReader", "waiting", "draining"}
        /\ run' = run /\ shut' = shut
    BY <1>3 DEF StartFastPaths, StartLoadBalancers, StartWorkers, StartReader,
       WaitForCompletion, StopRequest
  <2> QED
    BY <1>0, <2>1
<1>4. CASE StopWorker
  BY <1>4 DEF StopWorker
<1>5. CASE ShutWorkerQueue
  BY <1>0, <1>5 DEF ShutWorkerQueue
<1>6. CASE JoinWorker
  <2>1. /\ main = "join" /\ run' = run /\ shut' = shut
        /\ \/ cursor' = cursor + 1 /\ main' = "stop"
           \/ main' = "shutOutput" /\ cursor + 1 \notin Worker
    BY <1>6 DEF JoinWorker
  <2>2. \A q \in Queue : q <= cursor => q \in Worker
    BY <1>0 DEF Queue, Worker
  <2> QED
    BY <1>0, <2>1, <2>2
<1>7. CASE ShutOutputQueue
  BY <1>7 DEF ShutOutputQueue
<1>8. CASE JoinWriter
  <2>1. main = "joinWriter" /\ run # 0
    BY <1>8 DEF JoinWriter, TypeOK, ControlOK
  <2> QED
    BY <1>0, <1>8, <2>1 DEF JoinWriter
<1>9. CASE ReaderStep \/ WriterStep \/ \E w \in Worker : WorkerStep(w)
  <2>1. UNCHANGED <<main, run, cursor, shut>>
    BY <1>9 DEF ReaderStep, WriterStep, WorkerStep, OpenInputFails, OpenInput,
       SkipRecord, ReadPacket, EndOfFile, Push, PushDiscards, Pushed, CountDispatched,
       CheckRunning, TryPopFails, Pop, Drop, Accept, WriterChecksRunning,
       WriterChecksEmpty, WriterPopFails, WritePacket
  <2> QED
    BY <1>1, <2>1
<1> QED
  BY <1>1, <1>2, <1>3, <1>4, <1>5, <1>6, <1>7, <1>8, <1>9
     DEF Next, MainStep, Finished, vars

(* No packet is thrown away by a push to a queue that stop has shut down,  *)
(* for any number of load balancers and fast paths.                        *)
THEOREM NoPushIntoShutQueue == Spec => []StagedShutdown
<1>1. Init => ShutInOrder
  BY DEF Init, ShutInOrder
<1>2. TypeOK /\ ShutInOrder => StagedShutdown
  <2> SUFFICES ASSUME TypeOK, ShutInOrder, run <= 1,
                      NEW t \in Thread, at[t] = "push", shut[Dest(t, hand[t])]
               PROVE  FALSE
    BY DEF StagedShutdown
  <2> DEFINE q == Dest(t, hand[t])
  <2>1. q \in Queue /\ t < q /\ t # Writer /\ t \in Nat /\ q \in Nat
    BY PushTarget, Numbering
  <2>2. t \in Alive
    BY DEF TypeOK, PhaseOK
  <2>3. cursor \in Nat
    BY Numbering DEF TypeOK, ControlOK
  <2> HIDE DEF q
  <2>4. \/ main = "idle"
        \/ main \in {"stop", "shut"} /\ q < cursor
        \/ main = "join" /\ q <= cursor
        \/ main \in {"shutOutput", "joinWriter"}
    BY <2>1 DEF ShutInOrder, q
  <2>5. CASE main \in {"stop", "shut", "join"}
    BY <2>1, <2>2, <2>3, <2>4, <2>5 DEF Alive
  <2>6. CASE main \in {"idle", "shutOutput", "joinWriter"}
    BY <2>1, <2>2, <2>6 DEF Alive
  <2> QED
    BY <2>4, <2>5, <2>6
<1> QED
  BY <1>1, <1>2, ShutStep, TypeCorrect, PTL DEF Spec

----------------------------------------------------------------------------
(* The order of a flow.                                                    *)

(* A step that moves no packet, changes no fate and writes nothing.        *)
Still ==
  /\ UNCHANGED <<hand, queue, fate>>
  /\ file' = file \/ file' = <<>>
  /\ \A t \in Thread : at'[t] = "push" <=> at[t] = "push"

Moves ==
  \/ ReadPacket
  \/ \E t \in Thread : Push(t) \/ PushDiscards(t)
  \/ \E t \in Queue : Pop(t)
  \/ \E f \in FPs : Drop(f) \/ Accept(f)
  \/ WritePacket

(* Only the reader's read, the pushes, the pops, the verdicts and the      *)
(* writer's write matter to the order of the packets.                      *)
LEMMA MovesOrStill == TypeOK /\ TypeOK' /\ [Next]_vars => Moves \/ Still
<1> SUFFICES ASSUME TypeOK, TypeOK', [Next]_vars, ~Moves PROVE Still
  OBVIOUS
<1> USE Numbering DEF Still
<1>1. CASE UNCHANGED vars
  BY <1>1 DEF vars
<1>2. CASE \/ OpenOutputFails \/ WaitForCompletion \/ StopRequest \/ StopWorker
           \/ ShutWorkerQueue \/ JoinWorker \/ ShutOutputQueue \/ JoinWriter
           \/ SkipRecord \/ Finished
  BY <1>2 DEF OpenOutputFails, WaitForCompletion, StopRequest, StopWorker,
     ShutWorkerQueue, JoinWorker, ShutOutputQueue, JoinWriter, SkipRecord,
     Finished, vars
<1>3. CASE Start \/ StartReader \/ OpenInputFails \/ OpenInput \/ EndOfFile
           \/ WriterChecksRunning \/ WriterChecksEmpty \/ WriterPopFails
  <2>1. /\ UNCHANGED <<hand, queue, fate>>
        /\ file' = file \/ file' = <<>>
        /\ \A t \in Thread : t # Reader /\ t # Writer => at'[t] = at[t]
        /\ at[Writer] # "push" /\ at'[Writer] # "push"
        /\ at'[Reader] # at[Reader] => at[Reader] # "push" /\ at'[Reader] # "push"
    BY <1>3 DEF Start, StartReader, OpenInputFails, OpenInput, EndOfFile,
       WriterChecksRunning, WriterChecksEmpty, WriterPopFails, TypeOK, ThreadsOK,
       PhaseOK, Alive
  <2> QED
    BY <2>1
<1>4. CASE StartFastPaths
  BY <1>4 DEF StartFastPaths, StartWorkers, TypeOK, ThreadsOK, PhaseOK, Alive
<1>5. CASE StartLoadBalancers
  BY <1>5 DEF StartLoadBalancers, StartWorkers, TypeOK, ThreadsOK, PhaseOK, Alive
<1>6. ASSUME NEW w \in Worker, CheckRunning(w) \/ TryPopFails(w) PROVE Still
  BY <1>6 DEF CheckRunning, TryPopFails, TypeOK, ThreadsOK
<1>7. ASSUME NEW l \in LBs, CountDispatched(l) PROVE Still
  BY <1>7 DEF CountDispatched, TypeOK, ThreadsOK
<1> QED
  BY <1>1, <1>2, <1>3, <1>4, <1>5, <1>6, <1>7
     DEF Next, MainStep, ReaderStep, WorkerStep, WriterStep, Moves

(* How each move changes where the packets are.                            *)

(* Nothing moves if no hand and no queue changes.                          *)
LEMMA AtStill ==
  ASSUME UNCHANGED <<hand, queue>>, NEW t \in Thread
  PROVE  At(t)' = At(t)
BY DEF At

(* The packet that is read comes into the hand of the reader.              *)
LEMMA AtRead ==
  ASSUME TypeOK, ReadPacket, NEW t \in Thread, NEW x \in At(t)'
  PROVE  x \in At(t) \/ (t = Reader /\ x = next)
BY Numbering DEF At, ReadPacket, TypeOK, ThreadsOK

(* The head of the queue moves to the hand of the thread that pops.        *)
LEMMA AtPop ==
  ASSUME TypeOK, NEW t \in Queue, Pop(t), NEW u \in Thread
  PROVE  At(u)' \subseteq At(u)
<1> USE Numbering
<1>1. queue[t] \in Seq(Packet) /\ queue[t] # <<>>
  BY DEF TypeOK, DataOK, Pop
<1>2. \A k \in DOMAIN Tail(queue[t]) : k + 1 \in DOMAIN queue[t] /\ Tail(queue[t])[k] = queue[t][k + 1]
  BY <1>1
<1>3. 1 \in DOMAIN queue[t] /\ Head(queue[t]) = queue[t][1]
  BY <1>1
<1>4. hand' = [hand EXCEPT ![t] = Head(queue[t])] /\ queue' = [queue EXCEPT ![t] = Tail(queue[t])]
  BY DEF Pop
<1>5. ASSUME NEW x \in At(u)', u # t PROVE x \in At(u)
  BY <1>4, <1>5 DEF At, TypeOK, ThreadsOK, DataOK
<1>6. ASSUME NEW x \in At(u)', u = t PROVE x \in At(u)
  <2>1. x \in Packet /\ (x = Head(queue[t]) \/ \E k \in DOMAIN Tail(queue[t]) : Tail(queue[t])[k] = x)
    BY <1>4, <1>6 DEF At, TypeOK, ThreadsOK, DataOK
  <2> QED
    BY <1>2, <1>3, <1>6, <2>1 DEF At
<1> QED
  BY <1>5, <1>6

(* The pushed packet goes from a hand to the end of a queue.               *)
LEMMA AtPush ==
  ASSUME TypeOK, NEW t \in Thread, Push(t)
  PROVE  LET q == Dest(t, hand[t])
         IN  /\ \A u \in Thread : \A x \in At(u)' :
                  x \in At(u) \/ (u = q /\ x = hand[t])
             /\ \A x \in At(t)' : t \in Queue /\ \E k \in DOMAIN queue[t] : queue[t][k] = x
             /\ queue[q] \in Seq(Packet)
             /\ queue'[q] = Append(queue[q], hand[t])
             /\ \A u \in Queue \ {q} : queue'[u] = queue[u]
<1> DEFINE q == Dest(t, hand[t])
<1> USE Numbering
<1>1. hand[t] \in Packet /\ q \in Queue /\ t < q /\ t # q
  BY PushTarget DEF Push
<1>2. queue' = [queue EXCEPT ![q] = Append(queue[q], hand[t])] /\ hand' = [hand EXCEPT ![t] = NoPacket]
  BY DEF Push, Pushed
<1> HIDE DEF q
<1>3. queue[q] \in Seq(Packet)
  BY <1>1 DEF TypeOK, DataOK
<1>4. \A k \in DOMAIN Append(queue[q], hand[t]) :
        \/ k \in DOMAIN queue[q] /\ Append(queue[q], hand[t])[k] = queue[q][k]
        \/ Append(queue[q], hand[t])[k] = hand[t]
  BY <1>1, <1>3
<1>5. NoPacket \notin Packet
  BY PacketHash DEF NoPacket
<1>6. queue'[q] = Append(queue[q], hand[t]) /\ \A u \in Queue \ {q} : queue'[u] = queue[u]
  BY <1>1, <1>2 DEF TypeOK, DataOK
<1>7. ASSUME NEW u \in Thread, NEW x \in At(u)' PROVE x \in At(u) \/ (u = q /\ x = hand[t])
  <2>1. hand'[u] = x => hand[u] = x
    BY <1>2, <1>5, <1>7 DEF At, TypeOK, ThreadsOK
  <2>2. CASE u = q
    BY <1>4, <1>6, <1>7, <2>1, <2>2 DEF At
  <2>3. CASE u # q
    BY <1>6, <1>7, <2>1, <2>3 DEF At
  <2> QED
    BY <2>2, <2>3
<1>8. ASSUME NEW x \in At(t)' PROVE t \in Queue /\ \E k \in DOMAIN queue[t] : queue[t][k] = x
  <2>1. hand'[t] # x
    BY <1>2, <1>5, <1>8 DEF At, TypeOK, ThreadsOK
  <2> QED
    BY <1>1, <1>6, <1>8, <2>1 DEF At
<1> QED
  BY <1>3, <1>6, <1>7, <1>8 DEF q

(* A thread gives up the packet it holds and nothing else changes place.   *)
LEMMA AtRelease ==
  ASSUME TypeOK, NEW t \in Thread, hand[t] \in Packet,
         hand' = [hand EXCEPT ![t] = NoPacket], queue' = queue
  PROVE  /\ \A u \in Thread : At(u)' \subseteq At(u)
         /\ \A x \in At(t)' : t \in Queue /\ \E k \in DOMAIN queue[t] : queue[t][k] = x
<1>1. NoPacket \notin Packet
  BY PacketHash DEF NoPacket
<1> QED
  BY <1>1 DEF At, TypeOK, ThreadsOK

(* No packet of p's flow is between a thread that pushes p and the queue   *)
(* it pushes it to.                                                        *)
LEMMA NothingBetween ==
  ASSUME TypeOK, Lanes, NEW t \in Thread, at[t] = "push",
         NEW u \in Thread, t < u, u < Dest(t, hand[t]),
         NEW x \in At(u), SameFlow(x, hand[t])
  PROVE  FALSE
<1> DEFINE p == hand[t]
<1>1. p \in Packet /\ x \in Packet /\ p \in At(t) /\ t # Writer
  BY PushTarget DEF At
<1>2. LBForPacket(x) = LBForPacket(p) /\ \A l \in LBs : SelectFP(l, x) = SelectFP(l, p)
  BY DEF SameFlow, LBForPacket, SelectFP
<1> HIDE DEF p
<1>3. u \in Worker
  BY <1>1, Routes, Numbering DEF p, Worker, Thread, Queue, Writer, Reader, LBs, FPs
<1>4. /\ u \in LBs => u = LBForPacket(p)
      /\ u \in FPs => u = SelectFP(LBForPacket(p), p)
  BY <1>1, <1>2, Routes DEF Lanes
<1>5. /\ t \in LBs => t = LBForPacket(p)
      /\ t \in FPs => t = SelectFP(LBForPacket(p), p)
  BY <1>1 DEF Lanes
<1>6. CASE t = Reader
  <2>1. u < LBForPacket(p) /\ LBForPacket(p) \in LBs
    BY <1>1, <1>6, Routes DEF p
  <2>2. u \in LBs
    BY <1>3, <2>1, Numbering DEF LBs, Worker
  <2> QED
    BY <1>4, <2>1, <2>2, Numbering
<1>7. CASE t \in LBs
  BY <1>1, <1>3, <1>4, <1>5, <1>7, Routes, Numbering DEF p
<1>8. CASE t \in FPs
  BY <1>1, <1>3, <1>4, <1>5, <1>8, Routes, Numbering DEF p
<1> QED
  BY <1>1, <1>6, <1>7, <1>8, Numbering

(* The packet in a hand is nowhere else in the pipeline, and no packet of  *)
(* its flow further down comes later, none further up comes earlier.       *)
LEMMA InHand ==
  ASSUME TypeOK, InOrder, NEW t \in Thread, hand[t] \in Packet
  PROVE  /\ hand[t] \in At(t)
         /\ \A u \in Thread : \A x \in At(u) : SameFlow(x, hand[t]) =>
              /\ u < t => hand[t] < x
              /\ t < u => x < hand[t]
              /\ u # t => x # hand[t]
         /\ t \in Queue => \A k \in DOMAIN queue[t] : SameFlow(queue[t][k], hand[t]) =>
              hand[t] < queue[t][k]
         /\ \A u \in Thread \ {t} : hand[u] # hand[t]
         /\ \A u \in Queue : \A k \in DOMAIN queue[u] : queue[u][k] # hand[t]
<1>1. hand[t] \in At(t) /\ hand[t] \in Nat /\ hand[t] # NoPacket
  BY PacketHash DEF At, NoPacket
<1>2. ASSUME NEW u \in Thread, NEW x \in At(u), SameFlow(x, hand[t])
      PROVE  /\ u < t => hand[t] < x
             /\ t < u => x < hand[t]
             /\ u # t => x # hand[t]
  <2>1. x \in Nat /\ u \in Nat /\ t \in Nat
    BY PacketHash, Numbering DEF At
  <2>2. SameFlow(hand[t], x)
    BY <1>2 DEF SameFlow
  <2> QED
    BY <1>1, <1>2, <2>1, <2>2 DEF InOrder
<1>3. t \in Queue => \A k \in DOMAIN queue[t] : SameFlow(queue[t][k], hand[t]) => hand[t] < queue[t][k]
  BY <1>1 DEF InOrder, SameFlow
<1>4. SameFlow(hand[t], hand[t])
  BY DEF SameFlow
<1>5. ASSUME NEW u \in Thread \ {t} PROVE hand[u] # hand[t]
  <2>1. hand[u] = hand[t] => hand[t] \in At(u)
    BY <1>1 DEF At
  <2> QED
    BY <1>2, <1>4, <1>5, <2>1
<1>6. ASSUME NEW u \in Queue, NEW k \in DOMAIN queue[u] PROVE queue[u][k] # hand[t]
  <2>1. queue[u][k] = hand[t] => hand[t] \in At(u)
    BY <1>1 DEF At
  <2>2. u \in Thread
    BY Numbering
  <2> QED
    BY <1>1, <1>2, <1>3, <1>4, <1>6, <2>1, <2>2
<1> QED
  BY <1>1, <1>2, <1>3, <1>5, <1>6

(* The routes do not change, so only where the packets are matters.        *)
LEMMA LanesPrime ==
  ASSUME \A t \in Thread : \A p \in At(t)' :
           /\ t \in LBs => t = LBForPacket(p)
           /\ t \in FPs => t = SelectFP(LBForPacket(p), p)
  PROVE  Lanes'
BY Zenon DEF Lanes, LBForPacket, SelectFP

(* A packet stays in its lane.                                             *)
LEMMA LanesStep == TypeOK /\ TypeOK' /\ PipelineOrder /\ [Next]_vars => Lanes'
<1> SUFFICES ASSUME TypeOK, TypeOK', PipelineOrder, [Next]_vars PROVE Lanes'
  OBVIOUS
<1> USE Numbering
<1>1. \A t \in Thread : \A p \in At(t) :
        /\ t \in LBs => t = LBForPacket(p)
        /\ t \in FPs => t = SelectFP(LBForPacket(p), p)
  BY DEF PipelineOrder, Lanes
<1>2. ASSUME \A t \in Thread : At(t)' \subseteq At(t) PROVE Lanes'
  BY <1>1, <1>2, LanesPrime
<1>3. CASE Still
  BY <1>2, <1>3, AtStill DEF Still
<1>4. CASE ReadPacket
  BY <1>1, <1>4, AtRead, LanesPrime
<1>5. ASSUME NEW t \in Thread, Push(t) PROVE Lanes'
  <2> DEFINE p == hand[t]  q == Dest(t, p)
  <2>1. p \in Packet /\ p \in At(t) /\ t # Writer
    BY <1>5, PushTarget DEF Push, At
  <2>2. \A u \in Thread : \A x \in At(u)' : x \in At(u) \/ (u = q /\ x = p)
    BY <1>5, AtPush
  <2> HIDE DEF p
  <2>3. /\ q \in LBs => q = LBForPacket(p)
        /\ q \in FPs => q = SelectFP(LBForPacket(p), p)
    <3>1. CASE t = Reader
      BY <2>1, <3>1, Routes
    <3>2. CASE t \in LBs
      <4>1. t = LBForPacket(p) /\ Dest(t, p) = SelectFP(t, p) /\ SelectFP(t, p) \in FPs
        BY <1>1, <2>1, <3>2, Routes
      <4>2. q = SelectFP(LBForPacket(p), p) /\ q \in FPs
        BY <4>1
      <4> QED
        BY <4>2
    <3>3. CASE t \in FPs
      BY <2>1, <3>3, Routes
    <3> QED
      BY <2>1, <3>1, <3>2, <3>3
  <2> HIDE DEF q
  <2> QED
    BY <1>1, <2>2, <2>3, LanesPrime
<1>6. ASSUME NEW t \in Thread, PushDiscards(t) PROVE Lanes'
  BY <1>2, <1>6, PushTarget, AtRelease DEF PushDiscards, Pushed
<1>7. ASSUME NEW t \in Queue, Pop(t) PROVE Lanes'
  BY <1>2, <1>7, AtPop
<1>8. ASSUME NEW f \in FPs, Drop(f) PROVE Lanes'
  BY <1>2, <1>8, Holds, AtRelease DEF Drop
<1>9. ASSUME NEW f \in FPs, Accept(f) PROVE Lanes'
  BY <1>2, <1>9, AtStill DEF Accept
<1>10. CASE WritePacket
  BY <1>2, <1>10, Holds, AtRelease DEF WritePacket
<1> QED
  BY <1>3, <1>4, <1>5, <1>6, <1>7, <1>8, <1>9, <1>10, MovesOrStill DEF Moves

(* The positions and the elements of a sequence after Append.              *)
LEMMA Appended ==
  ASSUME NEW S, NEW s \in Seq(S), NEW e \in S
  PROVE  /\ Append(s, e) \in Seq(S)
         /\ DOMAIN Append(s, e) = DOMAIN s \cup {Len(s) + 1}
         /\ \A k \in DOMAIN s : k < Len(s) + 1 /\ k \in Nat /\ Append(s, e)[k] = s[k]
         /\ Len(s) + 1 \in Nat /\ Append(s, e)[Len(s) + 1] = e
OBVIOUS

(* The positions and the elements of a sequence after Tail.                *)
LEMMA Tailed ==
  ASSUME NEW S, NEW s \in Seq(S), s # <<>>
  PROVE  /\ Head(s) \in S /\ Tail(s) \in Seq(S)
         /\ 1 \in DOMAIN s /\ Head(s) = s[1]
         /\ \A k \in DOMAIN Tail(s) : /\ k \in Nat /\ k + 1 \in DOMAIN s /\ 1 < k + 1
                                      /\ Tail(s)[k] = s[k + 1]
OBVIOUS

(* The fate of a packet says how far it has come.                          *)
LEMMA FatesStep ==
  TypeOK /\ TypeOK' /\ PipelineOrder /\ [Next]_vars => FatesInPlace'
<1> SUFFICES ASSUME TypeOK, TypeOK', PipelineOrder, [Next]_vars PROVE FatesInPlace'
  OBVIOUS
<1> USE Numbering
<1>1. FatesInPlace /\ Frontier /\ InOrder
  BY DEF PipelineOrder
<1>2. /\ hand \in [Thread -> Packet \cup {NoPacket}] /\ at \in [Thread -> Places]
      /\ queue \in [Queue -> Seq(Packet)] /\ file \in Seq(Packet)
      /\ fate \in [Packet -> Fates] /\ NoPacket \notin Packet
  BY PacketHash DEF TypeOK, ThreadsOK, DataOK, NoPacket
<1>3. CASE Still
  BY <1>1, <1>3 DEF Still, FatesInPlace
<1>4. CASE ReadPacket
  <2>1. /\ next \in Packet /\ fate' = [fate EXCEPT ![next] = "read"] /\ next \in Nat
        /\ hand' = [hand EXCEPT ![Reader] = next] /\ at' = [at EXCEPT ![Reader] = "push"]
        /\ UNCHANGED <<queue, file>>
    BY <1>4, NextPacket, PacketHash DEF ReadPacket
  <2>2. \A p \in Packet : fate[p] # "unread" => p # next
    BY <1>1, <2>1 DEF Frontier
  <2> QED
    BY <1>1, <1>2, <2>1, <2>2 DEF FatesInPlace
<1>5. ASSUME NEW t \in Thread, Push(t) PROVE FatesInPlace'
  <2> DEFINE p == hand[t]  q == Dest(t, p)
  <2>1. /\ p \in Packet /\ t # Writer /\ q \in Queue
        /\ q = Writer <=> t \in FPs
    BY <1>5, PushTarget, Routes DEF Push
  <2>2. at[t] = "push" /\ file' = file /\ fate' = fate
        /\ hand' = [hand EXCEPT ![t] = NoPacket]
        /\ queue' = [queue EXCEPT ![q] = Append(queue[q], p)]
    BY <1>5 DEF Push, Pushed
  <2>3. fate[p] = IF q = Writer THEN "accepted" ELSE "read"
    <3>1. p # NoPacket /\ (t \in FPs /\ at[t] = "push" <=> q = Writer)
      BY <1>2, <2>1, <2>2
    <3> QED
      BY <1>1, <2>1, <3>1 DEF FatesInPlace
  <2>4. at' = [at EXCEPT ![t] = IF t \in LBs THEN "count" ELSE "check"]
    BY <1>5 DEF Push, Pushed
  <2> HIDE DEF p, q
  <2>5. \A k \in DOMAIN queue'[q] : fate[queue'[q][k]] = IF q = Writer THEN "accepted" ELSE "read"
    BY <1>1, <1>2, <2>1, <2>2, <2>3, Appended DEF FatesInPlace
  <2> QED
    BY <1>1, <1>2, <2>1, <2>2, <2>5, <2>4 DEF FatesInPlace
<1>6. ASSUME NEW t \in Thread, PushDiscards(t) PROVE FatesInPlace'
  <2>1. /\ hand[t] \in Packet /\ at[t] = "push" /\ t # Writer
        /\ hand' = [hand EXCEPT ![t] = NoPacket]
        /\ at' = [at EXCEPT ![t] = IF t \in LBs THEN "count" ELSE "check"]
        /\ UNCHANGED <<queue, file>> /\ fate' = [fate EXCEPT ![hand[t]] = "discarded"]
    BY <1>6, PushTarget DEF PushDiscards, Pushed
  <2> QED
    BY <1>1, <1>2, <2>1, InHand DEF FatesInPlace
<1>7. ASSUME NEW t \in Queue, Pop(t) PROVE FatesInPlace'
  <2>1. /\ queue[t] \in Seq(Packet) /\ queue[t] # <<>>
        /\ hand' = [hand EXCEPT ![t] = Head(queue[t])]
        /\ queue' = [queue EXCEPT ![t] = Tail(queue[t])]
        /\ at' = [at EXCEPT ![t] = IF t \in LBs THEN "push" ELSE "work"]
        /\ UNCHANGED <<file, fate>>
    BY <1>2, <1>7 DEF Pop
  <2>2. fate[Head(queue[t])] = IF t = Writer THEN "accepted" ELSE "read"
    BY <1>1, <2>1, Tailed DEF FatesInPlace
  <2>3. \A k \in DOMAIN Tail(queue[t]) : fate[Tail(queue[t])[k]] = IF t = Writer THEN "accepted" ELSE "read"
    BY <1>1, <2>1, Tailed DEF FatesInPlace
  <2> QED
    BY <1>1, <1>2, <2>1, <2>2, <2>3 DEF FatesInPlace
<1>8. ASSUME NEW f \in FPs, Drop(f) PROVE FatesInPlace'
  <2>1. /\ hand[f] \in Packet /\ at[f] = "work"
        /\ hand' = [hand EXCEPT ![f] = NoPacket] /\ at' = [at EXCEPT ![f] = "check"]
        /\ UNCHANGED <<queue, file>> /\ fate' = [fate EXCEPT ![hand[f]] = "dropped"]
    BY <1>8, Holds DEF Drop
  <2>2. f \in Thread /\ f # Writer
    OBVIOUS
  <2>3. /\ \A u \in Thread \ {f} : hand[u] # hand[f]
        /\ \A u \in Queue : \A k \in DOMAIN queue[u] : queue[u][k] # hand[f]
    BY <1>1, <2>1, <2>2, InHand
  <2>4. fate[hand[f]] = "read"
    BY <1>1, <1>2, <2>1, <2>2 DEF FatesInPlace
  <2> QED
    BY <1>1, <1>2, <2>1, <2>2, <2>3, <2>4 DEF FatesInPlace
<1>9. ASSUME NEW f \in FPs, Accept(f) PROVE FatesInPlace'
  <2>1. /\ hand[f] \in Packet /\ at[f] = "work"
        /\ at' = [at EXCEPT ![f] = "push"]
        /\ UNCHANGED <<hand, queue, file>> /\ fate' = [fate EXCEPT ![hand[f]] = "accepted"]
    BY <1>9, Holds DEF Accept
  <2>2. f \in Thread /\ f # Writer
    OBVIOUS
  <2>3. /\ \A u \in Thread \ {f} : hand[u] # hand[f]
        /\ \A u \in Queue : \A k \in DOMAIN queue[u] : queue[u][k] # hand[f]
    BY <1>1, <2>1, <2>2, InHand
  <2>4. fate[hand[f]] = "read"
    BY <1>1, <1>2, <2>1, <2>2 DEF FatesInPlace
  <2> QED
    BY <1>1, <1>2, <2>1, <2>2, <2>3, <2>4 DEF FatesInPlace
<1>10. CASE WritePacket
  <2>1. /\ hand[Writer] \in Packet /\ at[Writer] = "work"
        /\ hand' = [hand EXCEPT ![Writer] = NoPacket] /\ at' = [at EXCEPT ![Writer] = "check"]
        /\ queue' = queue /\ fate' = [fate EXCEPT ![hand[Writer]] = "written"]
        /\ file' = Append(file, hand[Writer])
    BY <1>10, Holds DEF WritePacket
  <2>2. \A k \in DOMAIN file' : fate'[file'[k]] = "written"
    BY <1>1, <1>2, <2>1, Appended DEF FatesInPlace
  <2> QED
    BY <1>1, <1>2, <2>1, <2>2, InHand DEF FatesInPlace
<1> QED
  BY <1>3, <1>4, <1>5, <1>6, <1>7, <1>8, <1>9, <1>10, MovesOrStill DEF Moves

(* The files follow one another in the capture.                            *)
LEMMA FileOrder ==
  ASSUME NEW r \in 1..Len(FileEnd)
  PROVE  /\ FileEnd[r] \in Nat
         /\ r # 1 => FileEnd[r - 1] \in Nat /\ FileEnd[r - 1] <= FileEnd[r]
BY EngineAssumption DEF EngineAssumption

(* The reader goes forward, through one file and from one to the next.     *)
LEMMA FrontierStep ==
  TypeOK /\ TypeOK' /\ PipelineOrder /\ [Next]_vars => Frontier'
<1> SUFFICES ASSUME TypeOK, TypeOK', PipelineOrder, [Next]_vars PROVE Frontier'
  OBVIOUS
<1> USE Numbering
<1>1. FatesInPlace /\ Frontier
  BY DEF PipelineOrder
<1>2. /\ run \in Nat /\ run <= Len(FileEnd) /\ Len(FileEnd) \in Nat /\ next \in Nat
      /\ fate \in [Packet -> Fates]
  <2>1. Len(FileEnd) \in Nat
    BY EngineAssumption
  <2>2. run \in 0..Len(FileEnd)
    BY DEF TypeOK, ControlOK
  <2>3. next \in Nat
    BY DEF TypeOK, ThreadsOK
  <2>4. fate \in [Packet -> Fates]
    BY DEF TypeOK, DataOK
  <2> QED
    BY <2>1, <2>2, <2>3, <2>4
<1>3. ASSUME UNCHANGED <<run, next>>,
             \A p \in Packet : fate'[p] # "unread" => fate[p] # "unread",
             /\ main' \in {"startFPs", "startLBs", "startReader"} \/ at'[Reader] = "open"
             => main \in {"startFPs", "startLBs", "startReader"} \/ at[Reader] = "open"
      PROVE  Frontier'
  BY <1>1, <1>3 DEF Frontier, FirstRecord
<1>4. CASE UNCHANGED vars
  BY <1>3, <1>4 DEF vars, control
<1>5. CASE OpenOutputFails \/ Start
  <2>1. /\ run < Len(FileEnd) /\ run' = run + 1 /\ next' = next /\ fate' = fate
        /\ main = "idle"
    BY <1>5 DEF OpenOutputFails, Start
  <2>2. run + 1 \in 1..Len(FileEnd)
    BY <1>2, <2>1
  <2>3. next <= IF run + 1 = 1 THEN 1 ELSE FileEnd[(run + 1) - 1] + 1
    BY <1>1, <1>2 DEF Frontier
  <2>4. next <= FileEnd[run + 1] + 1
    BY <1>2, <2>2, <2>3, FileOrder
  <2> QED
    BY <1>1, <1>2, <2>1, <2>3, <2>4 DEF Frontier, FirstRecord
<1>6. CASE StartFastPaths \/ StartLoadBalancers
  <2>1. at'[Reader] = at[Reader]
    BY <1>6 DEF StartFastPaths, StartLoadBalancers, StartWorkers, TypeOK, ThreadsOK
  <2> QED
    BY <1>3, <1>6, <2>1 DEF StartFastPaths, StartLoadBalancers, StartWorkers
<1>7. CASE StartReader
  BY <1>3, <1>7 DEF StartReader
<1>8. CASE \/ WaitForCompletion \/ StopRequest \/ StopWorker \/ ShutWorkerQueue
           \/ JoinWorker \/ ShutOutputQueue \/ JoinWriter
  BY <1>3, <1>8 DEF WaitForCompletion, StopRequest, StopWorker, ShutWorkerQueue,
     JoinWorker, ShutOutputQueue, JoinWriter
<1>9. CASE OpenInputFails \/ EndOfFile
  <2>1. at'[Reader] = "off"
    BY <1>9 DEF OpenInputFails, EndOfFile, TypeOK, ThreadsOK
  <2> QED
    BY <1>3, <1>9, <2>1 DEF OpenInputFails, EndOfFile, control
<1>10. CASE OpenInput
  <2>1. /\ run \in 1..Len(FileEnd) /\ next' = FirstRecord /\ next <= FirstRecord
        /\ UNCHANGED <<run, main, fate>> /\ at'[Reader] = "check"
    BY <1>1, <1>10, ReaderRuns DEF OpenInput, Frontier, control, TypeOK, ThreadsOK
  <2>2. FirstRecord <= FileEnd[run] + 1 /\ FirstRecord \in Nat
    BY <1>2, <2>1, FileOrder DEF FirstRecord
  <2>3. FirstRecord' = FirstRecord
    BY <2>1 DEF FirstRecord
  <2>4. \A p \in Packet : fate[p] # "unread" => p < FirstRecord
    BY <1>1, <1>2, <2>1, <2>2, PacketHash DEF Frontier
  <2> QED
    BY <1>2, <2>1, <2>2, <2>3, <2>4 DEF Frontier
<1>11. CASE SkipRecord \/ ReadPacket
  <2>1. run \in 1..Len(FileEnd) /\ main = "waiting" /\ at[Reader] = "check"
    BY <1>11, ReaderRuns DEF SkipRecord, ReadPacket
  <2>2. next <= FileEnd[run] /\ next' = next + 1 /\ UNCHANGED <<main, run>> /\ at'[Reader] # "open"
    BY <1>11 DEF SkipRecord, ReadPacket, control, TypeOK, ThreadsOK
  <2>3. \A p \in Packet : fate'[p] # "unread" => fate[p] # "unread" \/ p = next
    BY <1>2, <1>11 DEF SkipRecord, ReadPacket
  <2>4. \A p \in Packet : fate'[p] # "unread" => p < next + 1
    BY <1>1, <1>2, <2>3, PacketHash DEF Frontier
  <2> QED
    BY <1>2, <2>1, <2>2, <2>4, FileOrder DEF Frontier
<1>12. ASSUME NEW t \in Thread, hand[t] \in Packet, NEW s \in Fates,
              UNCHANGED <<run, next, main>>,
              at'[Reader] = "open" => at[Reader] = "open",
              fate' = [fate EXCEPT ![hand[t]] = s] \/ fate' = fate
       PROVE  Frontier'
  <2>1. fate[hand[t]] # "unread"
    BY <1>1, <1>2, <1>12, PacketHash DEF FatesInPlace, NoPacket
  <2> QED
    BY <1>2, <1>3, <1>12, <2>1
<1>13. ASSUME NEW t \in Thread, Push(t) \/ PushDiscards(t) PROVE Frontier'
  <2>1. hand[t] \in Packet
    BY <1>13, PushTarget DEF Push, PushDiscards
  <2>2. /\ at'[Reader] = "open" => at[Reader] = "open"
        /\ UNCHANGED <<run, next, main>>
        /\ fate' = [fate EXCEPT ![hand[t]] = "discarded"] \/ fate' = fate
    BY <1>13 DEF Push, PushDiscards, Pushed, control, TypeOK, ThreadsOK
  <2> QED
    BY <2>1, <2>2, <1>12 DEF Fates
<1>14. ASSUME NEW f \in FPs, Drop(f) \/ Accept(f) PROVE Frontier'
  <2>1. hand[f] \in Packet /\ f \in Thread
    BY <1>14, Holds DEF Drop, Accept
  <2>2. /\ at'[Reader] = "open" => at[Reader] = "open"
        /\ UNCHANGED <<run, next, main>>
        /\ \E s \in Fates : fate' = [fate EXCEPT ![hand[f]] = s]
    BY <1>14 DEF Drop, Accept, control, TypeOK, ThreadsOK, Fates
  <2> QED
    BY <2>1, <2>2, <1>12
<1>15. CASE WritePacket
  <2>1. hand[Writer] \in Packet
    BY <1>15, Holds DEF WritePacket
  <2>2. /\ at'[Reader] = "open" => at[Reader] = "open"
        /\ UNCHANGED <<run, next, main>>
        /\ fate' = [fate EXCEPT ![hand[Writer]] = "written"]
    BY <1>15 DEF WritePacket, control, TypeOK, ThreadsOK
  <2> QED
    BY <2>1, <2>2, <1>12 DEF Fates
<1>16. ASSUME NEW t \in Queue, CheckRunning(t) \/ TryPopFails(t) \/ Pop(t) PROVE Frontier'
  BY <1>3, <1>16 DEF CheckRunning, TryPopFails, Pop, control, TypeOK, ThreadsOK
<1>17. CASE WriterChecksRunning \/ WriterChecksEmpty \/ WriterPopFails
  BY <1>3, <1>17 DEF WriterChecksRunning, WriterChecksEmpty, WriterPopFails, control,
     TypeOK, ThreadsOK
<1>18. ASSUME NEW l \in LBs, CountDispatched(l) PROVE Frontier'
  BY <1>3, <1>18 DEF CountDispatched, control, TypeOK, ThreadsOK
<1> QED
  BY <1>4, <1>5, <1>6, <1>7, <1>8, <1>9, <1>10, <1>11, <1>13, <1>14, <1>15, <1>16,
     <1>17, <1>18 DEF Next, MainStep, ReaderStep, WorkerStep, WriterStep, Finished

(* What is in the pipeline was read and not yet settled.                   *)
LEMMA Located ==
  ASSUME TypeOK, FatesInPlace, NEW u \in Thread, NEW y \in At(u)
  PROVE  /\ y \in Packet /\ y \in Nat /\ fate[y] \in {"read", "accepted"}
         /\ u = Writer => fate[y] = "accepted"
<1>1. y \in Packet /\ y \in Nat /\ y # NoPacket
  BY PacketHash DEF At, NoPacket
<1>2. CASE hand[u] = y
  BY <1>1, <1>2 DEF FatesInPlace
<1>3. CASE u \in Queue /\ \E k \in DOMAIN queue[u] : queue[u][k] = y
  BY <1>1, <1>3 DEF FatesInPlace
<1> QED
  BY <1>1, <1>2, <1>3 DEF At

(* The three parts of InOrder, one by one.                                 *)
LEMMA InOrderParts ==
  ASSUME InOrder
  PROVE  /\ \A q \in Queue : \A j, k \in DOMAIN queue[q] :
              j < k /\ SameFlow(queue[q][j], queue[q][k]) => queue[q][j] < queue[q][k]
         /\ \A q \in Queue : \A k \in DOMAIN queue[q] :
              hand[q] # NoPacket /\ SameFlow(hand[q], queue[q][k]) => hand[q] < queue[q][k]
         /\ \A t, u \in Thread : t < u =>
              \A x \in At(t), y \in At(u) : SameFlow(x, y) => y < x
BY DEF InOrder

(* A step of the pipeline never moves a packet past one of its flow.       *)
LEMMA InOrderStep ==
  TypeOK /\ TypeOK' /\ PipelineOrder /\ [Next]_vars => InOrder'
<1> SUFFICES ASSUME TypeOK, TypeOK', PipelineOrder, [Next]_vars PROVE InOrder'
  OBVIOUS
<1> USE Numbering
<1>1. Lanes /\ FatesInPlace /\ Frontier /\ InOrder
  BY DEF PipelineOrder
<1>2. /\ hand \in [Thread -> Packet \cup {NoPacket}]
      /\ queue \in [Queue -> Seq(Packet)] /\ fate \in [Packet -> Fates]
      /\ NoPacket \notin Packet
  BY PacketHash DEF TypeOK, ThreadsOK, DataOK, NoPacket
<1>3. ASSUME \A t \in Thread : At(t)' \subseteq At(t), queue' = queue,
             \A q \in Queue : hand'[q] # NoPacket => hand'[q] = hand[q]
      PROVE  InOrder'
  <2>1. \A q \in Queue : \A k \in DOMAIN queue[q] :
          hand'[q] # NoPacket /\ SameFlow(hand'[q], queue[q][k]) => hand'[q] < queue[q][k]
    BY <1>1, <1>3, InOrderParts
  <2>2. \A t, u \in Thread : t < u =>
          \A x \in At(t)', y \in At(u)' : SameFlow(x, y) => y < x
    BY <1>1, <1>3, InOrderParts
  <2>3. \A q \in Queue : \A j, k \in DOMAIN queue'[q] :
          j < k /\ SameFlow(queue'[q][j], queue'[q][k]) => queue'[q][j] < queue'[q][k]
    BY <1>1, <1>3, InOrderParts
  <2> QED
    BY <1>3, <2>1, <2>2, <2>3 DEF InOrder, SameFlow
<1>4. CASE Still
  BY <1>3, <1>4, AtStill DEF Still
<1>5. CASE ReadPacket
  <2>1. /\ next \in Packet /\ next \in Nat /\ queue' = queue
        /\ \A q \in Queue : hand'[q] = hand[q]
    BY <1>2, <1>5, NextPacket, PacketHash DEF ReadPacket
  <2>2. \A u \in Thread : \A y \in At(u) : y < next
    BY <1>1, Located DEF Frontier
  <2>3. ASSUME NEW t \in Thread, NEW u \in Thread, t < u,
               NEW x \in At(t)', NEW y \in At(u)', SameFlow(x, y)
        PROVE  y < x
    <3>1. y \in At(u)
      <4>1. u # Reader
        BY <2>3 DEF Reader
      <4> QED
        BY <1>5, <2>3, <4>1, AtRead
    <3>2. x \in At(t) \/ x = next
      BY <1>5, AtRead
    <3> QED
      BY <1>1, <2>2, <2>3, <3>1, <3>2 DEF InOrder
  <2> QED
    BY <1>1, <2>1, <2>3 DEF InOrder, SameFlow
<1>6. ASSUME NEW t \in Thread, Push(t) PROVE InOrder'
  <2> DEFINE p == hand[t]  q == Dest(t, p)
  <2>1. p \in Packet /\ q \in Queue /\ t < q /\ at[t] = "push"
    BY <1>6, PushTarget DEF Push
  <2>2. /\ \A u \in Thread : \A x \in At(u)' : x \in At(u) \/ (u = q /\ x = p)
        /\ \A x \in At(t)' : t \in Queue /\ \E k \in DOMAIN queue[t] : queue[t][k] = x
        /\ queue'[q] = Append(queue[q], p)
        /\ \A u \in Queue \ {q} : queue'[u] = queue[u]
    BY <1>6, AtPush
  <2>3. hand' = [hand EXCEPT ![t] = NoPacket]
    BY <1>6 DEF Push, Pushed
  <2>4. /\ \A u \in Thread : \A x \in At(u) : SameFlow(x, p) =>
             (u < t => p < x) /\ (t < u => x < p)
        /\ t \in Queue => \A k \in DOMAIN queue[t] : SameFlow(queue[t][k], p) => p < queue[t][k]
    BY <1>1, <2>1, InHand
  <2>5. \A u \in Thread : t < u /\ u < q => \A x \in At(u) : ~SameFlow(x, p)
    BY <1>1, <2>1, NothingBetween
  <2> HIDE DEF p, q
  <2>6. /\ \A k \in DOMAIN queue[q] : queue[q][k] \in At(q)
        /\ hand[q] # NoPacket => hand[q] \in At(q)
        /\ q # t
    <3>1. q \in Queue /\ t \in Int /\ q \in Int /\ t < q /\ queue[q] \in Seq(Packet)
      BY <1>2, <2>1
    <3>2. hand[q] \in Packet \cup {NoPacket}
      BY <2>1 DEF TypeOK, ThreadsOK, Thread
    <3> QED
      BY <3>1, <3>2 DEF At
  <2>11. /\ DOMAIN queue'[q] = DOMAIN queue[q] \cup {Len(queue[q]) + 1}
         /\ \A k \in DOMAIN queue[q] : /\ k < Len(queue[q]) + 1 /\ k \in Nat
                                       /\ queue'[q][k] = queue[q][k]
         /\ Len(queue[q]) + 1 \in Nat /\ queue'[q][Len(queue[q]) + 1] = p
    BY <1>2, <2>1, <2>2, Appended
  <2>7. ASSUME NEW j \in DOMAIN queue'[q], NEW k \in DOMAIN queue'[q], j < k,
               SameFlow(queue'[q][j], queue'[q][k])
        PROVE  queue'[q][j] < queue'[q][k]
    <3>1. CASE j \in DOMAIN queue[q] /\ k \in DOMAIN queue[q]
      BY <2>7, <2>11, <3>1, <1>1, InOrderParts, <2>1
    <3>2. CASE j \in DOMAIN queue[q] /\ k = Len(queue[q]) + 1
      BY <2>1, <2>4, <2>6, <2>7, <2>11, <3>2
    <3> QED
      BY <2>7, <2>11, <3>1, <3>2
  <2>8. ASSUME NEW k \in DOMAIN queue'[q], hand[q] # NoPacket,
               SameFlow(hand[q], queue'[q][k])
        PROVE  hand[q] < queue'[q][k]
    <3>1. CASE k \in DOMAIN queue[q]
      BY <1>1, <2>1, <2>8, <2>11, <3>1, InOrderParts
    <3>2. CASE k = Len(queue[q]) + 1
      BY <2>1, <2>4, <2>6, <2>8, <2>11, <3>2
    <3> QED
      BY <2>8, <2>11, <3>1, <3>2
  <2>9. ASSUME NEW u \in Thread, NEW v \in Thread, u < v,
               NEW x \in At(u)', NEW y \in At(v)', SameFlow(x, y)
        PROVE  y < x
    <3>1. SameFlow(y, x)
      BY <2>9 DEF SameFlow
    <3>2. CASE x \in At(u) /\ y \in At(v)
      BY <1>1, <2>9, <3>2 DEF InOrder
    <3>3. CASE u = q /\ x = p
      <4>1. t < v /\ v # q
        BY <2>1, <2>9, <3>3
      <4> QED
        BY <2>2, <2>4, <2>9, <3>1, <3>3, <4>1
    <3>4. CASE v = q /\ y = p /\ x \in At(u)
      <4>1. CASE u < t
        BY <2>4, <2>9, <3>4, <4>1
      <4>2. CASE u = t
        BY <2>2, <2>4, <2>9, <3>4, <4>2
      <4>3. CASE t < u
        BY <2>5, <2>9, <3>4, <4>3
      <4> QED
        BY <4>1, <4>2, <4>3
    <3> QED
      BY <2>2, <3>2, <3>3, <3>4
  <2>10. /\ \A u \in Queue : u # t => hand'[u] = hand[u]
         /\ hand'[t] = NoPacket
    BY <1>2, <2>3
  <2>12. \A u \in Queue : \A j, k \in DOMAIN queue'[u] :
           j < k /\ SameFlow(queue'[u][j], queue'[u][k]) => queue'[u][j] < queue'[u][k]
    <3>1. ASSUME NEW u \in Queue \ {q} PROVE queue'[u] = queue[u]
      BY <2>2, <3>1
    <3> QED
      BY <1>1, <2>7, <3>1, InOrderParts
  <2>13. \A u \in Queue : \A k \in DOMAIN queue'[u] :
           hand'[u] # NoPacket /\ SameFlow(hand'[u], queue'[u][k]) => hand'[u] < queue'[u][k]
    <3>1. ASSUME NEW u \in Queue \ {q}, NEW k \in DOMAIN queue'[u],
                 hand'[u] # NoPacket, SameFlow(hand'[u], queue'[u][k])
          PROVE  hand'[u] < queue'[u][k]
      <4>1. hand'[u] = hand[u] /\ queue'[u] = queue[u]
        BY <2>2, <2>10, <3>1
      <4> QED
        BY <1>1, <3>1, <4>1, InOrderParts
    <3>2. hand'[q] = hand[q]
      BY <2>1, <2>6, <2>10
    <3> QED
      BY <2>8, <3>1, <3>2
  <2> QED
    BY <2>9, <2>12, <2>13 DEF InOrder, SameFlow
<1>7. ASSUME NEW t \in Thread, PushDiscards(t) PROVE InOrder'
  BY <1>2, <1>3, <1>7, PushTarget, AtRelease DEF PushDiscards, Pushed
<1>8. ASSUME NEW t \in Queue, Pop(t) PROVE InOrder'
  <2>1. /\ queue[t] \in Seq(Packet) /\ queue[t] # <<>>
        /\ hand' = [hand EXCEPT ![t] = Head(queue[t])]
        /\ queue' = [queue EXCEPT ![t] = Tail(queue[t])]
    BY <1>2, <1>8 DEF Pop
  <2>2. \A u \in Thread : At(u)' \subseteq At(u)
    BY <1>8, AtPop
  <2>3. ASSUME NEW j \in DOMAIN Tail(queue[t]), NEW k \in DOMAIN Tail(queue[t]), j < k,
               SameFlow(Tail(queue[t])[j], Tail(queue[t])[k])
        PROVE  Tail(queue[t])[j] < Tail(queue[t])[k]
    <3>1. /\ j + 1 \in DOMAIN queue[t] /\ k + 1 \in DOMAIN queue[t] /\ j + 1 < k + 1
          /\ Tail(queue[t])[j] = queue[t][j + 1] /\ Tail(queue[t])[k] = queue[t][k + 1]
      BY <2>1, <2>3, Tailed
    <3> QED
      BY <1>1, <2>3, <3>1, InOrderParts
  <2>4. ASSUME NEW k \in DOMAIN Tail(queue[t]), SameFlow(Head(queue[t]), Tail(queue[t])[k])
        PROVE  Head(queue[t]) < Tail(queue[t])[k]
    <3>1. /\ 1 \in DOMAIN queue[t] /\ k + 1 \in DOMAIN queue[t] /\ 1 < k + 1
          /\ Head(queue[t]) = queue[t][1] /\ Tail(queue[t])[k] = queue[t][k + 1]
      BY <2>1, <2>4, Tailed
    <3> QED
      BY <1>1, <2>4, <3>1, InOrderParts
  <2>5. /\ \A u \in Queue : u # t => hand'[u] = hand[u] /\ queue'[u] = queue[u]
        /\ hand'[t] = Head(queue[t]) /\ queue'[t] = Tail(queue[t])
    BY <1>2, <2>1
  <2>6. \A u \in Queue : \A j, k \in DOMAIN queue'[u] :
           j < k /\ SameFlow(queue'[u][j], queue'[u][k]) => queue'[u][j] < queue'[u][k]
    <3>1. ASSUME NEW u \in Queue \ {t} PROVE queue'[u] = queue[u]
      BY <2>5, <3>1
    <3>2. \A j, k \in DOMAIN queue'[t] :
            j < k /\ SameFlow(queue'[t][j], queue'[t][k]) => queue'[t][j] < queue'[t][k]
      BY <2>3, <2>5
    <3> QED
      BY <1>1, <3>1, <3>2, InOrderParts
  <2>7. \A u \in Queue : \A k \in DOMAIN queue'[u] :
           hand'[u] # NoPacket /\ SameFlow(hand'[u], queue'[u][k]) => hand'[u] < queue'[u][k]
    <3>1. ASSUME NEW u \in Queue \ {t}, NEW k \in DOMAIN queue'[u],
                 hand'[u] # NoPacket, SameFlow(hand'[u], queue'[u][k])
          PROVE  hand'[u] < queue'[u][k]
      <4>1. hand'[u] = hand[u] /\ queue'[u] = queue[u]
        BY <2>5, <3>1
      <4> QED
        BY <1>1, <3>1, <4>1, InOrderParts
    <3>2. \A k \in DOMAIN queue'[t] :
            SameFlow(hand'[t], queue'[t][k]) => hand'[t] < queue'[t][k]
      BY <2>4, <2>5
    <3> QED
      BY <3>1, <3>2
  <2>8. \A u, v \in Thread : u < v =>
           \A x \in At(u)', y \in At(v)' : SameFlow(x, y) => y < x
    BY <1>1, <2>2, InOrderParts
  <2> QED
    BY <2>6, <2>7, <2>8 DEF InOrder, SameFlow
<1>9. ASSUME NEW f \in FPs, Drop(f) PROVE InOrder'
  BY <1>2, <1>3, <1>9, Holds, AtRelease DEF Drop
<1>10. ASSUME NEW f \in FPs, Accept(f) PROVE InOrder'
  BY <1>3, <1>10, AtStill DEF Accept
<1>11. CASE WritePacket
  BY <1>2, <1>3, <1>11, Holds, AtRelease DEF WritePacket
<1> QED
  BY <1>4, <1>5, <1>6, <1>7, <1>8, <1>9, <1>10, <1>11, MovesOrStill DEF Moves

(* No two fast paths share a flow, so a packet being judged comes before   *)
(* every other packet of its flow that has not been judged.                *)
LEMMA JudgedFirst ==
  ASSUME TypeOK, PipelineOrder, NEW f \in FPs, at[f] = "work",
         NEW u \in Thread, NEW x \in At(u), SameFlow(x, hand[f]), x # hand[f],
         fate[x] = "read"
  PROVE  hand[f] < x
<1> DEFINE p == hand[f]
<1> USE Numbering
<1>1. Lanes /\ FatesInPlace /\ InOrder /\ f \in Thread /\ p \in Packet
  BY Holds DEF PipelineOrder
<1>2. p \in At(f) /\ x \in Packet
  BY <1>1 DEF At
<1>3. LBForPacket(x) = LBForPacket(p) /\ \A l \in LBs : SelectFP(l, x) = SelectFP(l, p)
  BY DEF SameFlow, LBForPacket, SelectFP
<1>4. /\ \A v \in Thread : \A y \in At(v) : SameFlow(y, p) => (v < f => p < y)
      /\ f \in Queue => \A k \in DOMAIN queue[f] : SameFlow(queue[f][k], p) => p < queue[f][k]
  BY <1>1, InHand
<1>5. hand[f] # x /\ f \in Queue /\ u \in Nat /\ f \in Nat
  OBVIOUS
<1>6. LBForPacket(p) \in LBs
  BY <1>1, Routes
<1>7. f = SelectFP(LBForPacket(p), p)
  BY <1>1, <1>2 DEF Lanes
<1> HIDE DEF p
<1>8. u # Writer
  BY <1>1, Located
<1>9. CASE u < f
  BY <1>4, <1>9 DEF p
<1>10. CASE u = f
  BY <1>4, <1>5, <1>10 DEF At, p
<1>11. CASE f < u
  <2>1. u \in FPs
    BY <1>5, <1>8, <1>11 DEF FPs, Thread, Writer, LBs
  <2>2. u = SelectFP(LBForPacket(x), x)
    BY <1>1, <2>1 DEF Lanes
  <2> QED
    BY <1>3, <1>5, <1>6, <1>7, <1>11, <2>2
<1> QED
  BY <1>5, <1>9, <1>10, <1>11 DEF p

(* Judgements of a flow are made, and its packets written, in order.       *)
LEMMA JudgementsStep ==
  TypeOK /\ TypeOK' /\ PipelineOrder /\ [Next]_vars => Judgements'
<1> SUFFICES ASSUME TypeOK, TypeOK', PipelineOrder, [Next]_vars PROVE Judgements'
  OBVIOUS
<1> USE Numbering
<1> DEFINE Judged == {"accepted", "dropped", "written"}
<1>1. FatesInPlace /\ Frontier /\ InOrder
  BY DEF PipelineOrder
<1>2. /\ fate \in [Packet -> Fates] /\ hand \in [Thread -> Packet \cup {NoPacket}]
      /\ NoPacket \notin Packet
  BY PacketHash DEF TypeOK, DataOK, ThreadsOK, NoPacket
<1>3. ASSUME NEW t \in Thread, NEW x \in At(t), NEW y \in Packet, SameFlow(x, y)
      PROVE  /\ fate[x] = "read" /\ fate[y] \in Judged => y < x
             /\ fate[y] = "written" => y < x
  BY <1>3 DEF PipelineOrder, Judgements
<1>4. ASSUME \A t \in Thread : \A x \in At(t)' : \A y \in Packet : SameFlow(x, y) =>
               /\ fate'[x] = "read" /\ fate'[y] \in Judged => y < x
               /\ fate'[y] = "written" => y < x
      PROVE  Judgements'
  BY <1>4 DEF Judgements, SameFlow
<1> HIDE DEF Judged
<1>5. ASSUME \A t \in Thread : \A x \in At(t)' : \E u \in Thread : x \in At(u), fate' = fate
      PROVE  Judgements'
  BY <1>3, <1>4, <1>5
<1>6. CASE Still
  BY <1>5, <1>6, AtStill DEF Still
<1>7. CASE ReadPacket
  <2>1. next \in Packet /\ fate' = [fate EXCEPT ![next] = "read"]
    BY <1>7, NextPacket DEF ReadPacket
  <2>2. \A y \in Packet : fate[y] # "unread" => y < next
    BY <1>1 DEF Frontier
  <2>3. ASSUME NEW t \in Thread, NEW x \in At(t)', NEW y \in Packet, SameFlow(x, y),
               fate'[y] \in Judged
        PROVE  /\ fate'[x] = "read" => y < x
               /\ fate'[y] = "written" => y < x
    <3>1. y # next /\ fate[y] = fate'[y] /\ fate[y] # "unread"
      BY <1>2, <2>1, <2>3 DEF Judged
    <3>2. CASE x = next
      BY <2>2, <3>1, <3>2
    <3>3. CASE x \in At(t)
      <4>1. x # next
        <5>1. fate[x] # "unread" /\ x \in Packet /\ x \in Nat
          BY <1>1, <3>3, Located
        <5> QED
          BY <2>2, <5>1
      <4>2. x \in Packet
        BY <1>1, <3>3, Located
      <4>3. fate'[x] = fate[x]
        BY <1>2, <2>1, <4>1, <4>2
      <4> QED
        BY <1>3, <2>3, <3>1, <3>3, <4>3
    <3> QED
      BY <1>7, <3>2, <3>3, AtRead
  <2> QED
    BY <1>4, <2>3 DEF Judged
<1>8. ASSUME NEW t \in Thread, Push(t) PROVE Judgements'
  <2>1. hand[t] \in At(t) /\ fate' = fate
    BY <1>8, PushTarget DEF Push, At
  <2>2. \A u \in Thread : \A x \in At(u)' : x \in At(u) \/ x = hand[t]
    BY <1>8, AtPush
  <2> QED
    BY <1>5, <2>1, <2>2
<1>9. ASSUME NEW t \in Queue, Pop(t) PROVE Judgements'
  BY <1>5, <1>9, AtPop DEF Pop
<1>10. ASSUME NEW t \in Thread, PushDiscards(t) PROVE Judgements'
  <2>1. /\ hand[t] \in Packet /\ fate' = [fate EXCEPT ![hand[t]] = "discarded"]
        /\ \A u \in Thread : At(u)' \subseteq At(u)
    BY <1>10, PushTarget, AtRelease DEF PushDiscards, Pushed
  <2>2. \A y \in Packet : fate'[y] # "discarded" => fate'[y] = fate[y]
    BY <1>2, <2>1
  <2>3. \A t_1 \in Thread : \A x \in At(t_1) : x \in Packet
    BY <1>1, Located
  <2> QED
    BY <1>3, <1>4, <2>1, <2>2, <2>3 DEF Judged
<1>11. ASSUME NEW f \in FPs, Drop(f) \/ Accept(f) PROVE Judgements'
  <2>1. f \in Thread /\ at[f] = "work" /\ hand[f] \in Packet
    BY <1>11, Holds DEF Drop, Accept
  <2>2. \A u \in Thread : At(u)' \subseteq At(u)
    <3>1. CASE Drop(f)
      BY <2>1, <3>1, AtRelease DEF Drop
    <3>2. CASE Accept(f)
      BY <3>2, AtStill DEF Accept
    <3> QED
      BY <1>11, <3>1, <3>2
  <2>3. \A y \in Packet : /\ y # hand[f] => fate'[y] = fate[y]
                          /\ y = hand[f] => fate'[y] \in {"accepted", "dropped"}
    BY <1>2, <1>11, <2>1 DEF Drop, Accept
  <2>4. ASSUME NEW t \in Thread, NEW x \in At(t)', NEW y \in Packet, SameFlow(x, y)
        PROVE  /\ fate'[x] = "read" /\ fate'[y] \in Judged => y < x
               /\ fate'[y] = "written" => y < x
    <3>1. x \in At(t) /\ x \in Packet
      BY <1>1, <2>2, Located
    <3>2. CASE y # hand[f]
      <4>1. fate'[y] = fate[y] /\ (fate'[x] = "read" => fate[x] = "read")
        BY <2>3, <3>1, <3>2
      <4> QED
        BY <1>3, <2>4, <3>1, <4>1
    <3>3. CASE y = hand[f]
      <4>1. fate'[y] # "written"
        BY <2>3, <3>3
      <4>2. fate'[x] = "read" => x # hand[f] /\ fate[x] = "read"
        BY <2>3, <3>1
      <4> QED
        BY <2>1, <2>4, <3>1, <3>3, <4>1, <4>2, JudgedFirst
    <3> QED
      BY <3>2, <3>3
  <2> QED
    BY <1>4, <2>4
<1>12. CASE WritePacket
  <2> DEFINE p == hand[Writer]
  <2>1. p \in Packet /\ fate' = [fate EXCEPT ![p] = "written"]
    BY <1>12, Holds DEF WritePacket
  <2>2. /\ \A u \in Thread : At(u)' \subseteq At(u)
        /\ \A x \in At(Writer)' : \E k \in DOMAIN queue[Writer] : queue[Writer][k] = x
    BY <1>12, <2>1, AtRelease DEF WritePacket
  <2>3. fate[p] = "accepted"
    BY <1>1, <1>2, <2>1 DEF FatesInPlace
  <2>4. /\ \A u \in Thread : \A x \in At(u) : SameFlow(x, p) => (u < Writer => p < x)
        /\ \A k \in DOMAIN queue[Writer] : SameFlow(queue[Writer][k], p) => p < queue[Writer][k]
    BY <1>1, <2>1, InHand
  <2> HIDE DEF p
  <2>5. ASSUME NEW t \in Thread, NEW x \in At(t)', NEW y \in Packet, SameFlow(x, y)
        PROVE  /\ fate'[x] = "read" /\ fate'[y] \in Judged => y < x
               /\ fate'[y] = "written" => y < x
    <3>1. x \in At(t) /\ x \in Packet
      BY <1>1, <2>2, Located
    <3>2. fate'[x] = "read" => fate[x] = "read"
      BY <1>2, <2>1, <3>1
    <3>3. CASE y # p
      <4>1. fate'[y] = fate[y]
        BY <1>2, <2>1, <3>3
      <4> QED
        BY <1>3, <2>5, <3>1, <3>2, <4>1
    <3>4. CASE y = p
      <4>1. CASE t = Writer
        BY <2>2, <2>4, <2>5, <3>4, <4>1
      <4>2. CASE t # Writer
        <5>1. t < Writer
          BY <4>2 DEF Thread
        <5> QED
          BY <2>4, <2>5, <3>1, <3>4, <5>1
      <4> QED
        BY <4>1, <4>2
    <3> QED
      BY <3>3, <3>4
  <2> QED
    BY <1>4, <2>5
<1> QED
  BY <1>6, <1>7, <1>8, <1>9, <1>10, <1>11, <1>12, MovesOrStill DEF Moves

(* At the start nothing is in the pipeline.                                *)
LEMMA PipelineOrderInit == Init => PipelineOrder
<1> SUFFICES ASSUME Init PROVE PipelineOrder
  OBVIOUS
<1> USE Numbering
<1>1. /\ \A t \in Thread : hand[t] = NoPacket /\ at[t] = "off"
      /\ \A q \in Queue : queue[q] = <<>>
      /\ file = <<>> /\ \A p \in Packet : fate[p] = "unread"
      /\ next = 1 /\ run = 0 /\ main = "idle"
  BY DEF Init
<1>2. \A t \in Thread : At(t) = {}
  BY <1>1, PacketHash DEF At, NoPacket
<1> QED
  BY <1>1, <1>2 DEF PipelineOrder, Lanes, FatesInPlace, Frontier, InOrder, Judgements

(* The packets of a flow stay in order in every queue, from each queue to  *)
(* the next thread, and from thread to thread, and are judged and written  *)
(* in that order: what makes the order of the output file right.           *)
THEOREM PipelineOrdered == Spec => []PipelineOrder
<1>1. TypeOK /\ TypeOK' /\ PipelineOrder /\ [Next]_vars => PipelineOrder'
  BY LanesStep, FatesStep, FrontierStep, InOrderStep, JudgementsStep DEF PipelineOrder
<1> QED
  BY <1>1, PipelineOrderInit, TypeCorrect, PTL DEF Spec

(* The output file holds the packets of each flow in the order of the      *)
(* capture, none twice.                                                    *)
THEOREM OutputKeepsFlowOrder == Spec => []FlowOrder
<1>1. Init => FlowOrder
  BY DEF Init, FlowOrder
<1>2. TypeOK /\ TypeOK' /\ PipelineOrder /\ FlowOrder /\ [Next]_vars => FlowOrder'
  <2> SUFFICES ASSUME TypeOK, TypeOK', PipelineOrder, FlowOrder, [Next]_vars
               PROVE  FlowOrder'
    OBVIOUS
  <2>1. CASE file' = file \/ file' = <<>>
    BY <2>1 DEF FlowOrder
  <2>2. CASE WritePacket
    <3> DEFINE p == hand[Writer]
    <3>1. /\ p \in Packet /\ p \in At(Writer) /\ Writer \in Thread
          /\ file \in Seq(Packet) /\ file' = Append(file, p)
      BY <2>2, Holds, Numbering DEF WritePacket, At, TypeOK, DataOK
    <3>2. \A k \in DOMAIN file : file[k] \in Packet /\ fate[file[k]] = "written"
      BY <3>1 DEF PipelineOrder, FatesInPlace
    <3> HIDE DEF p
    <3>3. \A k \in DOMAIN file : SameFlow(p, file[k]) => file[k] < p
      BY <3>1, <3>2 DEF PipelineOrder, Judgements
    <3>4. /\ DOMAIN file' = DOMAIN file \cup {Len(file) + 1}
          /\ \A k \in DOMAIN file : k < Len(file) + 1 /\ k \in Nat /\ file'[k] = file[k]
          /\ file'[Len(file) + 1] = p /\ Len(file) + 1 \in Nat
      BY <3>1, Appended
    <3>5. ASSUME NEW j \in DOMAIN file', NEW k \in DOMAIN file', j < k,
                 Capture[file'[j]] = Capture[file'[k]]
          PROVE  file'[j] < file'[k]
      <4>1. j \in DOMAIN file
        BY <3>4, <3>5
      <4>2. CASE k \in DOMAIN file
        BY <3>4, <3>5, <4>1, <4>2 DEF FlowOrder
      <4>3. CASE k = Len(file) + 1
        BY <3>3, <3>4, <3>5, <4>1, <4>3 DEF SameFlow
      <4> QED
        BY <3>4, <4>2, <4>3
    <3> QED
      BY <3>5 DEF FlowOrder
  <2> QED
    BY <2>1, <2>2, MovesOrStill DEF Moves, Still, ReadPacket, Push, PushDiscards,
       Pushed, Pop, Drop, Accept
<1> QED
  BY <1>1, <1>2, PipelineOrdered, TypeCorrect, PTL DEF Spec

(* Nothing reaches the output queue, the writer or the file that has not   *)
(* passed the rule check of a fast path.                                   *)
THEOREM OutputIsChecked == Spec => []OnlyCheckedPackets
<1>1. PipelineOrder => OnlyCheckedPackets
  <2> SUFFICES ASSUME PipelineOrder PROVE OnlyCheckedPackets
    OBVIOUS
  <2>1. Writer \in Queue /\ Writer \in Thread
    BY Numbering
  <2> QED
    BY <2>1 DEF PipelineOrder, FatesInPlace, OnlyCheckedPackets
<1> QED
  BY <1>1, PipelineOrdered, PTL

----------------------------------------------------------------------------
(* The pipeline implements the packet filter.                              *)

(* The abstract fate follows the fate.                                     *)
LEMMA FilterFateStep ==
  ASSUME fate \in [Packet -> Fates], NEW p \in Packet, NEW s \in Fates,
         fate' = [fate EXCEPT ![p] = s]
  PROVE  [x \in Packet |-> FilterFate(fate[x])]'
           = [[x \in Packet |-> FilterFate(fate[x])] EXCEPT ![p] = FilterFate(s)]
BY DEF FilterFate

(* What is unread or read is pending, and so on.                           *)
LEMMA FilterFates ==
  ASSUME fate \in [Packet -> Fates], NEW p \in Packet
  PROVE  /\ FilterFate(fate[p]) = "pending" <=> fate[p] \in {"unread", "read"}
         /\ FilterFate(fate[p]) = "lost" <=> fate[p] = "discarded"
         /\ FilterFate(fate[p]) = "accepted" <=> fate[p] = "accepted"
         /\ FilterFate(fate[p]) = "written" <=> fate[p] = "written"
         /\ FilterFate(fate[p]) \in {"pending", "lost", "accepted", "dropped", "written"}
BY DEF FilterFate, Fates

(* The verdict of a fast path is a judgement.                              *)
LEMMA FilterJudge ==
  ASSUME TypeOK, PipelineOrder, NEW f \in FPs, Drop(f) \/ Accept(f)
  PROVE  Filter!Judge(hand[f])
<1> DEFINE p == hand[f]
<1>1. /\ f \in Thread /\ p \in Packet /\ p \in At(f) /\ at[f] = "work" /\ file' = file
      /\ f # Writer /\ fate \in [Packet -> Fates]
  BY Holds, Numbering DEF Drop, Accept, At, TypeOK, DataOK
<1>2. fate[p] = "read"
  BY <1>1, PacketHash DEF PipelineOrder, FatesInPlace, NoPacket
<1>3. \E v \in {"accepted", "dropped"} : fate' = [fate EXCEPT ![p] = v]
  BY DEF Drop, Accept
<1> HIDE DEF p
<1>4. \A y \in Packet : SameFlow(p, y) /\ y > p => fate[y] \notin {"accepted", "dropped", "written"}
  BY <1>1, <1>2, PacketHash DEF PipelineOrder, Judgements
<1>5. \A y \in Filter!Later(p) : FilterFate(fate[y]) \in {"pending", "lost"}
  BY <1>1, <1>4, FilterFates DEF Filter!Later, SameFlow, FilterFate, Fates
<1>6. \E v \in {"accepted", "dropped"} :
        [x \in Packet |-> FilterFate(fate[x])]'
          = [[x \in Packet |-> FilterFate(fate[x])] EXCEPT ![p] = v]
  <2>1. PICK v \in {"accepted", "dropped"} : fate' = [fate EXCEPT ![p] = v]
    BY <1>3
  <2>2. v \in Fates /\ FilterFate(v) = v
    BY DEF Fates, FilterFate
  <2> QED
    BY <1>1, <2>1, <2>2, FilterFateStep
<1>7. FilterFate(fate[p]) = "pending"
  BY <1>1, <1>2, FilterFates
<1>8. \A y \in Filter!Later(p) : y \in Packet
  BY DEF Filter!Later
<1> QED
  BY <1>1, <1>5, <1>6, <1>7, <1>8 DEF Filter!Judge, p

(* What the writer writes is a write of the filter.                        *)
LEMMA FilterWrite ==
  ASSUME TypeOK, PipelineOrder, WritePacket
  PROVE  Filter!Write(hand[Writer])
<1> DEFINE p == hand[Writer]
<1>1. /\ Writer \in Thread /\ p \in Packet /\ p \in At(Writer) /\ fate \in [Packet -> Fates]
      /\ file' = Append(file, p) /\ fate' = [fate EXCEPT ![p] = "written"]
  BY Holds, Numbering DEF WritePacket, At, TypeOK, DataOK
<1>2. fate[p] = "accepted"
  BY <1>1, PacketHash DEF PipelineOrder, FatesInPlace, NoPacket
<1> HIDE DEF p
<1>3. \A y \in Packet : SameFlow(p, y) /\ y > p => fate[y] # "written"
  BY <1>1, PacketHash DEF PipelineOrder, Judgements
<1>4. \A y \in Filter!Later(p) : y \in Packet /\ FilterFate(fate[y]) # "written"
  BY <1>1, <1>3, FilterFates DEF Filter!Later, SameFlow
<1>5. "written" \in Fates /\ FilterFate("written") = "written"
  BY DEF Fates, FilterFate
<1>6. [x \in Packet |-> FilterFate(fate[x])]'
        = [[x \in Packet |-> FilterFate(fate[x])] EXCEPT ![p] = "written"]
  BY <1>1, <1>5, FilterFateStep
<1>7. FilterFate(fate[p]) = "accepted"
  BY <1>1, <1>2, FilterFates
<1> QED
  BY <1>1, <1>4, <1>6, <1>7 DEF Filter!Write, p

(* A push into a queue that is shut down loses the packet.                 *)
LEMMA FilterLose ==
  ASSUME TypeOK, PipelineOrder, NEW t \in Thread, PushDiscards(t)
  PROVE  Filter!Lose(hand[t])
<1> DEFINE p == hand[t]
<1>1. /\ p \in Packet /\ fate \in [Packet -> Fates] /\ file' = file
      /\ fate' = [fate EXCEPT ![p] = "discarded"]
  BY PushTarget DEF PushDiscards, Pushed, TypeOK, DataOK
<1>2. fate[p] \in {"read", "accepted"}
  BY <1>1, PacketHash DEF PipelineOrder, FatesInPlace, NoPacket
<1> HIDE DEF p
<1>3. "discarded" \in Fates /\ FilterFate("discarded") = "lost"
  BY DEF Fates, FilterFate
<1>4. [x \in Packet |-> FilterFate(fate[x])]'
        = [[x \in Packet |-> FilterFate(fate[x])] EXCEPT ![p] = "lost"]
  BY <1>1, <1>3, FilterFateStep
<1>5. FilterFate(fate[p]) \in {"pending", "accepted"}
  BY <1>1, <1>2, FilterFates
<1> QED
  BY <1>1, <1>4, <1>5 DEF Filter!Lose, p

(* Reading a packet changes nothing that the filter sees.                  *)
LEMMA FilterRead ==
  ASSUME TypeOK, PipelineOrder, ReadPacket
  PROVE  UNCHANGED Filter!vars
<1>1. /\ next \in Packet /\ next \in Nat /\ file' = file
      /\ fate \in [Packet -> Fates] /\ fate' = [fate EXCEPT ![next] = "read"]
  BY NextPacket, PacketHash DEF ReadPacket, TypeOK, DataOK
<1>2. fate[next] = "unread"
  BY <1>1 DEF PipelineOrder, Frontier
<1>3. "read" \in Fates /\ FilterFate("read") = "pending"
  BY DEF Fates, FilterFate
<1>4. FilterFate(fate[next]) = "pending"
  BY <1>1, <1>2, FilterFates
<1>5. [x \in Packet |-> FilterFate(fate[x])]'
        = [[x \in Packet |-> FilterFate(fate[x])] EXCEPT ![next] = "pending"]
  BY <1>1, <1>3, FilterFateStep
<1>6. [x \in Packet |-> FilterFate(fate[x])]' = [x \in Packet |-> FilterFate(fate[x])]
  BY <1>1, <1>4, <1>5
<1> QED
  BY <1>1, <1>6 DEF Filter!vars

(* A step that changes no fate opens a new file, or is not seen at all.    *)
LEMMA FilterStutter ==
  ASSUME fate' = fate, file' = file \/ file' = <<>>
  PROVE  [Filter!NewFile]_(Filter!vars)
<1>1. [x \in Packet |-> FilterFate(fate[x])]' = [x \in Packet |-> FilterFate(fate[x])]
  OBVIOUS
<1> QED
  BY <1>1 DEF Filter!NewFile, Filter!vars

(* The engine is a packet filter that judges and writes the packets of     *)
(* each flow in order, each at most once, none without a verdict.          *)
THEOREM EngineImplementsFilter == Spec => ImplementsFilter
<1>1. Init => Filter!Init
  <2>1. Init => \A x \in Packet : FilterFate(fate[x]) = "pending"
    BY DEF Init, FilterFate
  <2> QED
    BY <2>1 DEF Init, Filter!Init
<1>2. TypeOK /\ TypeOK' /\ PipelineOrder /\ [Next]_vars => [Filter!Next]_(Filter!vars)
  <2> SUFFICES ASSUME TypeOK, TypeOK', PipelineOrder, [Next]_vars
               PROVE  [Filter!Next]_(Filter!vars)
    OBVIOUS
  <2>1. CASE Still
    BY <2>1, FilterStutter DEF Still, Filter!Next
  <2>2. CASE ReadPacket
    BY <2>2, FilterRead
  <2>3. ASSUME NEW t \in Thread, Push(t) PROVE [Filter!Next]_(Filter!vars)
    BY <2>3, FilterStutter DEF Push, Pushed, Filter!Next
  <2>4. ASSUME NEW t \in Queue, Pop(t) PROVE [Filter!Next]_(Filter!vars)
    BY <2>4, FilterStutter DEF Pop, Filter!Next
  <2>5. ASSUME NEW t \in Thread, PushDiscards(t) PROVE Filter!Next
    BY <2>5, FilterLose, PushTarget DEF PushDiscards, Filter!Next
  <2>6. ASSUME NEW f \in FPs, Drop(f) \/ Accept(f) PROVE Filter!Next
    <3>1. hand[f] \in Packet
      BY <2>6, Holds, Numbering DEF Drop, Accept
    <3> QED
      BY <2>6, <3>1, FilterJudge DEF Filter!Next
  <2>7. CASE WritePacket
    <3>1. hand[Writer] \in Packet
      BY <2>7, Holds, Numbering DEF WritePacket
    <3> QED
      BY <2>7, <3>1, FilterWrite DEF Filter!Next
  <2> QED
    BY <2>1, <2>2, <2>3, <2>4, <2>5, <2>6, <2>7, MovesOrStill DEF Moves
<1> QED
  BY <1>1, <1>2, TypeCorrect, PipelineOrdered, PTL DEF Spec, Filter!Spec, ImplementsFilter

----------------------------------------------------------------------------
(* The header of the output file.                                          *)

(* Until the header of the first file has been written no packet has been  *)
(* read; and the file of a call that is still to come has none.            *)
HeaderPending ==
  /\ run = 0 => ~header
  /\ run <= 1 /\ ~header =>
       /\ \A p \in Packet : fate[p] = "unread"
       /\ file = <<>>
       /\ at[Reader] \in {"off", "open"}

(* With no packet read, none is in a hand or in a queue.                   *)
LEMMA NothingRead ==
  ASSUME TypeOK, PipelineOrder, \A p \in Packet : fate[p] = "unread"
  PROVE  /\ \A t \in Thread : hand[t] = NoPacket /\ at[t] \notin {"work", "push"}
         /\ \A q \in Queue : queue[q] = <<>>
<1>1. \A t \in Thread : hand[t] = NoPacket
  <2> SUFFICES ASSUME NEW t \in Thread, hand[t] # NoPacket PROVE FALSE
    OBVIOUS
  <2>1. hand[t] \in Packet
    BY DEF TypeOK, ThreadsOK
  <2>2. fate[hand[t]] \in {"accepted", "read"}
    BY DEF PipelineOrder, FatesInPlace
  <2> QED
    BY <2>1, <2>2
<1>2. \A q \in Queue : queue[q] = <<>>
  <2> SUFFICES ASSUME NEW q \in Queue, queue[q] # <<>> PROVE FALSE
    OBVIOUS
  <2>1. queue[q] \in Seq(Packet) /\ 1 \in DOMAIN queue[q] /\ queue[q][1] \in Packet
    BY DEF TypeOK, DataOK
  <2>2. fate[queue[q][1]] \in {"accepted", "read"}
    BY <2>1 DEF PipelineOrder, FatesInPlace
  <2> QED
    BY <2>1, <2>2
<1> QED
  BY <1>1, <1>2 DEF TypeOK, ThreadsOK

(* No step reads a packet of the first file before its header is written.  *)
LEMMA HeaderStep ==
  TypeOK /\ PipelineOrder /\ HeaderPending /\ [Next]_vars => HeaderPending'
<1> SUFFICES ASSUME TypeOK, PipelineOrder, HeaderPending, [Next]_vars PROVE HeaderPending'
  OBVIOUS
<1> USE Numbering
<1>0. run \in Nat /\ header \in BOOLEAN
  BY EngineAssumption DEF TypeOK, ControlOK, DataOK, EngineAssumption
<1>1. CASE OpenOutputFails \/ Start
  <2>1. /\ main = "idle" /\ run' = run + 1 /\ file' = <<>> /\ fate' = fate
        /\ at'[Reader] = at[Reader]
    BY <1>1 DEF OpenOutputFails, Start, TypeOK, ThreadsOK
  <2>2. at[Reader] = "off"
    BY <2>1, ReaderRuns
  <2> QED
    BY <1>0, <2>1, <2>2 DEF HeaderPending
<1>2. CASE header \/ run > 1
  <2>1. \/ UNCHANGED run /\ header' \in {header, TRUE}
        \/ OpenOutputFails \/ Start
    BY DEF Next, MainStep, ReaderStep, WorkerStep, WriterStep, StartFastPaths,
       StartLoadBalancers, StartWorkers, StartReader, WaitForCompletion, StopRequest,
       StopWorker, ShutWorkerQueue, JoinWorker, ShutOutputQueue, JoinWriter, Finished,
       OpenInputFails, OpenInput, SkipRecord, ReadPacket, EndOfFile, Push, PushDiscards,
       Pushed, CountDispatched, CheckRunning, TryPopFails, Pop, Drop, Accept, WriterChecksRunning,
       WriterChecksEmpty, WriterPopFails, WritePacket, control, vars
  <2>2. CASE header /\ UNCHANGED run /\ header' \in {header, TRUE}
    <3>1. header' /\ run' # 0
      BY <2>2 DEF HeaderPending
    <3> QED
      BY <3>1 DEF HeaderPending
  <2>3. CASE run > 1 /\ UNCHANGED run
    <3>1. run' # 0 /\ ~(run' <= 1)
      BY <1>0, <2>3
    <3> QED
      BY <3>1 DEF HeaderPending
  <2> QED
    BY <1>1, <1>2, <2>1, <2>2, <2>3
<1>3. CASE ~header /\ run <= 1 /\ ~OpenOutputFails /\ ~Start
  <2>1. /\ \A p \in Packet : fate[p] = "unread"
        /\ file = <<>> /\ at[Reader] \in {"off", "open"}
    BY <1>3 DEF HeaderPending
  <2>2. /\ \A t \in Thread : hand[t] = NoPacket /\ at[t] \notin {"work", "push"}
        /\ \A q \in Queue : queue[q] = <<>>
    BY <2>1, NothingRead
  <2>3. CASE OpenInput
    <3>1. header' = TRUE /\ run' = run /\ run # 0
      BY <2>3, ReaderRuns DEF OpenInput, control
    <3> QED
      BY <3>1 DEF HeaderPending
  <2>4. ~Moves
    BY <2>1, <2>2 DEF Moves, ReadPacket, Push, PushDiscards, Pop, Drop, Accept, WritePacket
  <2>5. CASE ~OpenInput
    <3>1. UNCHANGED <<run, header, file, fate>>
      BY <1>3, <2>4, <2>5 DEF Moves, Next, MainStep, ReaderStep, WorkerStep, WriterStep,
         StartFastPaths, StartLoadBalancers, StartWorkers, StartReader,
         WaitForCompletion, StopRequest, StopWorker, ShutWorkerQueue, JoinWorker,
         ShutOutputQueue, JoinWriter, Finished, OpenInputFails, SkipRecord, EndOfFile,
         CountDispatched, CheckRunning, TryPopFails, WriterChecksRunning,
         WriterChecksEmpty, WriterPopFails, control, counters, vars
    <3>2. at \in [Thread -> Places]
      BY DEF TypeOK, ThreadsOK
    <3>3. at'[Reader] = at[Reader] \/ at'[Reader] \in {"off", "open"}
      BY <1>3, <2>1, <2>4, <2>5, <3>2 DEF Moves, Next, MainStep, ReaderStep, WorkerStep,
         WriterStep, StartFastPaths, StartLoadBalancers, StartWorkers, StartReader,
         WaitForCompletion, StopRequest, StopWorker, ShutWorkerQueue, JoinWorker,
         ShutOutputQueue, JoinWriter, Finished, OpenInputFails, SkipRecord, EndOfFile,
         CountDispatched, CheckRunning, TryPopFails, WriterChecksRunning,
         WriterChecksEmpty, WriterPopFails, control, counters, vars
    <3> QED
      BY <2>1, <3>1, <3>3 DEF HeaderPending
  <2> QED
    BY <2>3, <2>5
<1> QED
  BY <1>0, <1>1, <1>2, <1>3

(* In the first call of processFile the writer never writes a packet       *)
(* before the reader has written the header of the file.                   *)
THEOREM HeaderComesFirst == Spec => []HeaderFirst
<1>1. Init => HeaderPending
  BY Numbering DEF Init, HeaderPending
<1>2. HeaderPending => HeaderFirst
  BY DEF HeaderPending, HeaderFirst
<1> QED
  BY <1>1, <1>2, HeaderStep, TypeCorrect, PipelineOrdered, PTL DEF Spec

----------------------------------------------------------------------------
(* What the balancers dispatched.                                          *)

(* The balancers that have pushed a packet to f and not yet counted it.    *)
Uncounted(f) == {l \in LBs : fp_index[l] = f}

(* What was dispatched to fast path f, and what it has of that.            *)
Dispatched(f) == per_fp_counts_[f] + Cardinality(Uncounted(f))
Arrived(f) == packets_processed_[f] + packets_dropped_[f] + Len(queue[f])
                + (IF at[f] = "work" THEN 1 ELSE 0)

LEMMA UncountedFinite ==
  ASSUME NEW f \in FPs
  PROVE  IsFiniteSet(Uncounted(f)) /\ Cardinality(Uncounted(f)) \in Nat
<1>1. IsFiniteSet(1..NumLBs)
  BY Numbering, FS_Interval
<1>2. Uncounted(f) \subseteq 1..NumLBs
  BY DEF LBs, Uncounted
<1> QED
  BY <1>1, <1>2, FS_Subset, FS_CardinalityType

(* A step that neither pushes nor counts changes nothing of what was       *)
(* dispatched.                                                             *)
LEMMA DispatchedStill ==
  ASSUME UNCHANGED <<per_fp_counts_, fp_index>>, NEW f \in FPs
  PROVE  Dispatched(f)' = Dispatched(f)
BY DEF Dispatched, Uncounted

(* A step that pops nothing and judges nothing leaves alone what a fast    *)
(* path has.                                                               *)
LEMMA ArrivedStill ==
  ASSUME NEW f \in FPs, UNCHANGED <<packets_processed_, packets_dropped_>>,
         queue'[f] = queue[f], at'[f] = "work" <=> at[f] = "work"
  PROVE  Arrived(f)' = Arrived(f)
BY DEF Arrived

(* A push puts its balancer among those that have to count, ...            *)
LEMMA DispatchedPush ==
  ASSUME TypeOK, NEW t \in Thread, Push(t), NEW f \in FPs
  PROVE  Dispatched(f)' = IF f = Dest(t, hand[t]) THEN Dispatched(f) + 1 ELSE Dispatched(f)
<1> DEFINE q == Dest(t, hand[t])
<1> USE Numbering
<1>1. /\ at[t] = "push" /\ hand[t] \in Packet /\ per_fp_counts_' = per_fp_counts_
      /\ fp_index' = IF t \in LBs THEN [fp_index EXCEPT ![t] = q] ELSE fp_index
      /\ t \notin LBs => q \notin FPs
  <2>1. at[t] = "push"
    BY DEF Push
  <2> QED
    BY <2>1, PushTarget, Routes DEF Push, Pushed
<1> HIDE DEF q
<1>2. CASE t \notin LBs
  BY <1>1, <1>2, DispatchedStill DEF q
<1>3. CASE t \in LBs
  <2>1. fp_index[t] = NoIndex /\ fp_index \in [LBs -> FPs \cup {NoIndex}] /\ f # NoIndex
    BY <1>1, <1>3 DEF TypeOK, ThreadsOK, NoIndex
  <2>2. t \notin Uncounted(f)
    BY <2>1 DEF Uncounted
  <2>3. CASE f = q
    <3>1. Uncounted(f)' = Uncounted(f) \cup {t}
      BY <1>1, <1>3, <2>1, <2>3 DEF Uncounted
    <3>2. Cardinality(Uncounted(f)') = Cardinality(Uncounted(f)) + 1
      BY <2>2, <3>1, UncountedFinite, FS_AddElement
    <3>3. per_fp_counts_[f] \in Nat
      BY DEF TypeOK, DataOK
    <3> QED
      BY <1>1, <2>3, <3>2, <3>3, UncountedFinite DEF Dispatched, q
  <2>4. CASE f # q
    <3>1. Uncounted(f)' = Uncounted(f)
      BY <1>1, <1>3, <2>1, <2>4 DEF Uncounted
    <3> QED
      BY <1>1, <2>4, <3>1 DEF Dispatched, q
  <2> QED
    BY <2>3, <2>4
<1> QED
  BY <1>2, <1>3

(* ... and makes the queue of the fast path one longer.                    *)
LEMMA ArrivedPush ==
  ASSUME TypeOK, NEW t \in Thread, Push(t), NEW f \in FPs
  PROVE  Arrived(f)' = IF f = Dest(t, hand[t]) THEN Arrived(f) + 1 ELSE Arrived(f)
<1> DEFINE q == Dest(t, hand[t])
<1> USE Numbering
<1>1. /\ at[t] = "push" /\ hand[t] \in Packet /\ q \in Queue
      /\ at' = [at EXCEPT ![t] = IF t \in LBs THEN "count" ELSE "check"]
      /\ queue' = [queue EXCEPT ![q] = Append(queue[q], hand[t])]
      /\ UNCHANGED <<packets_processed_, packets_dropped_>>
  <2>1. at[t] = "push"
    BY DEF Push
  <2> QED
    BY <2>1, PushTarget DEF Push, Pushed
<1> HIDE DEF q
<1>2. at'[f] = "work" <=> at[f] = "work"
  BY <1>1 DEF TypeOK, ThreadsOK
<1>3. CASE f # q
  <2>1. queue'[f] = queue[f]
    BY <1>1, <1>3 DEF TypeOK, DataOK
  <2> QED
    BY <1>1, <1>2, <1>3, <2>1, ArrivedStill DEF q
<1>4. CASE f = q
  <2>1. queue[f] \in Seq(Packet) /\ queue'[f] = Append(queue[f], hand[t])
    BY <1>1, <1>4 DEF TypeOK, DataOK
  <2>2. Len(queue'[f]) = Len(queue[f]) + 1 /\ Len(queue[f]) \in Nat
    BY <1>1, <2>1
  <2>3. packets_processed_[f] \in Nat /\ packets_dropped_[f] \in Nat
    BY DEF TypeOK, DataOK
  <2>4. Arrived(f)' = Arrived(f) + 1
    BY <1>1, <1>2, <2>2, <2>3 DEF Arrived
  <2> QED
    BY <1>4, <2>4 DEF q
<1> QED
  BY <1>3, <1>4

(* The balancer counts its push: it was one of those that had to.         *)
LEMMA DispatchedCount ==
  ASSUME TypeOK, NEW l \in LBs, CountDispatched(l), NEW f \in FPs
  PROVE  Dispatched(f)' = Dispatched(f) /\ Arrived(f)' = Arrived(f)
<1> USE Numbering
<1>1. /\ fp_index[l] \in FPs /\ fp_index \in [LBs -> FPs \cup {NoIndex}]
      /\ per_fp_counts_ \in [FPs -> Nat] /\ f # NoIndex
      /\ per_fp_counts_' = [per_fp_counts_ EXCEPT ![fp_index[l]] = @ + 1]
      /\ fp_index' = [fp_index EXCEPT ![l] = NoIndex]
  BY DEF CountDispatched, TypeOK, ThreadsOK, DataOK, NoIndex
<1>2. Arrived(f)' = Arrived(f)
  BY ArrivedStill DEF CountDispatched, TypeOK, ThreadsOK
<1>3. CASE fp_index[l] = f
  <2>1. l \in Uncounted(f) /\ Uncounted(f)' = Uncounted(f) \ {l}
    BY <1>1, <1>3 DEF Uncounted
  <2>2. Cardinality(Uncounted(f) \ {l}) = Cardinality(Uncounted(f)) - 1
    BY <2>1, UncountedFinite, FS_RemoveElement
  <2>3. per_fp_counts_'[f] = per_fp_counts_[f] + 1 /\ per_fp_counts_[f] \in Nat
    BY <1>1, <1>3
  <2> QED
    BY <1>2, <2>1, <2>2, <2>3, UncountedFinite DEF Dispatched
<1>4. CASE fp_index[l] # f
  <2>1. Uncounted(f)' = Uncounted(f) /\ per_fp_counts_'[f] = per_fp_counts_[f]
    BY <1>1, <1>4 DEF Uncounted
  <2> QED
    BY <1>2, <2>1 DEF Dispatched
<1> QED
  BY <1>3, <1>4

(* A fast path takes a packet from its queue to work on it.                *)
LEMMA ArrivedPop ==
  ASSUME TypeOK, NEW t \in Queue, Pop(t), NEW f \in FPs
  PROVE  Arrived(f)' = Arrived(f) /\ Dispatched(f)' = Dispatched(f)
<1> USE Numbering
<1>1. /\ at[t] = "pop" /\ queue[t] # <<>> /\ queue[t] \in Seq(Packet)
      /\ queue' = [queue EXCEPT ![t] = Tail(queue[t])]
      /\ at' = [at EXCEPT ![t] = IF t \in LBs THEN "push" ELSE "work"]
      /\ UNCHANGED <<per_fp_counts_, fp_index, packets_processed_, packets_dropped_>>
  BY DEF Pop, counters, TypeOK, DataOK
<1>2. Dispatched(f)' = Dispatched(f)
  BY <1>1, DispatchedStill
<1>3. CASE f # t
  <2>1. queue'[f] = queue[f] /\ at'[f] = at[f]
    BY <1>1, <1>3 DEF TypeOK, DataOK, ThreadsOK
  <2> QED
    BY <1>1, <1>2, <2>1, ArrivedStill
<1>4. CASE f = t
  <2>1. queue'[f] = Tail(queue[f]) /\ Len(queue'[f]) = Len(queue[f]) - 1 /\ Len(queue[f]) \in Nat
    BY <1>1, <1>4 DEF TypeOK, DataOK
  <2>2. at[f] # "work" /\ at'[f] = "work"
    BY <1>1, <1>4 DEF TypeOK, ThreadsOK
  <2>3. packets_processed_[f] \in Nat /\ packets_dropped_[f] \in Nat
    BY DEF TypeOK, DataOK
  <2>4. Arrived(f) = packets_processed_[f] + packets_dropped_[f] + Len(queue[f])
    BY <2>1, <2>2, <2>3 DEF Arrived
  <2>5. Arrived(f)' = packets_processed_[f] + packets_dropped_[f] + (Len(queue[f]) - 1) + 1
    BY <1>1, <2>1, <2>2 DEF Arrived
  <2> QED
    BY <1>2, <2>1, <2>3, <2>4, <2>5
<1> QED
  BY <1>3, <1>4

(* A verdict ends the work and counts the packet once.                     *)
LEMMA ArrivedJudge ==
  ASSUME TypeOK, NEW g \in FPs, Drop(g) \/ Accept(g), NEW f \in FPs
  PROVE  Arrived(f)' = Arrived(f) /\ Dispatched(f)' = Dispatched(f)
<1> USE Numbering
<1>1. packets_processed_[f] \in Nat /\ packets_dropped_[f] \in Nat /\ Len(queue[f]) \in Nat
  BY DEF TypeOK, DataOK
<1>2. Dispatched(f)' = Dispatched(f)
  BY DispatchedStill DEF Drop, Accept
<1>3. CASE f # g
  <2>1. /\ at'[f] = at[f] /\ queue' = queue
        /\ packets_processed_'[f] = packets_processed_[f]
        /\ packets_dropped_'[f] = packets_dropped_[f]
    <3>1. f \in Thread /\ at \in [Thread -> Places]
          /\ packets_processed_ \in [FPs -> Nat] /\ packets_dropped_ \in [FPs -> Nat]
      BY DEF TypeOK, DataOK, ThreadsOK
    <3>2. CASE Drop(g)
      BY <1>3, <3>1, <3>2 DEF Drop
    <3>3. CASE Accept(g)
      BY <1>3, <3>1, <3>3 DEF Accept
    <3> QED
      BY <3>2, <3>3
  <2> QED
    BY <1>2, <2>1 DEF Arrived
<1>4. CASE f = g
  <2>1. Arrived(f)' = Arrived(f)
    BY <1>1, <1>4 DEF Drop, Accept, Arrived, TypeOK, DataOK, ThreadsOK
  <2> QED
    BY <1>2, <2>1
<1> QED
  BY <1>3, <1>4

(* The steps that are no moves and no counts neither start nor end the     *)
(* work on a packet.                                                       *)
LEMMA StillCounts ==
  ASSUME TypeOK, [Next]_vars, ~Moves, \A l \in LBs : ~CountDispatched(l), NEW f \in FPs
  PROVE  /\ UNCHANGED <<per_fp_counts_, fp_index, packets_processed_, packets_dropped_>>
         /\ at'[f] = "work" <=> at[f] = "work"
<1> USE Numbering
<1>1. UNCHANGED <<per_fp_counts_, fp_index, packets_processed_, packets_dropped_>>
  BY DEF Moves, Next, MainStep, ReaderStep, WorkerStep, WriterStep, OpenOutputFails,
     Start, StartFastPaths, StartLoadBalancers, StartWorkers, StartReader,
     WaitForCompletion, StopRequest, StopWorker, ShutWorkerQueue, JoinWorker,
     ShutOutputQueue, JoinWriter, Finished, OpenInputFails, OpenInput, SkipRecord,
     EndOfFile, CheckRunning, TryPopFails, WriterChecksRunning, WriterChecksEmpty,
     WriterPopFails, counters, vars
<1>2. at \in [Thread -> Places] /\ f \in Thread /\ f # Reader /\ f # Writer /\ f \notin LBs
  BY DEF TypeOK, ThreadsOK
<1>3. CASE UNCHANGED at
  BY <1>1, <1>3
<1>4. CASE Start \/ StartReader \/ OpenInputFails \/ OpenInput \/ EndOfFile
           \/ WriterChecksRunning \/ WriterChecksEmpty \/ WriterPopFails
           \/ StartLoadBalancers
  <2>1. at'[f] = at[f]
    BY <1>2, <1>4 DEF Start, StartReader, OpenInputFails, OpenInput, EndOfFile,
       WriterChecksRunning, WriterChecksEmpty, WriterPopFails, StartLoadBalancers,
       StartWorkers
  <2> QED
    BY <1>1, <2>1
<1>5. CASE StartFastPaths
  <2>1. at[f] = "off"
    BY <1>2, <1>5 DEF StartFastPaths, TypeOK, PhaseOK, Alive
  <2>2. at'[f] = "check"
    BY <1>2, <1>5 DEF StartFastPaths, StartWorkers
  <2> QED
    BY <1>1, <2>1, <2>2
<1>6. ASSUME NEW w \in Worker, CheckRunning(w) \/ TryPopFails(w)
      PROVE  at'[f] = "work" <=> at[f] = "work"
  BY <1>2, <1>6 DEF CheckRunning, TryPopFails
<1> QED
  BY <1>1, <1>3, <1>4, <1>5, <1>6 DEF Moves, Next, MainStep, ReaderStep, WorkerStep,
     WriterStep, OpenOutputFails, WaitForCompletion, StopRequest, StopWorker,
     ShutWorkerQueue, JoinWorker, ShutOutputQueue, JoinWriter, Finished, SkipRecord, vars

(* While processFile runs for the first time, what the balancers have      *)
(* pushed to a fast path, counted or about to be, has been judged there,   *)
(* is being judged, or waits in its queue.                                 *)
THEOREM DispatchesArrive == Spec => []DispatchedArrives
<1>1. Init => DispatchedArrives
  <2> SUFFICES ASSUME Init, NEW f \in FPs PROVE Dispatched(f) = Arrived(f)
    BY DEF DispatchedArrives, Dispatched, Uncounted, Arrived
  <2> USE Numbering
  <2>1. Uncounted(f) = {}
    BY DEF Init, Uncounted, NoIndex
  <2>2. Cardinality(Uncounted(f)) = 0
    BY <2>1, FS_EmptySet
  <2>3. f \in Thread /\ f \in Queue /\ Len(<<>>) = 0
    OBVIOUS
  <2> QED
    BY <2>2, <2>3 DEF Init, Dispatched, Arrived
<1>2. ASSUME TypeOK, TypeOK', StagedShutdown, DispatchedArrives, [Next]_vars
      PROVE  DispatchedArrives'
  <2> SUFFICES ASSUME run' <= 1, NEW f \in FPs PROVE Dispatched(f)' = Arrived(f)'
    BY DEF DispatchedArrives, Dispatched, Uncounted, Arrived
  <2> USE Numbering
  <2>0. run \in Nat
    BY <1>2, EngineAssumption DEF TypeOK, ControlOK, EngineAssumption
  <2>1. run <= 1
    <3>1. run' = run \/ run' = run + 1
      BY <1>2 DEF Next, MainStep, ReaderStep, WorkerStep, WriterStep, OpenOutputFails,
         Start, StartFastPaths, StartLoadBalancers, StartWorkers, StartReader,
         WaitForCompletion, StopRequest, StopWorker, ShutWorkerQueue, JoinWorker,
         ShutOutputQueue, JoinWriter, Finished, OpenInputFails, OpenInput, SkipRecord,
         ReadPacket, EndOfFile, Push, PushDiscards, Pushed, CountDispatched, CheckRunning,
         TryPopFails, Pop, Drop, Accept, WriterChecksRunning, WriterChecksEmpty,
         WriterPopFails, WritePacket, control, vars
    <3> QED
      BY <2>0, <3>1
  <2>2. Dispatched(f) = Arrived(f)
    BY <1>2, <2>1 DEF DispatchedArrives, Dispatched, Uncounted, Arrived
  <2>3. CASE ~Moves /\ \A l \in LBs : ~CountDispatched(l)
    <3>1. queue' = queue
      BY <1>2, <2>3, MovesOrStill DEF Still
    <3>2. /\ UNCHANGED <<per_fp_counts_, fp_index, packets_processed_, packets_dropped_>>
          /\ at'[f] = "work" <=> at[f] = "work"
      BY <1>2, <2>3, StillCounts
    <3> QED
      BY <2>2, <3>1, <3>2, DispatchedStill, ArrivedStill
  <2>4. ASSUME NEW t \in Thread, Push(t) PROVE Dispatched(f)' = Arrived(f)'
    <3>1. CASE f = Dest(t, hand[t])
      BY <1>2, <2>2, <2>4, <3>1, DispatchedPush, ArrivedPush
    <3>2. CASE f # Dest(t, hand[t])
      BY <1>2, <2>2, <2>4, <3>2, DispatchedPush, ArrivedPush
    <3> QED
      BY <3>1, <3>2
  <2>5. ASSUME NEW t \in Thread, PushDiscards(t) PROVE FALSE
    BY <1>2, <2>1, <2>5 DEF StagedShutdown, PushDiscards
  <2>6. ASSUME NEW t \in Queue, Pop(t) PROVE Dispatched(f)' = Arrived(f)'
    BY <1>2, <2>2, <2>6, ArrivedPop
  <2>7. ASSUME NEW g \in FPs, Drop(g) \/ Accept(g) PROVE Dispatched(f)' = Arrived(f)'
    BY <1>2, <2>2, <2>7, ArrivedJudge
  <2>8. CASE ReadPacket \/ WritePacket
    <3>1. /\ UNCHANGED <<per_fp_counts_, fp_index, packets_processed_, packets_dropped_>>
          /\ queue' = queue
          /\ \/ at' = [at EXCEPT ![Reader] = "push"]
             \/ at' = [at EXCEPT ![Writer] = "check"]
      BY <2>8 DEF ReadPacket, WritePacket
    <3>2. at \in [Thread -> Places] /\ f \in Thread /\ f # Reader /\ f # Writer
      BY <1>2 DEF TypeOK, ThreadsOK
    <3>3. at'[f] = at[f]
      BY <3>1, <3>2
    <3> QED
      BY <2>2, <3>1, <3>3, DispatchedStill, ArrivedStill
  <2>9. ASSUME NEW l \in LBs, CountDispatched(l) PROVE Dispatched(f)' = Arrived(f)'
    BY <1>2, <2>2, <2>9, DispatchedCount
  <2> QED
    BY <2>3, <2>4, <2>5, <2>6, <2>7, <2>8, <2>9 DEF Moves
<1> QED
  BY <1>1, <1>2, TypeCorrect, NoPushIntoShutQueue, PTL DEF Spec

----------------------------------------------------------------------------
(* The place of every packet.                                              *)

(* A packet that has been read and not been settled is somewhere.          *)
Present ==
  \A p \in Packet : fate[p] \in {"read", "accepted"} =>
    \E t \in Thread : p \in At(t)

(* Whoever gives up the packet in its hand takes no other one along.       *)
LEMMA KeptOnRelease ==
  ASSUME TypeOK, NEW t \in Thread, hand' = [hand EXCEPT ![t] = NoPacket],
         queue' = queue, NEW u \in Thread, NEW x \in At(u), x # hand[t]
  PROVE  x \in At(u)'
BY DEF At, TypeOK, ThreadsOK

(* A packet that is pushed is in the queue, and no other one leaves.       *)
LEMMA KeptOnPush ==
  ASSUME TypeOK, NEW t \in Thread, Push(t), NEW u \in Thread, NEW x \in At(u)
  PROVE  \E v \in Thread : x \in At(v)'
<1> DEFINE q == Dest(t, hand[t])
<1> USE Numbering
<1>1. /\ hand[t] \in Packet /\ q \in Queue /\ queue[q] \in Seq(Packet)
      /\ hand' = [hand EXCEPT ![t] = NoPacket]
      /\ queue' = [queue EXCEPT ![q] = Append(queue[q], hand[t])]
  BY PushTarget DEF Push, Pushed, TypeOK, DataOK
<1> HIDE DEF q
<1>2. /\ queue'[q] = Append(queue[q], hand[t])
      /\ \A v \in Queue \ {q} : queue'[v] = queue[v]
  BY <1>1 DEF TypeOK, DataOK
<1>3. /\ \A k \in DOMAIN queue[q] : k \in DOMAIN queue'[q] /\ queue'[q][k] = queue[q][k]
      /\ Len(queue[q]) + 1 \in DOMAIN queue'[q]
      /\ queue'[q][Len(queue[q]) + 1] = hand[t]
  BY <1>1, <1>2, Appended
<1>4. CASE x = hand[t]
  <2>1. /\ q \in Thread
        /\ \E v \in Queue : v = q /\ \E k \in DOMAIN queue'[v] : queue'[v][k] = x
    BY <1>1, <1>3, <1>4 DEF Thread
  <2>2. x \in Packet
    BY <1>1, <1>4
  <2>3. PICK v \in Queue : \E k \in DOMAIN queue'[v] : queue'[v][k] = x
    BY <2>1
  <2>4. v \in Thread /\ x \in At(v)'
    BY <2>2, <2>3 DEF At, Thread
  <2> QED
    BY <2>4
<1>5. CASE x # hand[t]
  <2>1. CASE hand[u] = x
    BY <1>1, <1>5, <2>1 DEF At, TypeOK, ThreadsOK
  <2>2. CASE u \in Queue /\ \E k \in DOMAIN queue[u] : queue[u][k] = x
    BY <1>2, <1>3, <2>2 DEF At
  <2> QED
    BY <2>1, <2>2 DEF At
<1> QED
  BY <1>4, <1>5

(* The head of a queue that is popped is in the hand, and the rest stays.  *)
LEMMA KeptOnPop ==
  ASSUME TypeOK, NEW t \in Queue, Pop(t), NEW u \in Thread, NEW x \in At(u)
  PROVE  x \in At(u)'
<1> USE Numbering
<1>1. /\ queue[t] \in Seq(Packet) /\ queue[t] # <<>>
      /\ hand' = [hand EXCEPT ![t] = Head(queue[t])]
      /\ queue' = [queue EXCEPT ![t] = Tail(queue[t])]
      /\ x \in Packet
  BY DEF Pop, TypeOK, DataOK, At
<1>2. hand[t] = NoPacket /\ x # NoPacket
  BY <1>1, PacketHash DEF Pop, TypeOK, ThreadsOK, NoPacket
<1>3. hand'[t] = Head(queue[t]) /\ \A v \in Thread \ {t} : hand'[v] = hand[v]
  BY <1>1 DEF TypeOK, ThreadsOK
<1>4. queue'[t] = Tail(queue[t]) /\ \A v \in Queue \ {t} : queue'[v] = queue[v]
  BY <1>1 DEF TypeOK, DataOK
<1>5. CASE u # t
  BY <1>3, <1>4, <1>5 DEF At
<1>6. CASE u = t
  <2>1. PICK k \in DOMAIN queue[t] : queue[t][k] = x
    BY <1>2, <1>6 DEF At
  <2>2. CASE k = 1
    BY <1>1, <1>3, <1>6, <2>1, <2>2 DEF At
  <2>3. CASE k # 1
    <3>1. k - 1 \in DOMAIN Tail(queue[t]) /\ Tail(queue[t])[k - 1] = x
      BY <1>1, <2>1, <2>3
    <3> QED
      BY <1>1, <1>4, <1>6, <3>1 DEF At
  <2> QED
    BY <2>2, <2>3
<1> QED
  BY <1>5, <1>6

(* Only a verdict, a write and a push that discards end a packet's stay.   *)
LEMMA PresentStep == TypeOK /\ TypeOK' /\ Present /\ [Next]_vars => Present'
<1> SUFFICES ASSUME TypeOK, TypeOK', Present, [Next]_vars,
                    NEW p \in Packet, fate'[p] \in {"read", "accepted"}
             PROVE  \E t \in Thread : p \in At(t)'
  BY DEF Present
<1> USE Numbering
<1>0. fate \in [Packet -> Fates]
  BY DEF TypeOK, DataOK
<1>1. CASE Still
  BY <1>1, AtStill DEF Still, Present
<1>2. CASE ReadPacket
  <2>1. /\ hand' = [hand EXCEPT ![Reader] = next] /\ queue' = queue
        /\ fate' = [fate EXCEPT ![next] = "read"]
        /\ hand[Reader] = NoPacket /\ hand \in [Thread -> Packet \cup {NoPacket}]
    BY <1>2 DEF ReadPacket, TypeOK, ThreadsOK
  <2>2. CASE p = next
    <3>1. p \in At(Reader)'
      BY <2>1, <2>2 DEF At
    <3> QED
      BY <3>1
  <2>3. CASE p # next
    <3>1. PICK t \in Thread : p \in At(t)
      BY <1>0, <2>1, <2>3 DEF Present
    <3>2. p # NoPacket
      BY PacketHash DEF NoPacket
    <3>3. p \in At(t)'
      BY <2>1, <3>1, <3>2 DEF At
    <3> QED
      BY <3>3
  <2> QED
    BY <2>2, <2>3
<1>3. ASSUME NEW t \in Thread, Push(t) PROVE \E u \in Thread : p \in At(u)'
  <2>1. fate' = fate
    BY <1>3 DEF Push
  <2> QED
    BY <1>3, <2>1, KeptOnPush DEF Present
<1>4. ASSUME NEW t \in Thread, hand[t] \in Packet,
             hand' = [hand EXCEPT ![t] = NoPacket], queue' = queue,
             fate' = [fate EXCEPT ![hand[t]] = "discarded"]
               \/ fate' = [fate EXCEPT ![hand[t]] = "dropped"]
               \/ fate' = [fate EXCEPT ![hand[t]] = "written"]
      PROVE  \E u \in Thread : p \in At(u)'
  <2>1. p # hand[t] /\ fate[p] = fate'[p]
    BY <1>0, <1>4
  <2> QED
    BY <1>4, <2>1, KeptOnRelease DEF Present
<1>5. ASSUME NEW t \in Thread, PushDiscards(t) PROVE \E u \in Thread : p \in At(u)'
  BY <1>4, <1>5, Holds DEF PushDiscards, Pushed
<1>6. ASSUME NEW t \in Queue, Pop(t) PROVE \E u \in Thread : p \in At(u)'
  <2>1. fate' = fate
    BY <1>6 DEF Pop
  <2> QED
    BY <1>6, <2>1, KeptOnPop DEF Present
<1>7. ASSUME NEW f \in FPs, Drop(f) PROVE \E u \in Thread : p \in At(u)'
  BY <1>4, <1>7, Holds DEF Drop
<1>8. ASSUME NEW f \in FPs, Accept(f) PROVE \E u \in Thread : p \in At(u)'
  <2>1. /\ hand' = hand /\ queue' = queue /\ fate' = [fate EXCEPT ![hand[f]] = "accepted"]
        /\ f \in Thread /\ at[f] = "work"
    BY <1>8 DEF Accept
  <2>2. hand[f] \in At(f)
    BY <2>1, Holds DEF At
  <2>3. \E u \in Thread : p \in At(u)
    BY <1>0, <2>1, <2>2 DEF Present
  <2> QED
    BY <2>1, <2>3, AtStill
<1>9. CASE WritePacket
  BY <1>4, <1>9, Holds DEF WritePacket
<1> QED
  BY <1>1, <1>2, <1>3, <1>5, <1>6, <1>7, <1>8, <1>9, MovesOrStill DEF Moves

(* What is in the hands and in the queues is read or accepted.             *)
LEMMA PlacedIsOpen ==
  ASSUME PipelineOrder, NEW t \in Thread, NEW p \in At(t)
  PROVE  fate[p] \in {"read", "accepted"}
<1>1. CASE hand[t] = p
  BY <1>1, PacketHash DEF At, NoPacket, PipelineOrder, FatesInPlace
<1>2. CASE t \in Queue /\ \E k \in DOMAIN queue[t] : queue[t][k] = p
  BY <1>2 DEF PipelineOrder, FatesInPlace
<1> QED
  BY <1>1, <1>2 DEF At

(* What Where(p) consists of.                                              *)
LEMMA InWhere ==
  ASSUME NEW p, NEW w
  PROVE  w \in Where(p) <=>
           \/ \E t \in Thread : hand[t] = p /\ w = <<t>>
           \/ \E q \in Queue : \E k \in DOMAIN queue[q] : queue[q][k] = p /\ w = <<q, k>>
BY DEF Where

(* Every packet that has been read and not been settled is in exactly one  *)
(* hand or at exactly one position of one queue, and no other packet is.   *)
THEOREM PacketsAreInOnePlace == Spec => []OnePlace
<1>1. Init => Present
  BY DEF Init, Present
<1>2. TypeOK /\ PipelineOrder /\ Present => OnePlace
  <2> SUFFICES ASSUME TypeOK, PipelineOrder, Present, NEW p \in Packet
               PROVE  Cardinality(Where(p)) = IF fate[p] \in {"read", "accepted"}
                                              THEN 1 ELSE 0
    BY DEF OnePlace
  <2> USE Numbering
  <2>1. InOrder /\ SameFlow(p, p) /\ p \in Nat
    BY PacketHash DEF PipelineOrder, SameFlow
  <2>2. ASSUME NEW q \in Queue, NEW k \in DOMAIN queue[q], queue[q][k] = p PROVE p \in At(q)
    BY <2>2 DEF At
  <2>3. ASSUME NEW t \in Thread, hand[t] = p PROVE Cardinality(Where(p)) = 1
    <3>1. \A u \in Thread : hand[u] = p => u = t
      BY <2>1, <2>3, InHand
    <3>2. \A q \in Queue : \A k \in DOMAIN queue[q] : queue[q][k] # p
      BY <2>1, <2>3, InHand
    <3>3. ASSUME NEW w PROVE w \in Where(p) <=> w = <<t>>
      <4>1. w \in Where(p) <=>
              \/ \E u \in Thread : hand[u] = p /\ w = <<u>>
              \/ \E q \in Queue : \E k \in DOMAIN queue[q] : queue[q][k] = p /\ w = <<q, k>>
        BY InWhere
      <4>2. w \in Where(p) <=> \E u \in Thread : hand[u] = p /\ w = <<u>>
        BY <3>2, <4>1
      <4> QED
        BY <2>3, <3>1, <4>2
    <3>4. Where(p) = {<<t>>}
      BY <3>3
    <3> QED
      BY <3>4, FS_Singleton
  <2>4. ASSUME NEW q \in Queue, NEW k \in DOMAIN queue[q], queue[q][k] = p
        PROVE  Cardinality(Where(p)) = 1
    <3>1. \A t \in Thread : hand[t] # p
      BY <2>1, <2>4, InHand
    <3>2. ASSUME NEW r \in Queue, NEW j \in DOMAIN queue[r], queue[r][j] = p
          PROVE  r = q /\ j = k
      <4>1. p \in At(q) /\ p \in At(r) /\ q \in Thread /\ r \in Thread
        BY <2>2, <2>4, <3>2
      <4>2. r = q
        BY <2>1, <4>1 DEF InOrder
      <4>3. j \in Nat /\ k \in Nat
        BY <4>2 DEF TypeOK, DataOK
      <4>4. ~(j < k) /\ ~(k < j)
        BY <2>1, <2>4, <3>2, <4>2 DEF InOrder
      <4> QED
        BY <4>2, <4>3, <4>4
    <3>3. Where(p) = {<<q, k>>}
      BY <2>4, <3>1, <3>2, InWhere
    <3> QED
      BY <3>3, FS_Singleton
  <2>5. ASSUME NEW t \in Thread, p \in At(t)
        PROVE  fate[p] \in {"read", "accepted"} /\ Cardinality(Where(p)) = 1
    BY <2>3, <2>4, <2>5, PlacedIsOpen DEF At
  <2>6. CASE fate[p] \in {"read", "accepted"}
    BY <2>5, <2>6 DEF Present
  <2>7. CASE fate[p] \notin {"read", "accepted"}
    <3>1. \A t \in Thread : p \notin At(t)
      BY <2>5, <2>7
    <3>2. Where(p) = {}
      BY <3>1, InWhere DEF At
    <3> QED
      BY <2>7, <3>2, FS_EmptySet
  <2> QED
    BY <2>6, <2>7
<1> QED
  BY <1>1, <1>2, PresentStep, TypeCorrect, PipelineOrdered, PTL DEF Spec

----------------------------------------------------------------------------
(* The accounts.                                                           *)

Lengths == [q \in Queue |-> Len(queue[q])]
Holding == {t \in Thread : hand[t] # NoPacket}
Lost    == {p \in Packet : fate[p] = "discarded"}

(* What Accounting adds up.                                                *)
Balance == forwarded_packets + SumFunction(packets_dropped_) + SumFunction(Lengths)
             + Cardinality(Holding) + Cardinality(Lost)

LEMMA FiniteParts ==
  /\ IsFiniteSet(Queue) /\ IsFiniteSet(FPs) /\ IsFiniteSet(Thread) /\ IsFiniteSet(Packet)
<1>1. Writer \in Int /\ NumLBs \in Int /\ NumFPs \in Int /\ Len(Capture) \in Int
  BY Numbering, EngineAssumption DEF EngineAssumption
<1>2. Packet \subseteq 1..Len(Capture)
  BY DEF Packet
<1>3. IsFiniteSet(1..Writer) /\ IsFiniteSet(0..Writer) /\ IsFiniteSet(1..Len(Capture))
      /\ IsFiniteSet(NumLBs + 1 .. NumLBs + NumFPs)
  BY <1>1, FS_Interval
<1> QED
  BY <1>2, <1>3, FS_Subset DEF Queue, FPs, Thread

(* All summands are naturals.                                              *)
LEMMA BalanceParts ==
  ASSUME TypeOK
  PROVE  /\ Lengths \in [Queue -> Nat]
         /\ forwarded_packets \in Nat /\ SumFunction(packets_dropped_) \in Nat
         /\ SumFunction(Lengths) \in Nat
         /\ IsFiniteSet(Holding) /\ Cardinality(Holding) \in Nat
         /\ IsFiniteSet(Lost) /\ Cardinality(Lost) \in Nat
<1>1. Lengths \in [Queue -> Nat]
  BY DEF Lengths, TypeOK, DataOK
<1>2. packets_dropped_ \in [FPs -> Nat] /\ forwarded_packets \in Nat
  BY DEF TypeOK, DataOK
<1>3. IsFiniteSet(Holding) /\ IsFiniteSet(Lost)
  BY FiniteParts, FS_Subset DEF Holding, Lost
<1> QED
  BY <1>1, <1>2, <1>3, FiniteParts, SumIsNat, FS_CardinalityType

(* A packet more, or less, in a queue is one more, or less, in the sum.    *)
LEMMA LengthsOnPush ==
  ASSUME TypeOK, TypeOK', NEW q \in Queue, NEW p \in Packet,
         queue' = [queue EXCEPT ![q] = Append(queue[q], p)]
  PROVE  SumFunction(Lengths') = SumFunction(Lengths) + 1
<1>1. Lengths \in [Queue -> Nat] /\ Lengths' \in [Queue -> Nat]
  BY BalanceParts DEF Lengths, TypeOK, DataOK
<1>2. queue[q] \in Seq(Packet)
  BY DEF TypeOK, DataOK
<1>3. Lengths'[q] = Lengths[q] + 1 /\ \A x \in Queue \ {q} : Lengths'[x] = Lengths[x]
  BY <1>2 DEF Lengths, TypeOK, DataOK
<1> DEFINE f == Lengths
           g == Lengths'
<1>4. f \in [Queue -> Nat] /\ g \in [Queue -> Nat] /\ g[q] = f[q] + 1
      /\ \A x \in Queue \ {q} : g[x] = f[x]
  BY <1>1, <1>3
<1> HIDE DEF f, g
<1>5. SumFunction(g) + f[q] = SumFunction(f) + g[q]
  BY <1>4, FiniteParts, SumOfChange
<1>6. SumFunction(g) \in Nat /\ SumFunction(f) \in Nat /\ f[q] \in Nat
  BY <1>4, FiniteParts, SumIsNat
<1>7. SumFunction(g) = SumFunction(f) + 1
  BY <1>4, <1>5, <1>6
<1> QED
  BY <1>7 DEF f, g

LEMMA LengthsOnPop ==
  ASSUME TypeOK, TypeOK', NEW q \in Queue, queue[q] # <<>>,
         queue' = [queue EXCEPT ![q] = Tail(queue[q])]
  PROVE  SumFunction(Lengths') = SumFunction(Lengths) - 1
<1>1. Lengths \in [Queue -> Nat] /\ Lengths' \in [Queue -> Nat]
  BY BalanceParts DEF Lengths, TypeOK, DataOK
<1>2. queue[q] \in Seq(Packet)
  BY DEF TypeOK, DataOK
<1>3. Lengths'[q] + 1 = Lengths[q] /\ \A x \in Queue \ {q} : Lengths'[x] = Lengths[x]
  BY <1>2 DEF Lengths, TypeOK, DataOK
<1> DEFINE f == Lengths
           g == Lengths'
<1>4. f \in [Queue -> Nat] /\ g \in [Queue -> Nat] /\ g[q] + 1 = f[q]
      /\ \A x \in Queue \ {q} : g[x] = f[x]
  BY <1>1, <1>3
<1> HIDE DEF f, g
<1>5. SumFunction(g) + f[q] = SumFunction(f) + g[q]
  <2>1. IsFiniteSet(Queue)
    BY FiniteParts
  <2> QED
    BY <1>4, <2>1, SumOfChange, SMTT(30)
<1>6. SumFunction(g) \in Nat /\ SumFunction(f) \in Nat /\ f[q] \in Nat /\ g[q] \in Nat
  BY <1>4, FiniteParts, SumIsNat
<1>7. SumFunction(g) = SumFunction(f) - 1
  BY <1>4, <1>5, <1>6
<1> QED
  BY <1>7 DEF f, g

(* One hand more, or less, is taken.                                       *)
LEMMA HandTaken ==
  ASSUME TypeOK, NEW t \in Thread, hand[t] = NoPacket, NEW p \in Packet,
         hand' = [hand EXCEPT ![t] = p]
  PROVE  Cardinality(Holding') = Cardinality(Holding) + 1
<1>1. p # NoPacket
  BY PacketHash DEF NoPacket
<1>2. Holding' = Holding \cup {t} /\ t \notin Holding
  BY <1>1 DEF Holding, TypeOK, ThreadsOK
<1> QED
  BY <1>2, BalanceParts, FS_AddElement

LEMMA HandGiven ==
  ASSUME TypeOK, NEW t \in Thread, hand[t] \in Packet,
         hand' = [hand EXCEPT ![t] = NoPacket]
  PROVE  Cardinality(Holding') = Cardinality(Holding) - 1
<1>1. hand[t] # NoPacket
  BY PacketHash DEF NoPacket
<1>2. Holding' = Holding \ {t} /\ t \in Holding
  BY <1>1 DEF Holding, TypeOK, ThreadsOK
<1>3. Cardinality(Holding \ {t}) = Cardinality(Holding) - 1
  BY <1>2, BalanceParts, FS_RemoveElement
<1> QED
  BY <1>2, <1>3, BalanceParts

(* A packet that gets another fate than to be thrown away.                 *)
LEMMA LostStays ==
  ASSUME TypeOK, NEW p \in Packet, fate[p] # "discarded", NEW s, s # "discarded",
         fate' = [fate EXCEPT ![p] = s]
  PROVE  Lost' = Lost
BY DEF Lost, TypeOK, DataOK

LEMMA AccountsOnRead ==
  ASSUME TypeOK, TypeOK', PipelineOrder, ReadPacket, total_packets = Balance
  PROVE  total_packets' = Balance'
<1> USE Numbering
<1>1. /\ next \in Packet /\ hand[Reader] = NoPacket
      /\ hand' = [hand EXCEPT ![Reader] = next]
      /\ fate' = [fate EXCEPT ![next] = "read"]
      /\ total_packets' = total_packets + 1
      /\ UNCHANGED <<queue, forwarded_packets, packets_dropped_>>
  BY NextPacket DEF ReadPacket, TypeOK, ThreadsOK
<1>2. fate[next] = "unread"
  BY <1>1, PacketHash DEF PipelineOrder, Frontier
<1>3. Cardinality(Holding') = Cardinality(Holding) + 1
  BY <1>1, HandTaken
<1>4. Lost' = Lost
  BY <1>1, <1>2, LostStays
<1>5. Lengths' = Lengths
  BY <1>1 DEF Lengths
<1> QED
  BY <1>1, <1>3, <1>4, <1>5, BalanceParts DEF Balance

LEMMA AccountsOnPush ==
  ASSUME TypeOK, TypeOK', PipelineOrder, NEW t \in Thread, Push(t) \/ PushDiscards(t),
         total_packets = Balance
  PROVE  total_packets' = Balance'
<1> USE Numbering
<1> DEFINE q == Dest(t, hand[t])
<1>1. /\ hand[t] \in Packet /\ q \in Queue
      /\ hand' = [hand EXCEPT ![t] = NoPacket]
      /\ UNCHANGED <<total_packets, forwarded_packets, packets_dropped_>>
  BY PushTarget DEF Push, PushDiscards, Pushed
<1>2. Cardinality(Holding') = Cardinality(Holding) - 1
  BY <1>1, HandGiven
<1>3. CASE Push(t)
  <2>1. queue' = [queue EXCEPT ![q] = Append(queue[q], hand[t])] /\ fate' = fate
    BY <1>3 DEF Push
  <2>2. SumFunction(Lengths') = SumFunction(Lengths) + 1
    BY <1>1, <2>1, LengthsOnPush
  <2>3. Lost' = Lost
    BY <2>1 DEF Lost
  <2> QED
    BY <1>1, <1>2, <2>2, <2>3, BalanceParts DEF Balance
<1>4. CASE PushDiscards(t)
  <2>1. queue' = queue /\ fate' = [fate EXCEPT ![hand[t]] = "discarded"]
    BY <1>4 DEF PushDiscards
  <2>2. fate[hand[t]] # "discarded"
    BY <1>1, PacketHash DEF PipelineOrder, FatesInPlace, NoPacket
  <2>3. Lost' = Lost \cup {hand[t]} /\ hand[t] \notin Lost
    BY <1>1, <2>1, <2>2 DEF Lost, TypeOK, DataOK
  <2>4. Cardinality(Lost') = Cardinality(Lost) + 1
    BY <2>3, BalanceParts, FS_AddElement
  <2>5. Lengths' = Lengths
    BY <2>1 DEF Lengths
  <2> QED
    BY <1>1, <1>2, <2>4, <2>5, BalanceParts DEF Balance
<1> QED
  BY <1>3, <1>4

LEMMA AccountsOnPop ==
  ASSUME TypeOK, TypeOK', NEW t \in Queue, Pop(t), total_packets = Balance
  PROVE  total_packets' = Balance'
<1> USE Numbering
<1>0. /\ at[t] = "pop" /\ queue[t] # <<>>
      /\ hand' = [hand EXCEPT ![t] = Head(queue[t])]
      /\ queue' = [queue EXCEPT ![t] = Tail(queue[t])]
      /\ UNCHANGED <<fate, total_packets, forwarded_packets, packets_dropped_>>
  BY DEF Pop, counters
<1>1. queue[t] \in Seq(Packet) /\ hand[t] = NoPacket
  BY <1>0 DEF TypeOK, ThreadsOK, DataOK
<1>2. Head(queue[t]) \in Packet
  BY <1>0, <1>1
<1>3. Cardinality(Holding') = Cardinality(Holding) + 1
  BY <1>0, <1>1, <1>2, HandTaken
<1>4. SumFunction(Lengths') = SumFunction(Lengths) - 1
  BY <1>0, <1>1, LengthsOnPop
<1>5. Lost' = Lost
  BY <1>0 DEF Lost
<1> QED
  BY <1>0, <1>3, <1>4, <1>5, BalanceParts DEF Balance

LEMMA AccountsOnJudge ==
  ASSUME TypeOK, TypeOK', PipelineOrder, NEW f \in FPs, Drop(f) \/ Accept(f),
         total_packets = Balance
  PROVE  total_packets' = Balance'
<1> USE Numbering
<1>1. /\ hand[f] \in Packet /\ fate[hand[f]] = "read"
      /\ UNCHANGED <<queue, total_packets, forwarded_packets>>
  <2>1. at[f] = "work" /\ UNCHANGED <<queue, total_packets, forwarded_packets>>
    BY DEF Drop, Accept
  <2>2. hand[f] \in Packet /\ hand[f] # NoPacket
    BY <2>1, Holds, PacketHash DEF NoPacket
  <2>3. f \in Thread /\ f # Writer /\ at[f] # "push"
    BY <2>1
  <2> QED
    BY <2>1, <2>2, <2>3 DEF PipelineOrder, FatesInPlace
<1>2. Lengths' = Lengths
  BY <1>1 DEF Lengths
<1>3. CASE Accept(f)
  <2>1. hand' = hand /\ packets_dropped_' = packets_dropped_
        /\ fate' = [fate EXCEPT ![hand[f]] = "accepted"]
    BY <1>3 DEF Accept
  <2>2. Lost' = Lost /\ Holding' = Holding
    BY <1>1, <2>1, LostStays DEF Holding
  <2> QED
    BY <1>1, <1>2, <2>1, <2>2 DEF Balance
<1>4. CASE Drop(f)
  <2>1. /\ hand' = [hand EXCEPT ![f] = NoPacket]
        /\ fate' = [fate EXCEPT ![hand[f]] = "dropped"]
        /\ packets_dropped_' = [packets_dropped_ EXCEPT ![f] = @ + 1]
    BY <1>4 DEF Drop
  <2>2. Lost' = Lost
    BY <1>1, <2>1, LostStays
  <2>3. Cardinality(Holding') = Cardinality(Holding) - 1
    BY <1>1, <2>1, HandGiven
  <2> DEFINE a == packets_dropped_
             b == packets_dropped_'
  <2>4. /\ a \in [FPs -> Nat] /\ b \in [FPs -> Nat] /\ b[f] = a[f] + 1
        /\ \A x \in FPs \ {f} : b[x] = a[x]
    BY <2>1 DEF TypeOK, DataOK
  <2> HIDE DEF a, b
  <2>5. SumFunction(b) + a[f] = SumFunction(a) + b[f]
    BY <2>4, FiniteParts, SumOfChange
  <2>6. SumFunction(b) \in Nat /\ SumFunction(a) \in Nat /\ a[f] \in Nat
    BY <2>4, FiniteParts, SumIsNat
  <2>7. SumFunction(b) = SumFunction(a) + 1
    BY <2>4, <2>5, <2>6
  <2>8. SumFunction(packets_dropped_') = SumFunction(packets_dropped_) + 1
    BY <2>7 DEF a, b
  <2> QED
    BY <1>1, <1>2, <2>2, <2>3, <2>8, BalanceParts DEF Balance
<1> QED
  BY <1>3, <1>4

LEMMA AccountsOnWrite ==
  ASSUME TypeOK, TypeOK', PipelineOrder, WritePacket, total_packets = Balance
  PROVE  total_packets' = Balance'
<1> USE Numbering
<1>1. /\ hand[Writer] \in Packet
      /\ hand' = [hand EXCEPT ![Writer] = NoPacket]
      /\ fate' = [fate EXCEPT ![hand[Writer]] = "written"]
      /\ forwarded_packets' = forwarded_packets + 1
      /\ UNCHANGED <<queue, total_packets, packets_dropped_>>
  BY Holds DEF WritePacket
<1>2. fate[hand[Writer]] # "discarded"
  BY <1>1, PacketHash DEF PipelineOrder, FatesInPlace, NoPacket
<1>3. Lost' = Lost /\ Lengths' = Lengths
  BY <1>1, <1>2, LostStays DEF Lengths
<1>4. Cardinality(Holding') = Cardinality(Holding) - 1
  BY <1>1, HandGiven
<1> QED
  BY <1>1, <1>3, <1>4, BalanceParts DEF Balance

(* The other steps count nothing.                                          *)
LEMMA AccountsStill ==
  ASSUME [Next]_vars, Still, ~Moves, total_packets = Balance
  PROVE  total_packets' = Balance'
<1>1. UNCHANGED <<total_packets, forwarded_packets, packets_dropped_>>
  BY Numbering DEF Moves, Next, MainStep, ReaderStep, WorkerStep, WriterStep, OpenOutputFails,
     Start, StartFastPaths, StartLoadBalancers, StartWorkers, StartReader,
     WaitForCompletion, StopRequest, StopWorker, ShutWorkerQueue, JoinWorker,
     ShutOutputQueue, JoinWriter, Finished, OpenInputFails, OpenInput, SkipRecord,
     EndOfFile, CountDispatched, CheckRunning, TryPopFails, WriterChecksRunning, WriterChecksEmpty,
     WriterPopFails, counters, vars
<1>2. Lengths' = Lengths /\ Holding' = Holding /\ Lost' = Lost
  BY DEF Still, Lengths, Holding, Lost
<1> QED
  BY <1>1, <1>2 DEF Balance

(* No packet is lost from the accounts: what was read has been written or  *)
(* dropped, is on its way or stranded, or was thrown away by a push.       *)
THEOREM AccountsBalance == Spec => []Accounting
<1> DEFINE Balanced == total_packets = Balance
<1>1. Init => Balanced
  <2> SUFFICES ASSUME Init PROVE total_packets = Balance
    OBVIOUS
  <2>1. /\ packets_dropped_ \in [FPs -> Nat] /\ \A f \in FPs : packets_dropped_[f] = 0
        /\ Lengths \in [Queue -> Nat] /\ \A q \in Queue : Lengths[q] = 0
        /\ Holding = {} /\ Lost = {}
        /\ total_packets = 0 /\ forwarded_packets = 0
    BY DEF Init, Lengths, Holding, Lost
  <2>2. SumFunction(packets_dropped_) = 0 /\ SumFunction(Lengths) = 0
    BY <2>1, FiniteParts, SumOfZeros
  <2> QED
    BY <2>1, <2>2, FS_EmptySet DEF Balance
<1>2. TypeOK /\ TypeOK' /\ PipelineOrder /\ Balanced /\ [Next]_vars => Balanced'
  BY MovesOrStill, AccountsOnRead, AccountsOnPush, AccountsOnPop, AccountsOnJudge,
     AccountsOnWrite, AccountsStill DEF Moves
<1>3. Balanced => Accounting
  BY DEF Accounting, Balance, Lengths, Holding, Lost
<1> QED
  BY <1>1, <1>2, <1>3, TypeCorrect, PipelineOrdered, PTL DEF Spec

----------------------------------------------------------------------------
(* When the sleep is long enough.                                          *)

(* From the header of an output file on, the reader has read all packets   *)
(* before the position it has come to, which is behind the last record of  *)
(* the file when it has returned.                                          *)
ReadSoFar ==
  /\ main \in {"startFPs", "startLBs", "startReader"} \/ at[Reader] = "open" => ~header
  /\ header => \A p \in Packet : FirstRecord <= p /\ p < next => fate[p] # "unread"
  /\ header /\ at[Reader] = "off" => FileEnd[run] < next

(* Where the caller is once the sleep is over.                             *)
Stopped == {"stop", "shut", "join", "shutOutput", "joinWriter", "idle"}

(* In the first call no packet is thrown away, and after a sleep that      *)
(* outlasts the drain, in any call, the pipeline stays empty.              *)
NothingLost == run <= 1 => \A p \in Packet : fate[p] # "discarded"
StaysQuiet  == SleepOutlastsDrain /\ main \in Stopped => Quiet

(* The steps that neither begin a file nor belong to the reader's loop.    *)
LEMMA ReaderUntouched ==
  ASSUME TypeOK, [Next]_vars, ~OpenOutputFails, ~Start, ~StartFastPaths,
         ~StartLoadBalancers, ~StartReader, ~OpenInputFails, ~OpenInput, ~SkipRecord,
         ~ReadPacket, ~EndOfFile
  PROVE  /\ UNCHANGED <<run, header, next>>
         /\ at'[Reader] = at[Reader] \/ (at[Reader] = "push" /\ at'[Reader] = "check")
         /\ main' = main \/ main' \notin {"startFPs", "startLBs", "startReader"}
         /\ \A p \in Packet : fate'[p] = "unread" => fate[p] = "unread"
<1> USE Numbering DEF control, counters
<1>0. at \in [Thread -> Places] /\ fate \in [Packet -> Fates] /\ Reader \in Thread
  BY DEF TypeOK, ThreadsOK, DataOK
<1>1. CASE UNCHANGED vars
  BY <1>1 DEF vars
<1>2. CASE \/ WaitForCompletion \/ StopRequest \/ StopWorker \/ ShutWorkerQueue
           \/ JoinWorker \/ ShutOutputQueue \/ JoinWriter
  BY <1>2 DEF WaitForCompletion, StopRequest, StopWorker, ShutWorkerQueue, JoinWorker,
     ShutOutputQueue, JoinWriter
<1>3. ASSUME NEW t \in Thread, Push(t) \/ PushDiscards(t)
      PROVE  /\ UNCHANGED <<run, header, next, main>>
             /\ at'[Reader] = at[Reader] \/ (at[Reader] = "push" /\ at'[Reader] = "check")
             /\ \A p \in Packet : fate'[p] = "unread" => fate[p] = "unread"
  BY <1>0, <1>3 DEF Push, PushDiscards, Pushed
<1>4. ASSUME NEW w \in Queue, Pop(w)
      PROVE  UNCHANGED <<run, header, next, main, fate>> /\ at'[Reader] = at[Reader]
  BY <1>0, <1>4 DEF Pop
<1>5. ASSUME NEW w \in Worker, CheckRunning(w) \/ TryPopFails(w)
      PROVE  UNCHANGED <<run, header, next, main, fate>> /\ at'[Reader] = at[Reader]
  BY <1>0, <1>5 DEF CheckRunning, TryPopFails
<1>6. ASSUME NEW f \in FPs, Drop(f) \/ Accept(f)
      PROVE  /\ UNCHANGED <<run, header, next, main>> /\ at'[Reader] = at[Reader]
             /\ \A p \in Packet : fate'[p] = "unread" => fate[p] = "unread"
  BY <1>0, <1>6 DEF Drop, Accept
<1>7. CASE WriterChecksRunning \/ WriterChecksEmpty \/ WriterPopFails \/ WritePacket
  BY <1>0, <1>7 DEF WriterChecksRunning, WriterChecksEmpty, WriterPopFails, WritePacket
<1>8. ASSUME NEW l \in LBs, CountDispatched(l)
      PROVE  UNCHANGED <<run, header, next, main, fate>> /\ at'[Reader] = at[Reader]
  BY <1>0, <1>8 DEF CountDispatched
<1> QED
  BY <1>1, <1>2, <1>3, <1>4, <1>5, <1>6, <1>7, <1>8
     DEF Next, MainStep, ReaderStep, WorkerStep, WriterStep, Finished, vars

LEMMA ReadStep == TypeOK /\ ReadSoFar /\ [Next]_vars => ReadSoFar'
<1> SUFFICES ASSUME TypeOK, ReadSoFar, [Next]_vars PROVE ReadSoFar'
  OBVIOUS
<1> USE Numbering DEF control
<1>0. at \in [Thread -> Places] /\ Reader \in Thread /\ next \in Nat
  BY DEF TypeOK, ThreadsOK
<1>1. CASE OpenOutputFails \/ Start
  <2>1. header' = FALSE
    BY <1>1 DEF OpenOutputFails, Start
  <2> QED
    BY <2>1 DEF ReadSoFar
<1>2. CASE StartFastPaths \/ StartLoadBalancers \/ StartReader \/ OpenInputFails
  <2>1. header' = header /\ ~header
    BY <1>2 DEF StartFastPaths, StartLoadBalancers, StartReader, StartWorkers,
       OpenInputFails, ReadSoFar
  <2> QED
    BY <2>1 DEF ReadSoFar
<1>3. CASE OpenInput
  <2>1. /\ at'[Reader] = "check" /\ next' = FirstRecord /\ FirstRecord' = FirstRecord
        /\ main' = main /\ main = "waiting" /\ FirstRecord \in Nat
    BY <1>0, <1>3, ReaderRuns, FirstPosition DEF OpenInput, FirstRecord
  <2>2. \A p \in Packet : ~(FirstRecord <= p /\ p < FirstRecord)
    BY <2>1, PacketHash
  <2> QED
    BY <2>1, <2>2 DEF ReadSoFar
<1>4. CASE SkipRecord
  <2>1. /\ at'[Reader] = "check" /\ next' = next + 1 /\ FirstRecord' = FirstRecord
        /\ main' = main /\ main = "waiting" /\ header' = header /\ fate' = fate
    BY <1>0, <1>4, ReaderRuns DEF SkipRecord, FirstRecord
  <2>2. next \notin Packet
    BY <1>4 DEF SkipRecord, Packet
  <2>3. \A p \in Packet : p < next + 1 => p < next
    BY <1>0, <2>2, PacketHash
  <2> QED
    BY <2>1, <2>3 DEF ReadSoFar
<1>5. CASE ReadPacket
  <2>1. /\ at'[Reader] = "push" /\ next' = next + 1 /\ FirstRecord' = FirstRecord
        /\ main' = main /\ main = "waiting" /\ header' = header
        /\ fate' = [fate EXCEPT ![next] = "read"]
    BY <1>0, <1>5, ReaderRuns DEF ReadPacket, FirstRecord
  <2>2. \A p \in Packet : fate'[p] = IF p = next THEN "read" ELSE fate[p]
    BY <2>1 DEF TypeOK, DataOK
  <2>3. \A p \in Packet : p < next + 1 /\ p # next => p < next
    BY <1>0, PacketHash
  <2> QED
    BY <2>1, <2>2, <2>3 DEF ReadSoFar
<1>6. CASE EndOfFile
  <2>1. /\ at'[Reader] = "off" /\ FileEnd[run] < next
        /\ main' = main /\ main = "waiting"
        /\ UNCHANGED <<header, fate, next, run>> /\ FirstRecord' = FirstRecord
    BY <1>0, <1>6, ReaderRuns, EngineAssumption DEF EndOfFile, FirstRecord, EngineAssumption
  <2> QED
    BY <2>1 DEF ReadSoFar
<1>7. CASE ~(OpenOutputFails \/ Start \/ StartFastPaths \/ StartLoadBalancers \/ StartReader
             \/ OpenInputFails \/ OpenInput \/ SkipRecord \/ ReadPacket \/ EndOfFile)
  <2>1. /\ UNCHANGED <<run, header, next>> /\ FirstRecord' = FirstRecord
        /\ at'[Reader] = at[Reader] \/ (at[Reader] = "push" /\ at'[Reader] = "check")
        /\ main' = main \/ main' \notin {"startFPs", "startLBs", "startReader"}
        /\ \A p \in Packet : fate'[p] = "unread" => fate[p] = "unread"
    BY <1>7, ReaderUntouched DEF FirstRecord
  <2> QED
    BY <2>1 DEF ReadSoFar
<1> QED
  BY <1>1, <1>2, <1>3, <1>4, <1>5, <1>6, <1>7

(* The caller leaves the start of a call and the waits only in steps of    *)
(* its own, and calls are not taken back.                                  *)
LEMMA CallerMoves ==
  ASSUME TypeOK, [Next]_vars
  PROVE  /\ run' \in {run, run + 1}
         /\ main \notin Stopped /\ main' \in Stopped => StopRequest
         /\ main \in Stopped /\ main' \in Stopped /\ run' # run => OpenOutputFails
<1> USE DEF control
<1>1. CASE \/ OpenOutputFails \/ Start \/ StartFastPaths \/ StartLoadBalancers
           \/ StartReader \/ WaitForCompletion \/ StopRequest \/ StopWorker
           \/ ShutWorkerQueue \/ JoinWorker \/ ShutOutputQueue \/ JoinWriter
  BY <1>1 DEF Stopped, OpenOutputFails, Start, StartFastPaths, StartLoadBalancers,
     StartWorkers, StartReader, WaitForCompletion, StopRequest, StopWorker,
     ShutWorkerQueue, JoinWorker, ShutOutputQueue, JoinWriter
<1>2. CASE UNCHANGED <<main, run>>
  BY <1>2
<1> QED
  BY <1>1, <1>2 DEF Next, MainStep, ReaderStep, WorkerStep, WriterStep, OpenInputFails,
     OpenInput, SkipRecord, ReadPacket, EndOfFile, Push, PushDiscards, Pushed,
     CountDispatched, CheckRunning, TryPopFails, Pop, Drop, Accept, WriterChecksRunning,
     WriterChecksEmpty, WriterPopFails, WritePacket, Finished, vars

LEMMA LostStep ==
  TypeOK /\ TypeOK' /\ StagedShutdown /\ NothingLost /\ [Next]_vars => NothingLost'
<1> SUFFICES ASSUME TypeOK, TypeOK', StagedShutdown, NothingLost, [Next]_vars, run' <= 1,
                    NEW p \in Packet
             PROVE  fate'[p] # "discarded"
  BY DEF NothingLost
<1> USE Numbering
<1>1. run <= 1 /\ fate[p] # "discarded" /\ fate \in [Packet -> Fates]
  <2>1. run \in Nat /\ run' \in {run, run + 1} /\ fate \in [Packet -> Fates]
    <3>1. run \in Nat
      BY EngineAssumption DEF TypeOK, ControlOK, EngineAssumption
    <3>2. fate \in [Packet -> Fates]
      BY DEF TypeOK, DataOK
    <3> QED
      BY <3>1, <3>2, CallerMoves
  <2>2. run <= 1
    BY <2>1
  <2> QED
    BY <2>1, <2>2 DEF NothingLost
<1>2. CASE Still
  BY <1>1, <1>2 DEF Still
<1>3. ASSUME NEW t \in Thread, Push(t) \/ PushDiscards(t) PROVE fate'[p] # "discarded"
  <2>1. ~PushDiscards(t)
    BY <1>1 DEF StagedShutdown, PushDiscards
  <2> QED
    BY <1>1, <1>3, <2>1 DEF Push
<1>4. CASE ReadPacket \/ WritePacket
  BY <1>1, <1>4 DEF ReadPacket, WritePacket
<1>5. ASSUME NEW f \in FPs, Drop(f) \/ Accept(f) PROVE fate'[p] # "discarded"
  BY <1>1, <1>5 DEF Drop, Accept
<1>6. ASSUME NEW q \in Queue, Pop(q) PROVE fate'[p] # "discarded"
  BY <1>1, <1>6 DEF Pop
<1> QED
  BY <1>2, <1>3, <1>4, <1>5, <1>6, MovesOrStill DEF Moves

LEMMA QuietStep == TypeOK /\ TypeOK' /\ StaysQuiet /\ [Next]_vars => StaysQuiet'
<1> SUFFICES ASSUME TypeOK, TypeOK', StaysQuiet, [Next]_vars,
                    SleepOutlastsDrain, main' \in Stopped
             PROVE  Quiet'
  BY DEF StaysQuiet
<1> USE Numbering
<1>1. CASE StopRequest
  BY <1>1 DEF StopRequest, Quiet
<1>2. CASE ~StopRequest
  <2>1. main \in Stopped
    BY <1>2, CallerMoves
  <2>2. Quiet
    BY <2>1 DEF StaysQuiet
  <2>3. at[Reader] = "off"
    BY <2>1, ReaderRuns DEF Stopped
  <2>4. \A t \in Thread : at[t] \notin {"work", "push"}
    BY <2>2 DEF Quiet, TypeOK, ThreadsOK
  <2>5. ~Moves
    BY <2>2, <2>3, <2>4
       DEF Moves, ReadPacket, Push, PushDiscards, Pop, Drop, Accept, WritePacket, Quiet
  <2> QED
    BY <2>2, <2>5, MovesOrStill DEF Still, Quiet
<1> QED
  BY <1>1, <1>2

LEMMA FirstCallSettles == Spec => [](ReadSoFar /\ NothingLost /\ StaysQuiet)
<1>1. Init => ReadSoFar /\ NothingLost /\ StaysQuiet
  BY Numbering DEF Init, ReadSoFar, NothingLost, StaysQuiet, Quiet
<1> QED
  BY <1>1, ReadStep, LostStep, QuietStep, TypeCorrect, NoPushIntoShutQueue, PTL DEF Spec

(* When the first call of processFile returns after a sleep that outlasts  *)
(* the drain, every packet of its file has been dropped or written.        *)
THEOREM FirstCallAnswers == Spec => [](run <= 1 => AllAnswered)
<1>1. ASSUME TypeOK, HeaderPending, Present, ReadSoFar, NothingLost, StaysQuiet
      PROVE  run <= 1 => AllAnswered
  <2> SUFFICES ASSUME run <= 1, SleepOutlastsDrain, main = "idle", header,
                      NEW p \in Packet \cap (FirstRecord .. FileEnd[run])
               PROVE  fate[p] \in {"dropped", "written"}
    BY DEF AllAnswered
  <2>1. at[Reader] = "off" /\ FileEnd[run] < next
    BY <1>1, ReaderRuns DEF ReadSoFar
  <2>2. fate[p] # "unread"
    <3>1. FirstRecord <= p /\ p <= FileEnd[run]
      OBVIOUS
    <3>2. p < next
      <4>1. run \in DOMAIN FileEnd
        BY <1>1, EngineAssumption DEF HeaderPending, EngineAssumption, TypeOK, ControlOK
      <4>2. FileEnd[run] \in Nat /\ next \in Nat /\ p \in Nat
        BY <1>1, <4>1, PacketHash, EngineAssumption DEF EngineAssumption, TypeOK, ThreadsOK
      <4> QED
        BY <2>1, <3>1, <4>2
    <3> QED
      BY <1>1, <3>1, <3>2 DEF ReadSoFar
  <2>3. fate[p] \notin {"read", "accepted"}
    <3>1. Quiet
      BY <1>1 DEF StaysQuiet, Stopped
    <3>2. \A t \in Thread : p \notin At(t)
      BY <3>1, PacketHash DEF Quiet, At, NoPacket
    <3> QED
      BY <1>1, <3>2 DEF Present
  <2> QED
    BY <1>1, <2>2, <2>3 DEF NothingLost, TypeOK, DataOK, Fates
<1>2. Init => HeaderPending /\ Present
  BY Numbering DEF Init, HeaderPending, Present
<1> QED
  BY <1>1, <1>2, HeaderStep, PresentStep, FirstCallSettles, TypeCorrect, PipelineOrdered,
     PTL DEF Spec

(* Then the counters that printStatus shows add up, too: all packets that  *)
(* were read have been forwarded or dropped.                               *)
THEOREM FirstCallAddsUp ==
  Spec => [](run <= 1 /\ SleepOutlastsDrain /\ main = "idle"
               => total_packets = forwarded_packets + SumFunction(packets_dropped_))
<1>1. ASSUME TypeOK, Accounting, NothingLost, StaysQuiet
      PROVE  run <= 1 /\ SleepOutlastsDrain /\ main = "idle"
               => total_packets = forwarded_packets + SumFunction(packets_dropped_)
  <2> SUFFICES ASSUME run <= 1, SleepOutlastsDrain, main = "idle"
               PROVE  total_packets = forwarded_packets + SumFunction(packets_dropped_)
    OBVIOUS
  <2>1. Quiet
    BY <1>1 DEF StaysQuiet, Stopped
  <2>2. Lengths \in [Queue -> Nat] /\ \A q \in Queue : Lengths[q] = 0
    BY <1>1, <2>1 DEF Quiet, Lengths
  <2>3. SumFunction(Lengths) = 0
    BY <2>2, FiniteParts, SumOfZeros
  <2>4. Holding = {} /\ Lost = {}
    BY <1>1, <2>1 DEF Quiet, Holding, Lost, NothingLost
  <2>5. total_packets = Balance
    BY <1>1 DEF Accounting, Balance, Lengths, Holding, Lost
  <2> QED
    BY <1>1, <2>3, <2>4, <2>5, BalanceParts, FS_EmptySet DEF Balance
<1> QED
  BY <1>1, AccountsBalance, FirstCallSettles, TypeCorrect, PTL

----------------------------------------------------------------------------
(* Who waits for whom.                                                     *)

(* The workers that have been started and whose turn to be stopped has not *)
(* come, which are running.                                                *)
Kept == {w \in Worker : w \in Alive /\ (main \in {"shut", "join"} => w # cursor)}

KeptRun == \A w \in Kept : on[w] /\ at[w] # "off"

(* The writer looks whether its queue is empty, and leaves, only after     *)
(* running_ has been cleared.                                              *)
WriterStays == running_ => at[Writer] \notin {"off", "checkEmpty"}

(* running_ is set exactly between start and stop, and a thread that stop  *)
(* joins has been told to go.                                              *)
ToldToGo ==
  /\ main \in {"shut", "join"} => ~on[cursor]
  /\ main = "join" => shut[cursor]
  /\ running_ <=> main \notin Stopped
  /\ main = "joinWriter" => shut[Writer]

WaitsAt(q) == \E t \in Thread : at[t] = "push" /\ q = Dest(t, hand[t])
Full(q)    == ~shut[q] /\ Len(queue[q]) >= Cap(q)

(* Whoever waits for room in the queue of a worker waits for a worker that *)
(* is running, has not been told to stop and has a packet to take, and     *)
(* whoever stop joins has been told to go.  Who waits for room in the      *)
(* output queue can rely on the writer only until stop clears running_:    *)
(* from then on the writer may have left, which the run engine_blocked     *)
(* shows to happen.                                                        *)
WaitsEnd ==
  /\ \A q \in Queue : WaitsAt(q) /\ Full(q) =>
       /\ queue[q] # <<>>
       /\ q \in Worker => on[q] /\ at[q] # "off"
       /\ q = Writer /\ running_ => at[q] # "off"
  /\ main = "join" => ~on[cursor] /\ shut[cursor]
  /\ main = "joinWriter" => ~running_ /\ shut[Writer]

LEMMA KeptStep == TypeOK /\ KeptRun /\ [Next]_vars => KeptRun'
<1> SUFFICES ASSUME TypeOK, KeptRun, [Next]_vars PROVE KeptRun'
  OBVIOUS
<1> USE Numbering
<1>1. at \in [Thread -> Places] /\ on \in [Worker -> BOOLEAN]
  BY DEF TypeOK, ThreadsOK
<1>2. ASSUME Kept' \subseteq Kept, \A w \in Kept' : on'[w] = on[w] /\ at'[w] = at[w]
      PROVE  KeptRun'
  BY <1>2 DEF KeptRun
<1>3. ASSUME UNCHANGED control PROVE Kept' = Kept
  BY <1>3 DEF control, Kept, Alive
<1>4. CASE UNCHANGED vars \/ Finished \/ OpenOutputFails
  <2>1. UNCHANGED <<main, cursor, on, at>>
    BY <1>4 DEF vars, control, Finished, OpenOutputFails
  <2>2. Kept' = Kept
    BY <2>1 DEF Kept, Alive
  <2> QED
    BY <1>2, <2>1, <2>2
<1>5. CASE Start
  <2>1. main' = "startFPs"
    BY <1>5 DEF Start
  <2>2. Kept' = {}
    BY <2>1 DEF Kept, Alive
  <2> QED
    BY <2>2 DEF KeptRun
<1>6. CASE StartFastPaths
  <2>1. main' = "startLBs" /\ \A w \in FPs : on'[w] /\ at'[w] = "check"
    BY <1>1, <1>6 DEF StartFastPaths, StartWorkers
  <2>2. Kept' \subseteq FPs
    BY <2>1 DEF Kept, Alive
  <2> QED
    BY <2>1, <2>2 DEF KeptRun
<1>7. CASE StartLoadBalancers
  <2>1. /\ main = "startLBs" /\ main' = "startReader"
        /\ \A w \in LBs : on'[w] /\ at'[w] = "check"
        /\ \A w \in FPs : on'[w] = on[w] /\ at'[w] = at[w]
    BY <1>1, <1>7 DEF StartLoadBalancers, StartWorkers
  <2>2. FPs \subseteq Kept
    BY <2>1 DEF Kept, Alive
  <2>3. Kept' \subseteq LBs \cup FPs
    BY <2>1 DEF Kept, Alive
  <2> QED
    BY <2>1, <2>2, <2>3 DEF KeptRun
<1>8. CASE StartReader \/ WaitForCompletion
  <2>1. /\ main \in {"startReader", "waiting"} /\ main' \in {"waiting", "draining"}
        /\ on' = on /\ \A w \in Worker : at'[w] = at[w]
    BY <1>1, <1>8 DEF StartReader, WaitForCompletion
  <2>2. Kept = Worker /\ Kept' = Worker
    BY <2>1 DEF Kept, Alive
  <2> QED
    BY <1>2, <2>1, <2>2
<1>9. CASE StopRequest
  <2>1. main = "draining" /\ main' = "stop" /\ UNCHANGED <<on, at>>
    BY <1>9 DEF StopRequest
  <2>2. Kept = Worker /\ Kept' \subseteq Worker
    BY <2>1 DEF Kept, Alive
  <2> QED
    BY <1>2, <2>1, <2>2
<1>10. CASE StopWorker \/ ShutWorkerQueue
  <2>1. /\ main \in {"stop", "shut"} /\ main' \in {"shut", "join"} /\ cursor' = cursor
        /\ at' = at /\ \A w \in Worker : w # cursor => on'[w] = on[w]
    BY <1>1, <1>10 DEF StopWorker, ShutWorkerQueue
  <2>2. Kept' \subseteq Kept /\ cursor \notin Kept' /\ Kept' \subseteq Worker
    BY <2>1 DEF Kept, Alive
  <2> QED
    BY <1>2, <2>1, <2>2
<1>11. CASE JoinWorker
  <2>1. main = "join" /\ cursor \in Nat /\ UNCHANGED <<on, at>>
    BY <1>11 DEF JoinWorker, TypeOK, ControlOK
  <2>2. CASE cursor + 1 \in Worker
    <3>1. cursor' = cursor + 1 /\ main' = "stop"
      BY <1>11, <2>2 DEF JoinWorker
    <3>2. \A w \in Worker : w >= cursor + 1 => w >= cursor /\ w # cursor
      BY <2>1
    <3>3. Kept' \subseteq Kept
      BY <2>1, <3>1, <3>2 DEF Kept, Alive
    <3> QED
      BY <1>2, <2>1, <3>3
  <2>3. CASE cursor + 1 \notin Worker
    <3>1. main' = "shutOutput"
      BY <1>11, <2>3 DEF JoinWorker
    <3>2. Kept' = {}
      BY <3>1 DEF Kept, Alive
    <3> QED
      BY <3>2 DEF KeptRun
  <2> QED
    BY <2>2, <2>3
<1>12. CASE ShutOutputQueue \/ JoinWriter
  <2>1. main' \in {"joinWriter", "idle"}
    BY <1>12 DEF ShutOutputQueue, JoinWriter
  <2>2. Kept' = {}
    BY <2>1 DEF Kept, Alive
  <2> QED
    BY <2>2 DEF KeptRun
<1>13. CASE ReaderStep \/ WriterStep
  <2>1. UNCHANGED <<control, on>> /\ \A w \in Worker : at'[w] = at[w]
    BY <1>1, <1>13 DEF ReaderStep, WriterStep, OpenInputFails, OpenInput, SkipRecord, ReadPacket,
       EndOfFile, Push, PushDiscards, Pushed, WriterChecksRunning, WriterChecksEmpty, Pop,
       WriterPopFails, WritePacket
  <2>2. Kept' = Kept /\ Kept' \subseteq Worker
    BY <1>3, <2>1 DEF Kept
  <2> QED
    BY <1>2, <2>1, <2>2
<1>14. ASSUME NEW w \in Worker, WorkerStep(w) PROVE KeptRun'
  <2>1. UNCHANGED <<control, on>>
    BY <1>14 DEF WorkerStep, CheckRunning, TryPopFails, Pop, Drop, Accept, Push, PushDiscards,
       Pushed, CountDispatched
  <2>2. (\A u \in Worker : u # w => at'[u] = at[u]) /\ (on[w] => at'[w] # "off")
    BY <1>1, <1>14 DEF WorkerStep, CheckRunning, TryPopFails, Pop, Drop, Accept, Push,
       PushDiscards, Pushed, CountDispatched
  <2>3. Kept' = Kept /\ Kept' \subseteq Worker
    BY <1>3, <2>1 DEF Kept
  <2> QED
    BY <2>1, <2>2, <2>3 DEF KeptRun
<1> QED
  BY <1>4, <1>5, <1>6, <1>7, <1>8, <1>9, <1>10, <1>11, <1>12, <1>13, <1>14 DEF Next, MainStep

LEMMA WriterStaysStep == TypeOK /\ WriterStays /\ [Next]_vars => WriterStays'
<1> SUFFICES ASSUME TypeOK, WriterStays, [Next]_vars, running_' PROVE WriterStays'
  BY DEF WriterStays
<1> USE Numbering
<1>1. at \in [Thread -> Places] /\ running_ \in BOOLEAN
  BY DEF TypeOK, ThreadsOK, ControlOK
<1>2. ASSUME UNCHANGED <<running_, at>> PROVE WriterStays'
  BY <1>2 DEF WriterStays
<1>3. ASSUME running_' = running_, at'[Writer] = at[Writer] PROVE WriterStays'
  BY <1>3 DEF WriterStays
<1>4. CASE UNCHANGED vars \/ Finished \/ OpenOutputFails \/ WaitForCompletion \/ StopWorker
           \/ ShutWorkerQueue \/ JoinWorker \/ ShutOutputQueue \/ JoinWriter
  BY <1>2, <1>4 DEF vars, control, Finished, OpenOutputFails, WaitForCompletion, StopWorker,
     ShutWorkerQueue, JoinWorker, ShutOutputQueue, JoinWriter
<1>5. CASE Start
  BY <1>1, <1>5 DEF Start, WriterStays
<1>6. CASE StartFastPaths \/ StartLoadBalancers \/ StartReader
  <2>1. running_' = running_ /\ at'[Writer] = at[Writer]
    BY <1>1, <1>6 DEF StartFastPaths, StartLoadBalancers, StartReader, StartWorkers
  <2> QED
    BY <1>3, <2>1
<1>7. CASE StopRequest
  BY <1>7 DEF StopRequest
<1>8. CASE ReaderStep
  <2>1. running_' = running_ /\ at'[Writer] = at[Writer]
    BY <1>1, <1>8 DEF ReaderStep, OpenInputFails, OpenInput, SkipRecord, ReadPacket, EndOfFile,
       Push, PushDiscards, Pushed, control
  <2> QED
    BY <1>3, <2>1
<1>9. ASSUME NEW w \in Worker, WorkerStep(w) PROVE WriterStays'
  <2>1. running_' = running_ /\ at'[Writer] = at[Writer]
    BY <1>1, <1>9 DEF WorkerStep, CheckRunning, TryPopFails, Pop, Drop, Accept, Push,
       PushDiscards, Pushed, CountDispatched, control
  <2> QED
    BY <1>3, <2>1
<1>10. CASE WriterStep
  <2>1. running_' = running_ /\ at[Writer] # "checkEmpty"
    BY <1>10 DEF WriterStep, WriterChecksRunning, WriterChecksEmpty, Pop, WriterPopFails,
       WritePacket, control, WriterStays
  <2>2. at'[Writer] \in {"check", "pop", "push", "work"}
    BY <1>1, <1>10, <2>1 DEF WriterStep, WriterChecksRunning, WriterChecksEmpty, Pop,
       WriterPopFails, WritePacket
  <2> QED
    BY <2>2 DEF WriterStays
<1> QED
  BY <1>4, <1>5, <1>6, <1>7, <1>8, <1>9, <1>10 DEF Next, MainStep

LEMMA ToldStep == TypeOK /\ ToldToGo /\ [Next]_vars => ToldToGo'
<1> SUFFICES ASSUME TypeOK, ToldToGo, [Next]_vars PROVE ToldToGo'
  OBVIOUS
<1> USE Numbering
<1>1. /\ on \in [Worker -> BOOLEAN] /\ shut \in [Queue -> BOOLEAN]
      /\ main \in {"stop", "shut", "join"} => cursor \in Worker
  BY DEF TypeOK, ThreadsOK, DataOK, ControlOK, Worker
<1>2. ASSUME UNCHANGED <<main, cursor, running_, on, shut>> PROVE ToldToGo'
  BY <1>2 DEF ToldToGo
<1>3. ASSUME main' \notin {"shut", "join", "joinWriter"}, running_' <=> main' \notin Stopped
      PROVE  ToldToGo'
  BY <1>3 DEF ToldToGo
<1>4. CASE UNCHANGED vars \/ Finished \/ OpenOutputFails
  BY <1>2, <1>4 DEF vars, control, Finished, OpenOutputFails
<1>5. CASE Start \/ StartFastPaths \/ StartLoadBalancers \/ StartReader \/ WaitForCompletion
           \/ JoinWriter
  <2>1. main' \notin {"shut", "join", "joinWriter"} /\ (running_' <=> main' \notin Stopped)
    BY <1>5 DEF Start, StartFastPaths, StartLoadBalancers, StartReader, StartWorkers,
       WaitForCompletion, JoinWriter, ToldToGo, Stopped
  <2> QED
    BY <1>3, <2>1
<1>6. CASE StopRequest
  BY <1>6 DEF StopRequest, ToldToGo, Stopped
<1>7. CASE StopWorker
  BY <1>1, <1>7 DEF StopWorker, ToldToGo, Stopped
<1>8. CASE ShutWorkerQueue
  BY <1>1, <1>8 DEF ShutWorkerQueue, ToldToGo, Stopped
<1>9. CASE JoinWorker
  <2>1. main' \in {"stop", "shutOutput"} /\ main = "join" /\ UNCHANGED running_
    BY <1>9 DEF JoinWorker
  <2> QED
    BY <2>1 DEF ToldToGo, Stopped
<1>10. CASE ShutOutputQueue
  BY <1>1, <1>10 DEF ShutOutputQueue, ToldToGo, Stopped
<1>11. CASE ReaderStep \/ WriterStep
  BY <1>2, <1>11 DEF ReaderStep, WriterStep, OpenInputFails, OpenInput, SkipRecord, ReadPacket,
     EndOfFile, Push, PushDiscards, Pushed, WriterChecksRunning, WriterChecksEmpty, Pop,
     WriterPopFails, WritePacket, control
<1>12. ASSUME NEW w \in Worker, WorkerStep(w) PROVE ToldToGo'
  BY <1>2, <1>12 DEF WorkerStep, CheckRunning, TryPopFails, Pop, Drop, Accept, Push,
     PushDiscards, Pushed, CountDispatched, control
<1> QED
  BY <1>4, <1>5, <1>6, <1>7, <1>8, <1>9, <1>10, <1>11, <1>12 DEF Next, MainStep

LEMMA WaitsInit == Init => KeptRun /\ WriterStays /\ ToldToGo
BY DEF Init, KeptRun, Kept, Alive, WriterStays, ToldToGo, Stopped

(* The workers are started before those that push to them and stopped      *)
(* after them.                                                             *)
LEMMA WaitedForIsKept ==
  ASSUME TypeOK, NEW q \in Worker, WaitsAt(q)
  PROVE  q \in Kept
<1> USE Numbering
<1>1. PICK t \in Thread : at[t] = "push" /\ q = Dest(t, hand[t])
  BY DEF WaitsAt
<1>2. t \in Alive /\ hand[t] \in Packet
  BY <1>1 DEF TypeOK, PhaseOK, ThreadsOK
<1>3. CASE t = Reader
  <2>1. main = "waiting"
    BY <1>2, <1>3 DEF Alive
  <2> QED
    BY <2>1 DEF Kept, Alive
<1>4. CASE t \in LBs
  <2>1. q \in FPs
    BY <1>1, <1>2, <1>4, Routes DEF Dest
  <2>2. t < q
    BY <1>4, <2>1 DEF LBs, FPs
  <2>3. t \notin FPs /\ t # Writer
    BY <1>4
  <2>4. main \in Mains /\ cursor \in Nat
    BY DEF TypeOK, ControlOK
  <2>5. CASE main \in {"stop", "shut", "join"}
    <3>1. t >= cursor
      BY <1>2, <2>5 DEF Alive
    <3>2. q >= cursor /\ q # cursor
      BY <2>2, <2>4, <3>1
    <3> QED
      BY <2>5, <3>2 DEF Kept, Alive
  <2>6. CASE main \in {"startReader", "waiting", "draining"}
    BY <2>6 DEF Kept, Alive
  <2>7. main \notin {"idle", "shutOutput", "joinWriter", "startFPs", "startLBs"}
    BY <1>2, <2>3 DEF Alive
  <2> QED
    BY <2>4, <2>5, <2>6, <2>7 DEF Mains
<1>5. CASE t \notin LBs /\ t # Reader
  BY <1>1, <1>5 DEF Dest
<1> QED
  BY <1>3, <1>4, <1>5

(* The safety that the return of processFile rests on, and how far it      *)
(* goes.                                                                   *)
THEOREM OnlyTheWriterLeaves ==
  ASSUME QueueCap > 0, OutCap > 0
  PROVE  Spec => []WaitsEnd
<1>1. TypeOK /\ KeptRun /\ WriterStays /\ ToldToGo => WaitsEnd
  <2> SUFFICES ASSUME TypeOK, KeptRun, WriterStays, ToldToGo PROVE WaitsEnd
    OBVIOUS
  <2>1. ASSUME NEW q \in Queue, WaitsAt(q), Full(q)
        PROVE  /\ queue[q] # <<>>
               /\ q \in Worker => on[q] /\ at[q] # "off"
               /\ q = Writer /\ running_ => at[q] # "off"
    <3>1. queue[q] \in Seq(Packet) /\ Len(queue[q]) >= Cap(q)
      BY <2>1 DEF Full, TypeOK, DataOK
    <3>2. Cap(q) \in Nat /\ Cap(q) > 0
      BY EngineAssumption DEF Cap
    <3>3. queue[q] # <<>>
      BY <3>1, <3>2
    <3>4. q \in Worker => q \in Kept
      BY <2>1, WaitedForIsKept
    <3> QED
      BY <3>3, <3>4 DEF KeptRun, WriterStays
  <2> QED
    BY <2>1 DEF WaitsEnd, ToldToGo, Stopped
<1>2. TypeOK /\ KeptRun /\ WriterStays /\ ToldToGo /\ [Next]_vars
        => (KeptRun /\ WriterStays /\ ToldToGo)'
  BY KeptStep, WriterStaysStep, ToldStep
<1> QED
  BY <1>1, <1>2, WaitsInit, TypeCorrect, PTL DEF Spec

(* With a sleep that outlasts the drain the exception does not happen, in  *)
(* any call of processFile: whoever waits for room in a queue waits for a  *)
(* thread that is running.                                                 *)
THEOREM EnoughSleepNeverBlocks ==
  ASSUME QueueCap > 0, OutCap > 0
  PROVE  Spec => [](SleepOutlastsDrain =>
                      \A q \in Queue : WaitsAt(q) /\ Full(q) => at[q] # "off")
<1>1. ASSUME TypeOK, ToldToGo, StaysQuiet, WaitsEnd
      PROVE  SleepOutlastsDrain =>
               \A q \in Queue : WaitsAt(q) /\ Full(q) => at[q] # "off"
  <2> SUFFICES ASSUME SleepOutlastsDrain, NEW q \in Queue, WaitsAt(q), Full(q)
               PROVE  at[q] # "off"
    OBVIOUS
  <2>1. CASE main \in Stopped
    <3>1. \A t \in Thread : at[t] # "push"
      BY <1>1, <2>1 DEF StaysQuiet, Quiet, TypeOK, ThreadsOK
    <3> QED
      BY <3>1 DEF WaitsAt
  <2>2. CASE main \notin Stopped
    <3>1. running_
      BY <1>1, <2>2 DEF ToldToGo
    <3> QED
      BY <1>1, <3>1, Numbering DEF WaitsEnd
  <2> QED
    BY <2>1, <2>2
<1>2. TypeOK /\ ToldToGo /\ [Next]_vars => ToldToGo'
  BY ToldStep
<1> QED
  BY <1>1, <1>2, WaitsInit, OnlyTheWriterLeaves, FirstCallSettles, TypeCorrect, PTL DEF Spec

=============================================================================
