------------------------ MODULE ThreadSafeQueueProof ------------------------
(***************************************************************************)
(* ThreadSafeQueue for any number of threads, any items and any capacity:  *)
(* the type invariant, the three facts about lost notifications, the bound *)
(* on the queue, and the refinement of BoundedFifo.  Every invariant of    *)
(* the monitor is inductive once TypeOK is known.                          *)
(***************************************************************************)
EXTENDS ThreadSafeQueue, FiniteSetTheorems, TLAPS

(* What notify_one may change: the notified thread leaves its wait set.    *)
LEMMA ReturnAndNotifyOneType ==
  ASSUME TypeOK, NEW t \in Thread, NEW waiters \in SUBSET Thread,
         waiters \subseteq NotEmptyWaiters \cup NotFullWaiters,
         t \notin waiters,
         ReturnAndNotifyOne(t, waiters)
  PROVE  /\ pc' \in [Thread -> PCs]
         /\ pc'[t] = "idle"
         /\ \A u \in Thread \ {t} : pc'[u] = pc[u] \/ pc'[u] = Awake(pc[u])
         /\ \A u \in Thread \ {t} : u \notin waiters => pc'[u] = pc[u]
         /\ waiters # {} => \E w \in waiters : pc'[w] = Awake(pc[w])
BY DEF TypeOK, PCs, ReturnAndNotifyOne, Awake, NotEmptyWaiters, NotFullWaiters

(* The type invariant is preserved by every action.                        *)
LEMMA TypeStep == TypeOK /\ [Next]_vars => TypeOK'
<1> SUFFICES ASSUME TypeOK, [Next]_vars PROVE TypeOK'
  OBVIOUS
<1>1. CASE UNCHANGED vars
  BY <1>1 DEF TypeOK, vars
<1>2. ASSUME NEW t \in Thread, CallPush(t) PROVE TypeOK'
  BY <1>2 DEF TypeOK, CallPush, PCs
<1>3. ASSUME NEW t \in Thread, CallOther(t) PROVE TypeOK'
  BY <1>3 DEF TypeOK, CallOther, PCs
<1>4. ASSUME NEW t \in Thread, PushWait(t) PROVE TypeOK'
  BY <1>4 DEF TypeOK, PushWait, PCs
<1>5. ASSUME NEW t \in Thread, PushDiscard(t) PROVE TypeOK'
  BY <1>5 DEF TypeOK, PushDiscard, Return, PCs
<1>6. ASSUME NEW t \in Thread, PushItem(t) PROVE TypeOK'
  <2>1. slot[t] \in Item /\ queue_' \in Seq(Item)
    BY <1>6 DEF TypeOK, PushItem
  <2>2. /\ pc' \in [Thread -> PCs]
        /\ pc'[t] = "idle"
        /\ \A u \in Thread \ {t} : pc'[u] = pc[u] \/ pc'[u] = Awake(pc[u])
    BY <1>6, ReturnAndNotifyOneType DEF PushItem, NotEmptyWaiters
  <2> QED
    BY <1>6, <2>1, <2>2 DEF TypeOK, PushItem, Awake, PCs
<1>7. ASSUME NEW t \in Thread, PopWait(t) PROVE TypeOK'
  BY <1>7 DEF TypeOK, PopWait, PCs
<1>8. ASSUME NEW t \in Thread, PopItem(t) PROVE TypeOK'
  <2>1. queue_' \in Seq(Item) /\ Head(queue_) \in Item
    BY <1>8 DEF TypeOK, PopItem
  <2>2. /\ pc' \in [Thread -> PCs]
        /\ pc'[t] = "idle"
        /\ \A u \in Thread \ {t} : pc'[u] = pc[u] \/ pc'[u] = Awake(pc[u])
    BY <1>8, ReturnAndNotifyOneType DEF PopItem, NotFullWaiters, Takers
  <2> QED
    BY <1>8, <2>1, <2>2 DEF TypeOK, PopItem, Awake, PCs
<1>9. ASSUME NEW t \in Thread, PopFalse(t) PROVE TypeOK'
  BY <1>9 DEF TypeOK, PopFalse, Return, PCs, Takers
<1>10. ASSUME NEW t \in Thread, ShutdownSet(t) PROVE TypeOK'
  BY <1>10 DEF TypeOK, ShutdownSet, PCs
<1>11. ASSUME NEW t \in Thread, ShutdownNotifyEmpty(t) PROVE TypeOK'
  BY <1>11 DEF TypeOK, ShutdownNotifyEmpty, NotifyAll, NotEmptyWaiters, Awake, PCs
<1>12. ASSUME NEW t \in Thread, ShutdownNotifyFull(t) PROVE TypeOK'
  BY <1>12 DEF TypeOK, ShutdownNotifyFull, NotifyAll, NotFullWaiters, Awake, PCs
<1>13. ASSUME NEW t \in Thread, TryPopTimeout(t) PROVE TypeOK'
  BY <1>13 DEF TypeOK, TryPopTimeout, PCs
<1>14. ASSUME NEW t \in Thread, SpuriousWakeup(t) PROVE TypeOK'
  BY <1>14 DEF TypeOK, SpuriousWakeup, NotEmptyWaiters, NotFullWaiters, Awake, PCs
<1> QED
  BY <1>1, <1>2, <1>3, <1>4, <1>5, <1>6, <1>7, <1>8, <1>9, <1>10, <1>11,
     <1>12, <1>13, <1>14 DEF Next, Step

(* The state of the monitor has its types in every reachable state.        *)
THEOREM TypeCorrect == Spec => []TypeOK
<1>1. Init => TypeOK
  <2> HAVE Init
  <2>1. queue_ \in Seq(Item)
    BY DEF Init
  <2>2. \A t \in Thread : pc[t] = "idle"
    BY DEF Init
  <2>3. pc \in [Thread -> PCs]
    BY DEF Init, PCs
  <2> QED
    BY <2>1, <2>2, <2>3 DEF Init, TypeOK
<1> QED
  BY <1>1, TypeStep, PTL DEF Spec

----------------------------------------------------------------------------
(* Lost notifications: counting the threads that are awake.                *)

(* A set of threads that gained an element has one more at least.          *)
LEMMA GainOne ==
  ASSUME NEW A \in SUBSET Thread, NEW B \in SUBSET Thread, NEW x,
         x \notin A, A \cup {x} \subseteq B
  PROVE  /\ Cardinality(A) \in Nat /\ Cardinality(B) \in Nat
         /\ Cardinality(A) + 1 <= Cardinality(B)
<1>1. IsFiniteSet(A) /\ IsFiniteSet(B)
  BY FS_Subset, QueueAssumption DEF QueueAssumption
<1>2. Cardinality(A \cup {x}) = Cardinality(A) + 1
  BY <1>1, FS_AddElement
<1>3. Cardinality(A \cup {x}) <= Cardinality(B)
  BY <1>1, FS_Subset
<1> QED
  BY <1>1, <1>2, <1>3, FS_CardinalityType

(* A set of threads that lost one element at most has one less at most.    *)
LEMMA LoseOne ==
  ASSUME NEW A \in SUBSET Thread, NEW B \in SUBSET Thread, NEW x,
         A \ {x} \subseteq B
  PROVE  /\ Cardinality(A) \in Nat /\ Cardinality(B) \in Nat
         /\ Cardinality(A) <= Cardinality(B) + 1
<1>1. IsFiniteSet(A) /\ IsFiniteSet(B) /\ IsFiniteSet(A \ {x})
  BY FS_Subset, QueueAssumption DEF QueueAssumption
<1>2. Cardinality(A) <= Cardinality(A \ {x}) + 1
  <2>1. Cardinality(A) \in Nat
    BY <1>1, FS_CardinalityType
  <2>2. Cardinality(A \ {x}) = IF x \in A THEN Cardinality(A) - 1 ELSE Cardinality(A)
    BY <1>1, FS_RemoveElement
  <2> QED
    BY <2>1, <2>2
<1>3. Cardinality(A \ {x}) <= Cardinality(B)
  BY <1>1, FS_Subset
<1> QED
  BY <1>1, <1>2, <1>3, FS_CardinalityType

(* A set of threads that lost nothing has no less.                         *)
LEMMA KeepAll ==
  ASSUME NEW A \in SUBSET Thread, NEW B \in SUBSET Thread, A \subseteq B
  PROVE  /\ Cardinality(A) \in Nat /\ Cardinality(B) \in Nat
         /\ Cardinality(A) <= Cardinality(B)
<1>1. IsFiniteSet(A) /\ IsFiniteSet(B)
  BY FS_Subset, QueueAssumption DEF QueueAssumption
<1> QED
  BY <1>1, FS_Subset, FS_CardinalityType

(* The steps that leave the queue as it is wake consumers but put none to  *)
(* sleep, except PopWait, which finds the queue empty, and PopFalse, which *)
(* finds it empty too.                                                     *)
LEMMA NotEmptyStep ==
  TypeOK /\ TypeOK' /\ NoLostNotEmpty /\ [Next]_vars => NoLostNotEmpty'
<1> SUFFICES ASSUME TypeOK, TypeOK', NoLostNotEmpty, [Next]_vars,
                    ~shutdown_', NotEmptyWaiters' # {}
             PROVE  Len(queue_') <= Cardinality(Takers')
  BY DEF NoLostNotEmpty
<1> USE DEF NotEmptyWaiters, Takers
<1>0. /\ Takers \in SUBSET Thread /\ Takers' \in SUBSET Thread
      /\ Len(queue_) \in Nat /\ Cardinality(Takers') \in Nat
  BY KeepAll DEF TypeOK
(* The steps that neither touch the queue nor retire a consumer.           *)
<1>1. ASSUME queue_' = queue_, ~shutdown_, NotEmptyWaiters # {},
             Takers \subseteq Takers'
      PROVE  Len(queue_') <= Cardinality(Takers')
  <2>1. Cardinality(Takers) <= Cardinality(Takers') /\ Cardinality(Takers) \in Nat
    BY <1>0, <1>1, KeepAll
  <2> QED
    BY <1>0, <1>1, <2>1 DEF NoLostNotEmpty
<1>2. ASSUME queue_' = queue_, queue_ = <<>>
      PROVE  Len(queue_') <= Cardinality(Takers')
  BY <1>0, <1>2
<1>3. CASE UNCHANGED vars
  BY <1>1, <1>3 DEF vars
<1>4. ASSUME NEW t \in Thread, PushItem(t)
      PROVE  Len(queue_') <= Cardinality(Takers')
  <2>1. PICK w \in NotEmptyWaiters : pc' = [[pc EXCEPT ![t] = "idle"] EXCEPT ![w] = Awake(@)]
    BY <1>4 DEF PushItem, ReturnAndNotifyOne, TypeOK
  <2>2. w # t /\ w \in Thread /\ w \notin Takers
    BY <1>4, <2>1 DEF PushItem
  <2>3. pc'[w] \in {"pop", "tryPop"}
    BY <1>4, <2>1, <2>2 DEF TypeOK, Awake
  <2>4. Takers \cup {w} \subseteq Takers'
    BY <1>4, <2>1, <2>2, <2>3 DEF TypeOK, PushItem
  <2>5. Cardinality(Takers) + 1 <= Cardinality(Takers') /\ Cardinality(Takers) \in Nat
    BY <1>0, <2>2, <2>4, GainOne
  <2>6. Len(queue_') = Len(queue_) + 1
    BY <1>4 DEF PushItem, TypeOK
  <2> QED
    BY <1>0, <1>4, <2>1, <2>5, <2>6 DEF NoLostNotEmpty, PushItem
<1>5. ASSUME NEW t \in Thread, PopItem(t)
      PROVE  Len(queue_') <= Cardinality(Takers')
  <2>1. \A u \in Thread \ {t} : u \notin NotFullWaiters => pc'[u] = pc[u]
    BY <1>5, ReturnAndNotifyOneType DEF PopItem, NotFullWaiters
  <2>2. \A u \in NotFullWaiters : u # t => pc'[u] \in {"push", "pushWait"}
    BY <1>5, ReturnAndNotifyOneType DEF PopItem, NotFullWaiters, Awake
  <2>3. /\ pc'[t] = "idle"
        /\ NotEmptyWaiters # {}
    BY <1>5, <2>1, <2>2, ReturnAndNotifyOneType DEF PopItem, NotFullWaiters
  <2>4. Takers \ {t} \subseteq Takers'
    BY <2>1 DEF NotFullWaiters
  <2>5. Cardinality(Takers) <= Cardinality(Takers') + 1 /\ Cardinality(Takers) \in Nat
    BY <1>0, <2>4, LoseOne
  <2>6. Len(queue_') = Len(queue_) - 1
    BY <1>5 DEF PopItem, TypeOK
  <2> QED
    BY <1>0, <1>5, <2>3, <2>5, <2>6 DEF NoLostNotEmpty, PopItem
<1>6. ASSUME NEW t \in Thread, CallPush(t) \/ CallOther(t) \/ PushWait(t)
      PROVE  Len(queue_') <= Cardinality(Takers')
  BY <1>1, <1>6 DEF CallPush, CallOther, PushWait, TypeOK
<1>7. ASSUME NEW t \in Thread, PopWait(t) \/ PopFalse(t)
      PROVE  Len(queue_') <= Cardinality(Takers')
  BY <1>2, <1>7 DEF PopWait, PopFalse
<1>8. ASSUME NEW t \in Thread, PushDiscard(t) \/ ShutdownSet(t)
      PROVE  FALSE
  BY <1>8 DEF PushDiscard, ShutdownSet
<1>9. ASSUME NEW t \in Thread, ShutdownNotifyEmpty(t)
      PROVE  FALSE
  BY <1>9 DEF ShutdownNotifyEmpty, NotifyAll, Awake, TypeOK
<1>10. ASSUME NEW t \in Thread, ShutdownNotifyFull(t)
       PROVE  Len(queue_') <= Cardinality(Takers')
  BY <1>1, <1>10 DEF ShutdownNotifyFull, NotifyAll, NotFullWaiters, Awake, TypeOK
<1>11. ASSUME NEW t \in Thread, TryPopTimeout(t)
       PROVE  Len(queue_') <= Cardinality(Takers')
  BY <1>1, <1>11 DEF TryPopTimeout, TypeOK
<1>12. ASSUME NEW t \in Thread, SpuriousWakeup(t)
       PROVE  Len(queue_') <= Cardinality(Takers')
  BY <1>1, <1>12 DEF SpuriousWakeup, NotFullWaiters, Awake, TypeOK
<1> QED
  BY <1>3, <1>4, <1>5, <1>6, <1>7, <1>8, <1>9, <1>10, <1>11, <1>12
     DEF Next, Step

(* The same argument for producers: PushWait finds the queue full, and a   *)
(* producer that leaves "push" has added an item.                          *)
LEMMA NotFullStep ==
  TypeOK /\ TypeOK' /\ NoLostNotFull /\ [Next]_vars => NoLostNotFull'
<1> SUFFICES ASSUME TypeOK, TypeOK', NoLostNotFull, [Next]_vars,
                    ~shutdown_', NotFullWaiters' # {}
             PROVE  max_size_ <= Len(queue_') + Cardinality(Putters')
  BY DEF NoLostNotFull
<1> USE DEF NotFullWaiters, Putters
<1>0. /\ Putters \in SUBSET Thread /\ Putters' \in SUBSET Thread
      /\ Len(queue_) \in Nat /\ Cardinality(Putters') \in Nat
      /\ max_size_ \in Nat
  BY KeepAll, QueueAssumption DEF TypeOK, QueueAssumption
<1>1. ASSUME queue_' = queue_, ~shutdown_, NotFullWaiters # {},
             Putters \subseteq Putters'
      PROVE  max_size_ <= Len(queue_') + Cardinality(Putters')
  <2>1. Cardinality(Putters) <= Cardinality(Putters') /\ Cardinality(Putters) \in Nat
    BY <1>0, <1>1, KeepAll
  <2> QED
    BY <1>0, <1>1, <2>1 DEF NoLostNotFull
<1>2. CASE UNCHANGED vars
  BY <1>1, <1>2 DEF vars
<1>3. ASSUME NEW t \in Thread, PushItem(t)
      PROVE  max_size_ <= Len(queue_') + Cardinality(Putters')
  <2>1. \A u \in Thread \ {t} : u \notin NotEmptyWaiters => pc'[u] = pc[u]
    BY <1>3, ReturnAndNotifyOneType DEF PushItem, NotEmptyWaiters
  <2>2. \A u \in NotEmptyWaiters : u # t => pc'[u] \notin {"push", "pushWait"}
    BY <1>3, ReturnAndNotifyOneType DEF PushItem, NotEmptyWaiters, Awake
  <2>3. pc'[t] = "idle" /\ NotFullWaiters # {}
    BY <1>3, <2>1, <2>2, ReturnAndNotifyOneType DEF PushItem, NotEmptyWaiters
  <2>4. Putters \ {t} \subseteq Putters'
    BY <2>1 DEF NotEmptyWaiters
  <2>5. Cardinality(Putters) <= Cardinality(Putters') + 1 /\ Cardinality(Putters) \in Nat
    BY <1>0, <2>4, LoseOne
  <2>6. Len(queue_') = Len(queue_) + 1
    BY <1>3 DEF PushItem, TypeOK
  <2> QED
    BY <1>0, <1>3, <2>3, <2>5, <2>6 DEF NoLostNotFull, PushItem
<1>4. ASSUME NEW t \in Thread, PopItem(t)
      PROVE  max_size_ <= Len(queue_') + Cardinality(Putters')
  <2>1. PICK w \in NotFullWaiters : pc' = [[pc EXCEPT ![t] = "idle"] EXCEPT ![w] = Awake(@)]
    BY <1>4 DEF PopItem, ReturnAndNotifyOne, TypeOK
  <2>2. w # t /\ w \in Thread /\ w \notin Putters
    BY <1>4, <2>1 DEF PopItem, Takers
  <2>3. pc'[w] = "push"
    BY <1>4, <2>1, <2>2 DEF TypeOK, Awake
  <2>4. Putters \cup {w} \subseteq Putters'
    BY <1>4, <2>1, <2>2, <2>3 DEF TypeOK, PopItem, Takers
  <2>5. Cardinality(Putters) + 1 <= Cardinality(Putters') /\ Cardinality(Putters) \in Nat
    BY <1>0, <2>2, <2>4, GainOne
  <2>6. Len(queue_') = Len(queue_) - 1
    BY <1>4 DEF PopItem, TypeOK
  <2> QED
    BY <1>0, <1>4, <2>1, <2>5, <2>6 DEF NoLostNotFull, PopItem
<1>5. ASSUME NEW t \in Thread, CallPush(t) \/ CallOther(t) \/ PopWait(t) \/ PopFalse(t)
      PROVE  max_size_ <= Len(queue_') + Cardinality(Putters')
  BY <1>1, <1>5 DEF CallPush, CallOther, PopWait, PopFalse, Return, Takers, TypeOK
<1>6. ASSUME NEW t \in Thread, PushWait(t)
      PROVE  max_size_ <= Len(queue_') + Cardinality(Putters')
  BY <1>0, <1>6 DEF PushWait
<1>7. ASSUME NEW t \in Thread, PushDiscard(t) \/ ShutdownSet(t)
      PROVE  FALSE
  BY <1>7 DEF PushDiscard, ShutdownSet
<1>8. ASSUME NEW t \in Thread, ShutdownNotifyEmpty(t)
      PROVE  max_size_ <= Len(queue_') + Cardinality(Putters')
  BY <1>1, <1>8 DEF ShutdownNotifyEmpty, NotifyAll, NotEmptyWaiters, Awake, TypeOK
<1>9. ASSUME NEW t \in Thread, ShutdownNotifyFull(t)
      PROVE  FALSE
  BY <1>9 DEF ShutdownNotifyFull, NotifyAll, Awake, TypeOK
<1>10. ASSUME NEW t \in Thread, TryPopTimeout(t)
       PROVE  max_size_ <= Len(queue_') + Cardinality(Putters')
  BY <1>1, <1>10 DEF TryPopTimeout, TypeOK
<1>11. ASSUME NEW t \in Thread, SpuriousWakeup(t)
       PROVE  max_size_ <= Len(queue_') + Cardinality(Putters')
  BY <1>1, <1>11 DEF SpuriousWakeup, NotEmptyWaiters, Awake, TypeOK
<1> QED
  BY <1>2, <1>3, <1>4, <1>5, <1>6, <1>7, <1>8, <1>9, <1>10, <1>11
     DEF Next, Step

(* While a consumer sleeps on not_empty_, every queued item has an awake   *)
(* consumer, whatever the number of threads and the capacity.              *)
THEOREM NotEmptyNeverLost == Spec => []NoLostNotEmpty
<1>1. Init => NoLostNotEmpty
  BY DEF Init, NoLostNotEmpty, NotEmptyWaiters
<1> QED
  BY <1>1, NotEmptyStep, TypeCorrect, PTL DEF Spec

(* While a producer sleeps on not_full_, every free place has an awake     *)
(* producer.                                                               *)
THEOREM NotFullNeverLost == Spec => []NoLostNotFull
<1>1. Init => NoLostNotFull
  BY DEF Init, NoLostNotFull, NotFullWaiters
<1> QED
  BY <1>1, NotFullStep, TypeCorrect, PTL DEF Spec

----------------------------------------------------------------------------
(* The other invariants.                                                   *)

(* The queue holds max_size_ items at most.                                *)
THEOREM NeverOverfull == Spec => []WithinCapacity
<1>1. Init => WithinCapacity
  BY QueueAssumption DEF Init, WithinCapacity, QueueAssumption
<1>2. TypeOK /\ WithinCapacity /\ [Next]_vars => WithinCapacity'
  <2> SUFFICES ASSUME TypeOK, WithinCapacity, [Next]_vars PROVE WithinCapacity'
    OBVIOUS
  <2> USE QueueAssumption DEF QueueAssumption, WithinCapacity
  <2>1. CASE queue_' = queue_
    BY <2>1
  <2>2. ASSUME NEW t \in Thread, PushItem(t) PROVE WithinCapacity'
    <3>1. Len(queue_') = Len(queue_) + 1 /\ Len(queue_) \in Nat
      BY <2>2 DEF TypeOK, PushItem
    <3> QED
      BY <2>2, <3>1 DEF PushItem
  <2>3. ASSUME NEW t \in Thread, PopItem(t) PROVE WithinCapacity'
    <3>1. Len(queue_') = Len(queue_) - 1 /\ Len(queue_) \in Nat
      BY <2>3 DEF TypeOK, PopItem
    <3> QED
      BY <3>1
  <2> QED
    BY <2>1, <2>2, <2>3 DEF Next, Step, vars, CallPush, CallOther, PushWait,
       PushDiscard, PopWait, PopFalse, ShutdownSet, ShutdownNotifyEmpty,
       ShutdownNotifyFull, TryPopTimeout, SpuriousWakeup
<1> QED
  BY <1>1, <1>2, TypeCorrect, PTL DEF Spec

(* A thread that sleeps in a queue that is shut down is owed a notify_all. *)
(* No thread falls asleep once the flag is set, and the caller that owes a *)
(* notification keeps owing it until its own step.                         *)
THEOREM SleepersAreWoken == Spec => []SleeperIsOwedNotify
<1>1. Init => SleeperIsOwedNotify
  BY DEF Init, SleeperIsOwedNotify
<1>2. TypeOK /\ TypeOK' /\ SleeperIsOwedNotify /\ [Next]_vars => SleeperIsOwedNotify'
  <2> SUFFICES ASSUME TypeOK, TypeOK', SleeperIsOwedNotify, [Next]_vars, shutdown_'
               PROVE  SleeperIsOwedNotify'
    BY DEF SleeperIsOwedNotify
  <2> USE DEF NotEmptyWaiters, NotFullWaiters
  <2>1. ASSUME NEW t \in Thread, ShutdownSet(t) PROVE SleeperIsOwedNotify'
    <3>1. pc'[t] = "notifyEmpty"
      BY <2>1 DEF ShutdownSet, TypeOK
    <3> QED
      BY <3>1 DEF SleeperIsOwedNotify
  <2>2. ASSUME NEW t \in Thread, ShutdownNotifyEmpty(t) PROVE SleeperIsOwedNotify'
    <3>1. pc'[t] = "notifyFull" /\ NotEmptyWaiters' = {}
      BY <2>2 DEF ShutdownNotifyEmpty, NotifyAll, Awake, TypeOK
    <3> QED
      BY <3>1 DEF SleeperIsOwedNotify
  <2>3. ASSUME NEW t \in Thread, ShutdownNotifyFull(t) PROVE SleeperIsOwedNotify'
    <3>1. NotFullWaiters' = {} /\ NotEmptyWaiters' \subseteq NotEmptyWaiters
      BY <2>3 DEF ShutdownNotifyFull, NotifyAll, Awake, TypeOK
    <3>2. \A c \in Thread : pc[c] = "notifyEmpty" => pc'[c] = "notifyEmpty"
      BY <2>3 DEF ShutdownNotifyFull, NotifyAll, TypeOK
    <3> QED
      BY <2>3, <3>1, <3>2 DEF SleeperIsOwedNotify, ShutdownNotifyFull
  (* Every other step leaves the flag, puts nobody to sleep if it is set,  *)
  (* and leaves the callers of shutdown where they are.                    *)
  <2>4. ASSUME /\ shutdown_
               /\ NotEmptyWaiters' \subseteq NotEmptyWaiters
               /\ NotFullWaiters' \subseteq NotFullWaiters
               /\ \A c \in Thread : pc[c] \in {"notifyEmpty", "notifyFull"} => pc'[c] = pc[c]
        PROVE  SleeperIsOwedNotify'
    BY <2>4 DEF SleeperIsOwedNotify
  <2>5. CASE UNCHANGED vars
    BY <2>4, <2>5 DEF vars
  <2>6. ASSUME NEW t \in Thread, CallPush(t) \/ CallOther(t) PROVE SleeperIsOwedNotify'
    BY <2>4, <2>6 DEF CallPush, CallOther, TypeOK
  <2>7. ASSUME NEW t \in Thread, PushWait(t) \/ PopWait(t) \/ PushItem(t)
        PROVE  FALSE
    BY <2>7 DEF PushWait, PopWait, PushItem
  <2>8. ASSUME NEW t \in Thread, PushDiscard(t) \/ PopFalse(t) PROVE SleeperIsOwedNotify'
    BY <2>4, <2>8 DEF PushDiscard, PopFalse, Return, Takers, TypeOK
  <2>9. ASSUME NEW t \in Thread, PopItem(t) PROVE SleeperIsOwedNotify'
    <3>1. \A u \in Thread \ {t} : pc'[u] = pc[u] \/ pc'[u] = Awake(pc[u])
      BY <2>9, ReturnAndNotifyOneType DEF PopItem, Takers
    <3>2. \A u \in Thread \ {t} : u \notin NotFullWaiters => pc'[u] = pc[u]
      BY <2>9, ReturnAndNotifyOneType DEF PopItem, Takers
    <3>3. pc'[t] = "idle"
      BY <2>9, ReturnAndNotifyOneType DEF PopItem, Takers
    <3> QED
      BY <2>4, <2>9, <3>1, <3>2, <3>3 DEF PopItem, Takers, Awake, TypeOK
  <2>10. ASSUME NEW t \in Thread, TryPopTimeout(t) PROVE SleeperIsOwedNotify'
    BY <2>4, <2>10 DEF TryPopTimeout, TypeOK
  <2>11. ASSUME NEW t \in Thread, SpuriousWakeup(t) PROVE SleeperIsOwedNotify'
    BY <2>4, <2>11 DEF SpuriousWakeup, Awake, TypeOK
  <2> QED
    BY <2>1, <2>2, <2>3, <2>5, <2>6, <2>7, <2>8, <2>9, <2>10, <2>11
       DEF Next, Step
<1> QED
  BY <1>1, <1>2, TypeCorrect, PTL DEF Spec

----------------------------------------------------------------------------
(* The monitor implements the blocking bounded FIFO.                       *)

(* The empty open queue with no call in progress is the initial state of   *)
(* the FIFO.                                                               *)
LEMMA FifoInit == Init => Fifo!Init
BY DEF Init, Fifo!Init, OpOf

(* A step that leaves the queue, the flag, the slots and every thread's    *)
(* call is invisible to a caller.                                          *)
LEMMA FifoStutter ==
  ASSUME TypeOK, UNCHANGED <<queue_, shutdown_, slot>>,
         \A u \in Thread : OpOf(pc'[u]) = OpOf(pc[u])
  PROVE  UNCHANGED Fifo!vars
BY DEF Fifo!vars, TypeOK

(* The call of t is answered, whatever waiter is notified on the way.      *)
LEMMA FifoAnswer ==
  ASSUME TypeOK, TypeOK', NEW t \in Thread, NEW i,
         pc'[t] = "idle",
         \A u \in Thread \ {t} : OpOf(pc'[u]) = OpOf(pc[u]),
         slot' = [slot EXCEPT ![t] = i]
  PROVE  Fifo!Answer(t, i)
BY DEF Fifo!Answer, OpOf, TypeOK

(* A thread that leaves a wait set is still in the same call.              *)
LEMMA AwakeKeepsOp == \A p \in PCs : OpOf(Awake(p)) = OpOf(p)
BY DEF PCs, OpOf, Awake

(* Every step of the monitor is a step of the FIFO or invisible: the       *)
(* sleeping, waking and timing out are invisible, PushItem is Put, PopItem *)
(* is Take, ShutdownSet is Close.                                          *)
LEMMA FifoStep == TypeOK /\ TypeOK' /\ [Next]_vars => [Fifo!Next]_(Fifo!vars)
<1> SUFFICES ASSUME TypeOK, TypeOK', [Next]_vars PROVE [Fifo!Next]_(Fifo!vars)
  OBVIOUS
<1>1. CASE UNCHANGED vars
  BY <1>1, FifoStutter DEF vars
<1>2. ASSUME NEW t \in Thread, CallPush(t) PROVE Fifo!Call(t)
  BY <1>2 DEF CallPush, Fifo!Call, OpOf, TypeOK
<1>3. ASSUME NEW t \in Thread, CallOther(t) PROVE Fifo!Call(t)
  <2>1. PICK c \in {"pop", "tryPop", "shutdown"} : pc' = [pc EXCEPT ![t] = c]
    BY <1>3 DEF CallOther
  <2>2. OpOf(c) = c
    BY DEF OpOf
  <2>3. [u \in Thread |-> OpOf(pc[u])]' = [[u \in Thread |-> OpOf(pc[u])] EXCEPT ![t] = c]
    BY <2>1, <2>2 DEF TypeOK
  <2> QED
    BY <1>3, <2>3 DEF CallOther, Fifo!Call, OpOf
<1>4. ASSUME NEW t \in Thread, PushWait(t) \/ PopWait(t) \/ TryPopTimeout(t)
      PROVE  UNCHANGED Fifo!vars
  BY <1>4, FifoStutter DEF PushWait, PopWait, TryPopTimeout, OpOf, TypeOK
<1>5. ASSUME NEW t \in Thread, PushDiscard(t) PROVE Fifo!Discard(t)
  <2>1. Fifo!Answer(t, NoItem)
    BY <1>5, FifoAnswer DEF PushDiscard, Return, TypeOK
  <2> QED
    BY <1>5, <2>1 DEF PushDiscard, Fifo!Discard, OpOf
<1>6. ASSUME NEW t \in Thread, PushItem(t) PROVE Fifo!Put(t)
  <2>1. pc'[t] = "idle" /\ \A u \in Thread \ {t} : pc'[u] = pc[u] \/ pc'[u] = Awake(pc[u])
    BY <1>6, ReturnAndNotifyOneType DEF PushItem, NotEmptyWaiters
  <2>2. Fifo!Answer(t, NoItem)
    BY <1>6, <2>1, AwakeKeepsOp, FifoAnswer DEF PushItem, TypeOK
  <2> QED
    BY <1>6, <2>2 DEF PushItem, Fifo!Put, OpOf
<1>7. ASSUME NEW t \in Thread, PopItem(t) PROVE Fifo!Take(t)
  <2>1. pc'[t] = "idle" /\ \A u \in Thread \ {t} : pc'[u] = pc[u] \/ pc'[u] = Awake(pc[u])
    BY <1>7, ReturnAndNotifyOneType DEF PopItem, Takers, NotFullWaiters
  <2>2. Fifo!Answer(t, Head(queue_))
    BY <1>7, <2>1, AwakeKeepsOp, FifoAnswer DEF PopItem, TypeOK
  <2> QED
    BY <1>7, <2>2 DEF PopItem, Takers, Fifo!Take, OpOf
<1>8. ASSUME NEW t \in Thread, PopFalse(t) PROVE Fifo!Fail(t)
  <2>1. slot[t] = NoItem /\ slot' = [slot EXCEPT ![t] = NoItem]
    BY <1>8 DEF PopFalse, Takers, TypeOK
  <2>2. Fifo!Answer(t, NoItem)
    BY <1>8, <2>1, FifoAnswer DEF PopFalse, Return, TypeOK
  <2> QED
    BY <1>8, <2>2 DEF PopFalse, Takers, Fifo!Fail, OpOf
<1>9. ASSUME NEW t \in Thread, ShutdownSet(t) PROVE Fifo!Close(t)
  BY <1>9 DEF ShutdownSet, Fifo!Close, OpOf, TypeOK
<1>10. ASSUME NEW t \in Thread, ShutdownNotifyEmpty(t) PROVE UNCHANGED Fifo!vars
  <2>1. \A u \in Thread : OpOf(pc'[u]) = OpOf(pc[u])
    BY <1>10, AwakeKeepsOp DEF ShutdownNotifyEmpty, NotifyAll, OpOf, TypeOK
  <2> QED
    BY <1>10, <2>1, FifoStutter DEF ShutdownNotifyEmpty
<1>11. ASSUME NEW t \in Thread, ShutdownNotifyFull(t) PROVE Fifo!Closed(t)
  <2>1. shutdown_ /\ slot' = [slot EXCEPT ![t] = NoItem]
    BY <1>11 DEF ShutdownNotifyFull, TypeOK
  <2>2. pc'[t] = "idle" /\ \A u \in Thread \ {t} : OpOf(pc'[u]) = OpOf(pc[u])
    BY <1>11, AwakeKeepsOp DEF ShutdownNotifyFull, NotifyAll, TypeOK
  <2>3. Fifo!Answer(t, NoItem)
    BY <2>1, <2>2, FifoAnswer
  <2> QED
    BY <1>11, <2>1, <2>3 DEF ShutdownNotifyFull, Fifo!Closed, OpOf
<1>12. ASSUME NEW t \in Thread, SpuriousWakeup(t) PROVE UNCHANGED Fifo!vars
  <2>1. \A u \in Thread : OpOf(pc'[u]) = OpOf(pc[u])
    BY <1>12, AwakeKeepsOp DEF SpuriousWakeup, TypeOK
  <2> QED
    BY <1>12, <2>1, FifoStutter DEF SpuriousWakeup
<1> QED
  BY <1>1, <1>2, <1>3, <1>4, <1>5, <1>6, <1>7, <1>8, <1>9, <1>10, <1>11, <1>12
     DEF Next, Step, Fifo!Next

(* push, pop, tryPop and shutdown behave as those of a bounded FIFO whose  *)
(* calls take effect in a single step.                                     *)
THEOREM MonitorImplementsFifo == Spec => ImplementsFifo
BY FifoInit, FifoStep, TypeCorrect, PTL DEF Spec, Fifo!Spec, ImplementsFifo

=============================================================================
