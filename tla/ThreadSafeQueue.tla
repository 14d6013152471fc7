-------------------------- MODULE ThreadSafeQueue --------------------------
(***************************************************************************)
(* include/thread_safe_queue.h: a bounded queue as a monitor, one mutex    *)
(* and two condition variables.  A critical section, from the acquisition  *)
(* of mutex_ to the return or to the wait that releases it, is one step.   *)
(* Everything between two critical sections of a thread is interleaved:    *)
(* the window between a notification and the notified thread's reacquiring *)
(* of the mutex, the spurious wake-ups the C++ standard allows, the        *)
(* deadline of wait_for, and the two notify_all calls that shutdown makes  *)
(* after it has released the mutex.                                        *)
(***************************************************************************)
EXTENDS Naturals, Sequences, FiniteSets

CONSTANTS
  Thread,     (* the threads that use the queue                            *)
  Item,       (* what they pass through it                                 *)
  NoItem,     (* the content of a call that carries no item                *)
  max_size_   (* the capacity given to the constructor                     *)

ASSUME QueueAssumption ==
  /\ IsFiniteSet(Thread)
  /\ NoItem \notin Item
  /\ max_size_ \in Nat

VARIABLES
  queue_,     (* the queued items, oldest first                            *)
  shutdown_,  (* the flag of the same name                                 *)
  pc,         (* where each thread is in the call it makes, see PCs        *)
  slot        (* slot[t]: the item t pushes, or the one its last pop got   *)

vars == <<queue_, shutdown_, pc, slot>>

(* "push", "pop", "tryPop", "shutdown": about to take the mutex (again)    *)
(* and evaluate the predicate.  "...Wait": in the wait set of a condition  *)
(* variable.  "tryPopLate": the deadline of wait_for has passed and the    *)
(* predicate is evaluated for the last time.  "notifyEmpty", "notifyFull": *)
(* shutdown has released the mutex and has that notify_all to do.          *)
PCs == {"idle", "push", "pushWait", "pop", "popWait",
        "tryPop", "tryPopWait", "tryPopLate",
        "shutdown", "notifyEmpty", "notifyFull"}

NotEmptyWaiters == {t \in Thread : pc[t] \in {"popWait", "tryPopWait"}}
NotFullWaiters  == {t \in Thread : pc[t] = "pushWait"}

(* The threads that will evaluate a predicate without being notified.      *)
Takers  == {t \in Thread : pc[t] \in {"pop", "tryPop", "tryPopLate"}}
Putters == {t \in Thread : pc[t] = "push"}

(* Where a thread goes when it leaves a wait set.                          *)
Awake(p) == CASE p = "pushWait"   -> "push"
              [] p = "popWait"    -> "pop"
              [] p = "tryPopWait" -> "tryPop"
              [] OTHER            -> p

Init ==
  /\ queue_    = <<>>
  /\ shutdown_ = FALSE
  /\ pc        = [t \in Thread |-> "idle"]
  /\ slot      = [t \in Thread |-> NoItem]

----------------------------------------------------------------------------
(* Calls.                                                                  *)

CallPush(t) ==
  /\ pc[t] = "idle"
  /\ pc' = [pc EXCEPT ![t] = "push"]
  /\ \E i \in Item : slot' = [slot EXCEPT ![t] = i]
  /\ UNCHANGED <<queue_, shutdown_>>

CallOther(t) ==
  /\ pc[t] = "idle"
  /\ \E c \in {"pop", "tryPop", "shutdown"} : pc' = [pc EXCEPT ![t] = c]
  /\ slot' = [slot EXCEPT ![t] = NoItem]
  /\ UNCHANGED <<queue_, shutdown_>>

----------------------------------------------------------------------------
(* The condition variables.                                                *)

(* t's call returns, and notify_one moves some thread of waiters, if there *)
(* is one, out of the wait set.                                            *)
ReturnAndNotifyOne(t, waiters) ==
  LET returned == [pc EXCEPT ![t] = "idle"]
  IN  \/ /\ waiters = {}
         /\ pc' = returned
      \/ \E w \in waiters : pc' = [returned EXCEPT ![w] = Awake(@)]

Return(t) == pc' = [pc EXCEPT ![t] = "idle"]

NotifyAll(t, next, waiters) ==
  pc' = [u \in Thread |-> IF u = t THEN next
                          ELSE IF u \in waiters THEN Awake(pc[u])
                          ELSE pc[u]]

(* The standard lets a wait end without a notification; the predicate form *)
(* of wait then evaluates the predicate again.                             *)
SpuriousWakeup(t) ==
  /\ t \in NotEmptyWaiters \cup NotFullWaiters
  /\ pc' = [pc EXCEPT ![t] = Awake(@)]
  /\ UNCHANGED <<queue_, shutdown_, slot>>

----------------------------------------------------------------------------
(* push                                                                    *)

PushWait(t) ==
  /\ pc[t] = "push"
  /\ ~(Len(queue_) < max_size_ \/ shutdown_)
  /\ pc' = [pc EXCEPT ![t] = "pushWait"]
  /\ UNCHANGED <<queue_, shutdown_, slot>>

PushDiscard(t) ==
  /\ pc[t] = "push"
  /\ shutdown_
  /\ Return(t)
  /\ slot' = [slot EXCEPT ![t] = NoItem]
  /\ UNCHANGED <<queue_, shutdown_>>

(* Wrong: notifies not_full_ instead of not_empty_.                        *)
PushItemNotifiesProducer(t) ==
  /\ pc[t] = "push"
  /\ ~shutdown_
  /\ Len(queue_) < max_size_
  /\ queue_' = Append(queue_, slot[t])
  /\ ReturnAndNotifyOne(t, NotFullWaiters)
  /\ slot' = [slot EXCEPT ![t] = NoItem]
  /\ UNCHANGED shutdown_

PushItem(t) ==
  /\ pc[t] = "push"
  /\ ~shutdown_
  /\ Len(queue_) < max_size_
  /\ queue_' = Append(queue_, slot[t])
  /\ ReturnAndNotifyOne(t, NotEmptyWaiters)
  /\ slot' = [slot EXCEPT ![t] = NoItem]
  /\ UNCHANGED shutdown_

----------------------------------------------------------------------------
(* pop and tryPop                                                          *)

PopWait(t) ==
  /\ pc[t] \in {"pop", "tryPop"}
  /\ queue_ = <<>>
  /\ ~shutdown_
  /\ pc' = [pc EXCEPT ![t] = IF @ = "pop" THEN "popWait" ELSE "tryPopWait"]
  /\ UNCHANGED <<queue_, shutdown_, slot>>

(* wait_for's deadline is absolute, so it can pass while the thread waits  *)
(* or while it is on its way back to the mutex.                            *)
TryPopTimeout(t) ==
  /\ pc[t] \in {"tryPop", "tryPopWait"}
  /\ pc' = [pc EXCEPT ![t] = "tryPopLate"]
  /\ UNCHANGED <<queue_, shutdown_, slot>>

(* Wrong: notifies a producer only if the queue was full before.           *)
PopItemNotifiesIfFull(t) ==
  /\ t \in Takers
  /\ queue_ # <<>>
  /\ queue_' = Tail(queue_)
  /\ slot' = [slot EXCEPT ![t] = Head(queue_)]
  /\ ReturnAndNotifyOne(t, IF Len(queue_) = max_size_ THEN NotFullWaiters ELSE {})
  /\ UNCHANGED shutdown_

PopItem(t) ==
  /\ t \in Takers
  /\ queue_ # <<>>
  /\ queue_' = Tail(queue_)
  /\ slot' = [slot EXCEPT ![t] = Head(queue_)]
  /\ ReturnAndNotifyOne(t, NotFullWaiters)
  /\ UNCHANGED shutdown_

(* Wrong: gives up as soon as the queue is shut down, queued items or not. *)
PopFalseEarly(t) ==
  /\ t \in Takers
  /\ shutdown_ \/ (queue_ = <<>> /\ pc[t] = "tryPopLate")
  /\ Return(t)
  /\ UNCHANGED <<queue_, shutdown_, slot>>

(* Wrong: waits on after the deadline, as pop would.                       *)
PopFalseNeverLate(t) ==
  /\ t \in Takers
  /\ queue_ = <<>>
  /\ shutdown_
  /\ Return(t)
  /\ UNCHANGED <<queue_, shutdown_, slot>>

(* The predicate holds because of shutdown_, or the deadline has passed.   *)
PopFalse(t) ==
  /\ t \in Takers
  /\ queue_ = <<>>
  /\ shutdown_ \/ pc[t] = "tryPopLate"
  /\ Return(t)
  /\ UNCHANGED <<queue_, shutdown_, slot>>

----------------------------------------------------------------------------
(* shutdown                                                                *)

(* Wrong: notifies first and leaves the flag for later.                    *)
ShutdownSetLate(t) ==
  /\ pc[t] = "shutdown"
  /\ pc' = [pc EXCEPT ![t] = "notifyEmpty"]
  /\ UNCHANGED <<queue_, shutdown_, slot>>

ShutdownSet(t) ==
  /\ pc[t] = "shutdown"
  /\ shutdown_' = TRUE
  /\ pc' = [pc EXCEPT ![t] = "notifyEmpty"]
  /\ UNCHANGED <<queue_, slot>>

(* Wrong: notify_one instead of notify_all.                                *)
ShutdownNotifyOneEmpty(t) ==
  /\ pc[t] = "notifyEmpty"
  /\ \/ NotEmptyWaiters = {} /\ NotifyAll(t, "notifyFull", {})
     \/ \E w \in NotEmptyWaiters : NotifyAll(t, "notifyFull", {w})
  /\ UNCHANGED <<queue_, shutdown_, slot>>

ShutdownNotifyEmpty(t) ==
  /\ pc[t] = "notifyEmpty"
  /\ NotifyAll(t, "notifyFull", NotEmptyWaiters)
  /\ UNCHANGED <<queue_, shutdown_, slot>>

(* Wrong: forgets the producers.                                           *)
ShutdownNotifyNobody(t) ==
  /\ pc[t] = "notifyFull"
  /\ Return(t)
  /\ UNCHANGED <<queue_, shutdown_, slot>>

ShutdownNotifyFull(t) ==
  /\ pc[t] = "notifyFull"
  /\ NotifyAll(t, "idle", NotFullWaiters)
  /\ UNCHANGED <<queue_, shutdown_, slot>>

----------------------------------------------------------------------------
(* What a thread does by itself once it is scheduled and gets the mutex.   *)
Step(t) ==
  \/ PushWait(t) \/ PushDiscard(t) \/ PushItem(t)
  \/ PopWait(t) \/ PopItem(t) \/ PopFalse(t)
  \/ ShutdownSet(t) \/ ShutdownNotifyEmpty(t) \/ ShutdownNotifyFull(t)

Next ==
  \E t \in Thread : \/ CallPush(t) \/ CallOther(t)
                    \/ Step(t) \/ TryPopTimeout(t) \/ SpuriousWakeup(t)

Spec == Init /\ [][Next]_vars

(* A thread that can run is scheduled and gets the mutex eventually; no    *)
(* thread is obliged to make a call, and no wake-up is spurious by         *)
(* obligation.  The deadline of wait_for is absolute: however often the    *)
(* thread is woken before it, it passes (strong fairness).                 *)
Fairness == \A t \in Thread : WF_vars(Step(t)) /\ SF_vars(TryPopTimeout(t))

FairSpec == Spec /\ Fairness

----------------------------------------------------------------------------
(* Properties.                                                             *)

(* Types, and what the program counter says of the rest: a thread in push  *)
(* carries an item, one in another call carries none yet, and shutdown     *)
(* notifies only after it has set its flag.                                *)
TypeOK ==
  /\ queue_    \in Seq(Item)
  /\ shutdown_ \in BOOLEAN
  /\ pc        \in [Thread -> PCs]
  /\ slot      \in [Thread -> Item \cup {NoItem}]
  /\ \A t \in Thread :
       /\ pc[t] \in {"push", "pushWait"} => slot[t] \in Item
       /\ pc[t] \notin {"idle", "push", "pushWait"} => slot[t] = NoItem
       /\ pc[t] \in {"notifyEmpty", "notifyFull"} => shutdown_

(* No notification of not_empty_ is lost: as long as some consumer sleeps  *)
(* on not_empty_, every queued item has an awake consumer that will come   *)
(* for it.  push notifies a single thread (notify_one), a notified thread  *)
(* can find its item taken by one that never slept, and a tryPop can time  *)
(* out at that moment; none of these may leave an item and a sleeper.      *)
NoLostNotEmpty ==
  ~shutdown_ /\ NotEmptyWaiters # {} => Len(queue_) <= Cardinality(Takers)

(* No notification of not_full_ is lost: as long as some producer sleeps   *)
(* on not_full_, every free place has an awake producer that will fill it. *)
(* It also bounds the queue by max_size_ whenever a producer sleeps.       *)
NoLostNotFull ==
  ~shutdown_ /\ NotFullWaiters # {}
    => max_size_ <= Len(queue_) + Cardinality(Putters)

(* The queue never holds more than max_size_ items, however many producers *)
(* were woken for the same free place.                                     *)
WithinCapacity == Len(queue_) <= max_size_

(* shutdown sets its flag under the mutex but notifies after releasing it. *)
(* A thread that sleeps although the flag is set is still owed a           *)
(* notify_all by some caller of shutdown.                                  *)
SleeperIsOwedNotify ==
  shutdown_ =>
    /\ NotEmptyWaiters # {} => \E c \in Thread : pc[c] = "notifyEmpty"
    /\ NotFullWaiters # {} =>
         \E c \in Thread : pc[c] \in {"notifyEmpty", "notifyFull"}

(* Once the queue is shut down every call in progress returns: no thread   *)
(* stays blocked in push, pop or tryPop, which FastPath::stop,             *)
(* LoadBalancer::stop and DPIEngine::stop rely on when they join.          *)
ShutdownReleases == \A t \in Thread : shutdown_ ~> pc[t] = "idle"

(* tryPop returns even if nothing is ever pushed and nobody shuts the      *)
(* queue down, which the loops of the workers rely on to see running_.     *)
TryPopReturns == \A t \in Thread : pc[t] = "tryPop" ~> pc[t] = "idle"

(* The call a thread is in, whatever part of it is left to do.             *)
OpOf(p) == CASE p \in {"push", "pushWait"}                        -> "push"
             [] p \in {"pop", "popWait"}                          -> "pop"
             [] p \in {"tryPop", "tryPopWait", "tryPopLate"}      -> "tryPop"
             [] p \in {"shutdown", "notifyEmpty", "notifyFull"}   -> "shutdown"
             [] OTHER                                             -> "idle"

Fifo == INSTANCE BoundedFifo WITH items  <- queue_,
                                  closed <- shutdown_,
                                  op     <- [t \in Thread |-> OpOf(pc[t])]

(* The monitor implements the blocking bounded FIFO: every call takes      *)
(* effect in one step between its start and its return, items leave in the *)
(* order they entered, a pop is refused only when the queue is empty, and  *)
(* nothing enters a queue that is shut down.                               *)
ImplementsFifo == Fifo!Spec

============================================================================
