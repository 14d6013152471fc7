---------------------------- MODULE BoundedFifo ----------------------------
(***************************************************************************)
(* What a ThreadSafeQueue promises its callers: a blocking, bounded FIFO   *)
(* that can be closed.  A call is in progress from the step that makes it  *)
(* to the one step that answers it; there is no lock, no condition         *)
(* variable and no notification here.  ThreadSafeQueue is the monitor that *)
(* implements this specification.                                          *)
(***************************************************************************)
EXTENDS Naturals, Sequences

CONSTANTS
  Thread,     (* the threads that use the queue                            *)
  Item,       (* what they pass through it                                 *)
  NoItem,     (* the content of a call that carries no item                *)
  max_size_   (* the capacity                                              *)

VARIABLES
  items,      (* what is queued, oldest first                              *)
  closed,     (* has shutdown taken effect?                                *)
  op,         (* op[t]: the call thread t is in, or "idle"                 *)
  slot        (* slot[t]: the item t pushes, or the one its last pop got   *)

vars == <<items, closed, op, slot>>

Init ==
  /\ items  = <<>>
  /\ closed = FALSE
  /\ op     = [t \in Thread |-> "idle"]
  /\ slot   = [t \in Thread |-> NoItem]

Call(t) ==
  /\ op[t] = "idle"
  /\ \/ /\ op' = [op EXCEPT ![t] = "push"]
        /\ \E i \in Item : slot' = [slot EXCEPT ![t] = i]
     \/ /\ \E o \in {"pop", "tryPop", "shutdown"} : op' = [op EXCEPT ![t] = o]
        /\ slot' = [slot EXCEPT ![t] = NoItem]
  /\ UNCHANGED <<items, closed>>

(* An answered push leaves nothing in the caller's slot; an answered pop   *)
(* leaves the item, or NoItem when it returns false.                       *)
Answer(t, i) ==
  /\ op'   = [op EXCEPT ![t] = "idle"]
  /\ slot' = [slot EXCEPT ![t] = i]

Put(t) ==
  /\ op[t] = "push"
  /\ ~closed
  /\ Len(items) < max_size_
  /\ items' = Append(items, slot[t])
  /\ Answer(t, NoItem)
  /\ UNCHANGED closed

(* A push to a closed queue returns without queueing its item.             *)
Discard(t) ==
  /\ op[t] = "push"
  /\ closed
  /\ Answer(t, NoItem)
  /\ UNCHANGED <<items, closed>>

(* What was queued before the queue was closed can still be taken.         *)
Take(t) ==
  /\ op[t] \in {"pop", "tryPop"}
  /\ items # <<>>
  /\ items' = Tail(items)
  /\ Answer(t, Head(items))
  /\ UNCHANGED closed

(* Only an empty queue makes a pop return false: a closed one for pop, any *)
(* for tryPop, whose time may run out.                                     *)
Fail(t) ==
  /\ \/ op[t] = "pop" /\ closed
     \/ op[t] = "tryPop"
  /\ items = <<>>
  /\ Answer(t, NoItem)
  /\ UNCHANGED <<items, closed>>

Close(t) ==
  /\ op[t] = "shutdown"
  /\ closed' = TRUE
  /\ UNCHANGED <<items, op, slot>>

Closed(t) ==
  /\ op[t] = "shutdown"
  /\ closed
  /\ Answer(t, NoItem)
  /\ UNCHANGED <<items, closed>>

Next ==
  \E t \in Thread : \/ Call(t) \/ Put(t) \/ Discard(t) \/ Take(t)
                    \/ Fail(t) \/ Close(t) \/ Closed(t)

Spec == Init /\ [][Next]_vars

============================================================================
