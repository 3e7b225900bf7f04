----------------------------- MODULE EventQueue -----------------------------
(***************************************************************************)
(* The operations of EventQueue (src/KDFoundation/event_queue.h): a deque  *)
(* of posted events behind one mutex.  Each operation holds the mutex from *)
(* its first statement to its last, so it is one step of whoever calls it  *)
(* and is written here as a function of the deque it is applied to.  A     *)
(* posted event is a record with a "target".                               *)
(***************************************************************************)
EXTENDS Naturals, Sequences, FiniteSets

Push(q, e) == Append(q, e)

Front(q) == Head(q)

\* Mutant: the event handed out is not the one removed.
PopFrontMutant(q) == SubSeq(q, 1, Len(q) - 1)

PopFront(q) == Tail(q)

(***************************************************************************)
(* The positions of the events that removeAllEventsTargeting keeps, and    *)
(* the position of the j-th of them.                                       *)
(***************************************************************************)
Kept(q, r) == {i \in DOMAIN q : q[i].target # r}

NthKept(q, r, j) ==
    CHOOSE i \in Kept(q, r) : Cardinality(Kept(q, r) \cap (1..i)) = j

(***************************************************************************)
(* std::remove_if moves the kept events to the front in their old order    *)
(* and erase cuts off the rest: the j-th event of the result is the j-th   *)
(* event kept.                                                             *)
(***************************************************************************)
RemoveAllEventsTargeting(q, r) ==
    [j \in 1..Cardinality(Kept(q, r)) |-> q[NthKept(q, r, j)]]
=============================================================================
