------------------------------- MODULE Mailbox -------------------------------
(***************************************************************************)
(* What posting to an event loop promises, without eventfds, snapshots or  *)
(* threads: each loop has a mailbox; events leave it in the order in which *)
(* they were posted, each once; the only others to leave are those of a    *)
(* receiver that goes away and those of a loop that is destroyed; and      *)
(* while a loop runs, the event at the head does not stay there for ever.  *)
(***************************************************************************)
EXTENDS Sequences

CONSTANTS
    Loops, Events, Targets,
    Without(_, _)   \* a sequence of events without those for a target

VARIABLES
    box,      \* the events accepted and not yet taken
    state     \* "stopped", "running" or "closed"

Post(l, e) ==
    /\ state[l] # "closed"
    /\ box' = [box EXCEPT ![l] = Append(@, e)]

Take(l) ==
    /\ state[l] # "closed"
    /\ box[l] # <<>>
    /\ box' = [box EXCEPT ![l] = Tail(@)]

TakeWhileRunning(l) == state[l] = "running" /\ Take(l)

Discard(l, r) == box' = [box EXCEPT ![l] = Without(@, r)]

StartOrStop(l) ==
    /\ state[l] # "closed"
    /\ \E s \in {"stopped", "running"} : state' = [state EXCEPT ![l] = s]
    /\ UNCHANGED box

Close(l) ==
    /\ state' = [state EXCEPT ![l] = "closed"]
    /\ box' = [box EXCEPT ![l] = <<>>]

Init ==
    /\ box = [l \in Loops |-> <<>>]
    /\ state = [l \in Loops |-> "stopped"]

Next ==
    \E l \in Loops :
        \/ StartOrStop(l)
        \/ Close(l)
        \/ /\ UNCHANGED state
           /\ \/ \E e \in Events : Post(l, e)
              \/ Take(l)
              \/ \E r \in Targets : Discard(l, r)

SafeSpec == Init /\ [][Next]_<<box, state>>

Spec == SafeSpec /\ \A l \in Loops : WF_box(TakeWhileRunning(l))
=============================================================================
