------------------------------ MODULE EventLoop ------------------------------
(***************************************************************************)
(* The event loops of KDFoundation and the threads that use them: posting, *)
(* waking, delivering, quitting, deferred slots, deleteLater, destruction  *)
(* of event receivers and of the loops themselves.                         *)
(*                                                                         *)
(* A loop is named by the thread that owns it (s_eventLoopInstance is      *)
(* thread_local); Main's loop is the one inside CoreApplication.  A step   *)
(* is what a thread does between two points where another thread can be    *)
(* seen: one locked operation of a queue, one eventfd write, one           *)
(* epoll_wait.  The platform loop is the Linux one: an edge-triggered      *)
(* eventfd that is never read, so a write is remembered until the next     *)
(* epoll_wait that reports it.  Loops are not nested: no handler or slot   *)
(* calls exec or processEvents of its own thread's loop.                   *)
(***************************************************************************)
EXTENDS EventQueue

CONSTANTS
    Threads,          \* the program's threads
    Loops,            \* the threads that own an EventLoop
    Main,             \* the thread of CoreApplication
    Receivers,        \* EventReceiver objects
    App,              \* the CoreApplication, a receiver itself
    PostHome,         \* the loop to which events for a receiver are posted
    DestroyHome,      \* the thread that destroys a receiver
    FilterAccepts,    \* event types that an installed event filter accepts
    FiltersSpareTarget,\* TRUE: no filter destroys the target it is shown
    JoinBeforeClose,  \* TRUE: a loop is destroyed only when nobody is using it
    MaxQueue,         \* bound: events pending in one queue
    MaxDeferred,      \* bound: slot invocations pending on one evaluator
    None

Types == {"User", "DeferredDelete", "Quit"}

Objects == Receivers \ {App}

\* CoreApplication refuses deleteLater, and only it is sent QuitEvents.
Events ==
    [target : Objects, type : {"User", "DeferredDelete"}]
      \cup {[target |-> App, type |-> "Quit"]}

ASSUME ThreadsAssumption ==
    /\ Main \in Loops
    /\ Loops \subseteq Threads
    /\ None \notin Threads \cup Receivers \cup Events

ASSUME ReceiversAssumption ==
    /\ App \in Receivers
    /\ PostHome \in [Objects -> Loops]
    /\ DestroyHome \in [Objects -> Threads]
    /\ FilterAccepts \subseteq Types
    /\ {FiltersSpareTarget, JoinBeforeClose} \subseteq BOOLEAN

ASSUME BoundsAssumption == MaxQueue \in Nat /\ MaxDeferred \in Nat

VARIABLES
    queue,          \* m_eventQueue of each loop
    quitRequested,  \* m_quitRequested
    kicked,         \* the eventfd has an edge epoll_wait has not reported
    deferred,       \* slot invocations queued on the loop's evaluator
    pc,             \* where the loop's thread is
    mode,           \* which call runs the loop: exec, processEvents, ~CoreApplication
    remaining,      \* eventCount - eventIndex of processEvents
    current,        \* the event taken from the queue and not yet disposed of
    toWake,         \* the loop whose wakeUp the thread still has to call
    stage,          \* how far the thread is in a receiver's destructor
    victim,         \* the receiver that destructor belongs to
    alive           \* receivers whose destructor has not finished

vars == <<queue, quitRequested, kicked, deferred, pc, mode, remaining,
          current, toWake, stage, victim, alive>>

Phases == {"idle", "looptest", "leaving", "snapshot", "deliver", "popped",
           "handling", "waiting", "dispatching", "evaluating", "gone"}

Modes == {"exec", "once", "final"}

Stages == {"none", "destroyed", "purgeMain"}

TypeOK ==
    /\ queue \in [Loops -> Seq(Events)]
    /\ quitRequested \in [Loops -> BOOLEAN]
    /\ kicked \in [Loops -> BOOLEAN]
    /\ deferred \in [Loops -> Nat]
    /\ pc \in [Loops -> Phases]
    /\ mode \in [Loops -> Modes]
    /\ remaining \in [Loops -> Nat]
    /\ current \in [Loops -> Events \cup {None}]
    /\ toWake \in [Threads -> Loops \cup {None}]
    /\ stage \in [Threads -> Stages]
    /\ victim \in [Threads -> Objects \cup {None}]
    /\ alive \in SUBSET Receivers

Init ==
    /\ queue = [l \in Loops |-> <<>>]
    /\ quitRequested = [l \in Loops |-> FALSE]
    /\ kicked = [l \in Loops |-> FALSE]
    /\ deferred = [l \in Loops |-> 0]
    /\ pc = [l \in Loops |-> "idle"]
    /\ mode = [l \in Loops |-> "exec"]
    /\ remaining = [l \in Loops |-> 0]
    /\ current = [l \in Loops |-> None]
    /\ toWake = [t \in Threads |-> None]
    /\ stage = [t \in Threads |-> "none"]
    /\ victim = [t \in Threads |-> None]
    /\ alive = Receivers
-----------------------------------------------------------------------------
(***************************************************************************)
(* Program code: what a thread may do outside the library's own code.  A   *)
(* loop's thread runs program code outside exec, in the filters that are   *)
(* shown an event and in its handler, in the slot of a notifier or timer,  *)
(* in a deferred slot and in a slot of Object::destroyed.                  *)
(***************************************************************************)
LoopOpen(l) == pc[l] # "gone"

\* A program that joins its threads before it destroys a loop leaves the last
\* round, of ~CoreApplication, to the thread that owns the loop.
MayUseLoop(t, l) ==
    /\ LoopOpen(l)
    /\ JoinBeforeClose /\ mode[l] = "final" => t = l

Returned(t) == toWake[t] = None /\ stage[t] = "none"

InUserCode(t) ==
    /\ toWake[t] = None
    /\ stage[t] \in {"none", "destroyed"}
    /\ t \in Loops =>
         \/ pc[t] \in {"idle", "gone", "popped", "handling", "dispatching"}
         \/ pc[t] = "evaluating" /\ deferred[t] > 0

\* A program may name a receiver until its destructor returns; during the
\* destructor only the destroying thread, in a slot of "destroyed", does.
MayUse(t, r) ==
    /\ r \in alive \ {App}
    /\ \A u \in Threads \ {t} : victim[u] # r

\* Mutant: the loop is not woken after the push.
EnqueueMutant(t, l, e) ==
    /\ MayUseLoop(t, l)
    /\ Len(queue[l]) < MaxQueue
    /\ queue' = [queue EXCEPT ![l] = Push(@, e)]
    /\ UNCHANGED <<quitRequested, kicked, deferred, pc, mode, remaining,
                   current, toWake, stage, victim, alive>>

\* EventLoop::postEvent up to the unlock of the queue; WakeUp is the rest.
Enqueue(t, l, e) ==
    /\ MayUseLoop(t, l)
    /\ Len(queue[l]) < MaxQueue
    /\ queue' = [queue EXCEPT ![l] = Push(@, e)]
    /\ toWake' = [toWake EXCEPT ![t] = l]
    /\ UNCHANGED <<quitRequested, kicked, deferred, pc, mode, remaining,
                   current, stage, victim, alive>>

PostEvent(t, r) ==
    /\ InUserCode(t)
    /\ MayUse(t, r)
    /\ Enqueue(t, PostHome[r], [target |-> r, type |-> "User"])

\* Without a loop on the calling thread, and for App, only an error is logged.
DeleteLater(t, r) ==
    /\ InUserCode(t)
    /\ MayUse(t, r)
    /\ t \in Loops
    /\ DestroyHome[r] = t
    /\ Enqueue(t, t, [target |-> r, type |-> "DeferredDelete"])

\* CoreApplication::quit
AppQuit(t) ==
    /\ InUserCode(t)
    /\ Enqueue(t, Main, [target |-> App, type |-> "Quit"])

\* EventLoop::quit
Quit(t, l) ==
    /\ quitRequested' = [quitRequested EXCEPT ![l] = TRUE]
    /\ toWake' = [toWake EXCEPT ![t] = l]

LoopQuit(t, l) ==
    /\ InUserCode(t)
    /\ MayUseLoop(t, l)
    /\ Quit(t, l)
    /\ UNCHANGED <<queue, kicked, deferred, pc, mode, remaining, current,
                   stage, victim, alive>>

\* Mutant: onInvocationAdded does not wake the loop.
DeferMutant(t, l) ==
    /\ InUserCode(t)
    /\ MayUseLoop(t, l)
    /\ pc[l] # "evaluating"
    /\ deferred[l] < MaxDeferred
    /\ deferred' = [deferred EXCEPT ![l] = @ + 1]
    /\ UNCHANGED <<queue, quitRequested, kicked, pc, mode, remaining, current,
                   toWake, stage, victim, alive>>

\* A signal connected through the loop's connection evaluator is emitted: the
\* invocation is queued under the evaluator's mutex, which evaluation holds (so
\* nobody queues meanwhile, a deferred slot not at all), and onInvocationAdded
\* then wakes the loop.
Defer(t, l) ==
    /\ InUserCode(t)
    /\ MayUseLoop(t, l)
    /\ pc[l] # "evaluating"
    /\ deferred[l] < MaxDeferred
    /\ deferred' = [deferred EXCEPT ![l] = @ + 1]
    /\ toWake' = [toWake EXCEPT ![t] = l]
    /\ UNCHANGED <<queue, quitRequested, kicked, pc, mode, remaining, current,
                   stage, victim, alive>>

\* LinuxPlatformEventLoop::wakeUp, the end of a post, a quit and a deferral
WakeUp(t) ==
    /\ toWake[t] # None
    /\ kicked' = [kicked EXCEPT ![toWake[t]] = TRUE]
    /\ toWake' = [toWake EXCEPT ![t] = None]
    /\ UNCHANGED <<queue, quitRequested, deferred, pc, mode, remaining,
                   current, stage, victim, alive>>
-----------------------------------------------------------------------------
(***************************************************************************)
(* Destruction of a receiver: ~Object emits "destroyed" (whose slots are   *)
(* program code), then ~EventReceiver purges the queue of this thread's    *)
(* loop and then, if it is another one, the queue of the application.      *)
(***************************************************************************)
BeginDestroy(t, r) ==
    /\ stage' = [stage EXCEPT ![t] = "destroyed"]
    /\ victim' = [victim EXCEPT ![t] = r]

Destroy(t, r) ==
    /\ InUserCode(t)
    /\ stage[t] = "none"
    /\ MayUse(t, r)
    /\ DestroyHome[r] = t
    /\ FiltersSpareTarget /\ t \in Loops =>
         ~(pc[t] = "popped" /\ current[t].target = r)
    /\ BeginDestroy(t, r)
    /\ UNCHANGED <<queue, quitRequested, kicked, deferred, pc, mode,
                   remaining, current, toWake, alive>>

Purged(l, r) == [queue EXCEPT ![l] = RemoveAllEventsTargeting(@, r)]

PurgeOwn(t) ==
    /\ stage[t] = "destroyed"
    /\ toWake[t] = None
    /\ queue' = IF t \in Loops THEN Purged(t, victim[t]) ELSE queue
    /\ IF t = Main \/ ~LoopOpen(Main)
       THEN /\ stage' = [stage EXCEPT ![t] = "none"]
            /\ victim' = [victim EXCEPT ![t] = None]
            /\ alive' = alive \ {victim[t]}
       ELSE /\ stage' = [stage EXCEPT ![t] = "purgeMain"]
            /\ UNCHANGED <<victim, alive>>
    /\ UNCHANGED <<quitRequested, kicked, deferred, pc, mode, remaining,
                   current, toWake>>

\* Mutant: the application's queue is left alone ("FIXME" for every other).
PurgeMainMutant(t) ==
    /\ stage[t] = "purgeMain"
    /\ stage' = [stage EXCEPT ![t] = "none"]
    /\ victim' = [victim EXCEPT ![t] = None]
    /\ alive' = alive \ {victim[t]}
    /\ UNCHANGED <<queue, quitRequested, kicked, deferred, pc, mode, remaining,
                   current, toWake>>

PurgeMain(t) ==
    /\ stage[t] = "purgeMain"
    /\ queue' = Purged(Main, victim[t])
    /\ stage' = [stage EXCEPT ![t] = "none"]
    /\ victim' = [victim EXCEPT ![t] = None]
    /\ alive' = alive \ {victim[t]}
    /\ UNCHANGED <<quitRequested, kicked, deferred, pc, mode, remaining,
                   current, toWake>>
-----------------------------------------------------------------------------
(***************************************************************************)
(* The loop.  Entering it, by exec, by processEvents with a timeout and by *)
(* the processEvents(0) of ~CoreApplication.                               *)
(***************************************************************************)
Goto(l, phase) == pc' = [pc EXCEPT ![l] = phase]

Enter(l, m, phase) ==
    /\ pc[l] = "idle"
    /\ Returned(l)
    /\ mode' = [mode EXCEPT ![l] = m]
    /\ Goto(l, phase)
    /\ UNCHANGED <<queue, quitRequested, kicked, deferred, remaining, current,
                   toWake, stage, victim, alive>>

Exec(l) == Enter(l, "exec", "looptest")

ProcessEvents(l) == Enter(l, "once", "snapshot")

CloseApp(l) == l = Main /\ Enter(l, "final", "snapshot")

\* while (!m_quitRequested)
LoopTest(l) ==
    /\ pc[l] = "looptest"
    /\ Goto(l, IF quitRequested[l] THEN "leaving" ELSE "snapshot")
    /\ UNCHANGED <<queue, quitRequested, kicked, deferred, mode, remaining,
                   current, toWake, stage, victim, alive>>

ExecReturn(l) ==
    /\ pc[l] = "leaving"
    /\ quitRequested' = [quitRequested EXCEPT ![l] = FALSE]
    /\ Goto(l, "idle")
    /\ UNCHANGED <<queue, kicked, deferred, mode, remaining, current, toWake,
                   stage, victim, alive>>

\* eventCount = m_eventQueue.size()
Snapshot(l) ==
    /\ pc[l] = "snapshot"
    /\ remaining' = [remaining EXCEPT ![l] = Len(queue[l])]
    /\ Goto(l, "deliver")
    /\ UNCHANGED <<queue, quitRequested, kicked, deferred, mode, current,
                   toWake, stage, victim, alive>>

\* Mutant: the round goes on until the queue is empty.
TakeEventMutant(l) ==
    /\ pc[l] = "deliver"
    /\ queue[l] # <<>>
    /\ remaining[l] > 0
    /\ current' = [current EXCEPT ![l] = Front(queue[l])]
    /\ queue' = [queue EXCEPT ![l] = PopFront(@)]
    /\ Goto(l, "popped")
    /\ UNCHANGED <<quitRequested, kicked, deferred, mode, remaining, toWake,
                   stage, victim, alive>>

\* Mutant: one event more than there were at the start of the round.
TakeEventOffByOne(l) ==
    /\ pc[l] = "deliver"
    /\ queue[l] # <<>>
    /\ current' = [current EXCEPT ![l] = Front(queue[l])]
    /\ queue' = [queue EXCEPT ![l] = PopFront(@)]
    /\ remaining' = [remaining EXCEPT ![l] = @ - 1]
    /\ Goto(l, "popped")
    /\ UNCHANGED <<quitRequested, kicked, deferred, mode, toWake, stage,
                   victim, alive>>

\* tryPop
TakeEvent(l) ==
    /\ pc[l] = "deliver"
    /\ remaining[l] > 0
    /\ queue[l] # <<>>
    /\ current' = [current EXCEPT ![l] = Front(queue[l])]
    /\ queue' = [queue EXCEPT ![l] = PopFront(@)]
    /\ remaining' = [remaining EXCEPT ![l] = @ - 1]
    /\ Goto(l, "popped")
    /\ UNCHANGED <<quitRequested, kicked, deferred, mode, toWake, stage,
                   victim, alive>>

\* Mutant: the eventfd is drained before the loop goes to wait.
EndOfRoundMutant(l) ==
    /\ pc[l] = "deliver"
    /\ remaining[l] = 0 \/ queue[l] = <<>>
    /\ remaining' = [remaining EXCEPT ![l] = 0]
    /\ kicked' = [kicked EXCEPT ![l] = FALSE]
    /\ Goto(l, "waiting")
    /\ UNCHANGED <<queue, quitRequested, deferred, mode, current, toWake, stage,
                   victim, alive>>

\* The round is over, or tryPop found that the rest of it was purged.
EndOfRound(l) ==
    /\ pc[l] = "deliver"
    /\ remaining[l] = 0 \/ queue[l] = <<>>
    /\ remaining' = [remaining EXCEPT ![l] = 0]
    /\ Goto(l, "waiting")
    /\ UNCHANGED <<queue, quitRequested, kicked, deferred, mode, current,
                   toWake, stage, victim, alive>>

(***************************************************************************)
(* Postman::deliverEvent.  The filters are shown the event first.  One of  *)
(* them accepts it, and that is the end of it, or all pass it on, and      *)
(* Object::event or CoreApplication::event runs.                           *)
(***************************************************************************)
FiltersAccept(l) ==
    /\ pc[l] = "popped"
    /\ Returned(l)
    /\ current[l].type \in FilterAccepts
    /\ current' = [current EXCEPT ![l] = None]
    /\ Goto(l, "deliver")
    /\ UNCHANGED <<queue, quitRequested, kicked, deferred, mode, remaining,
                   toWake, stage, victim, alive>>

HandleUser(l) ==
    /\ current[l].type = "User"
    /\ UNCHANGED <<quitRequested, toWake, stage, victim>>

HandleQuit(l) ==
    /\ current[l].type = "Quit"
    /\ Quit(l, Main)
    /\ UNCHANGED <<stage, victim>>

\* Mutant: Object::event does not delete the object.
HandleDeferredDeleteMutant(l) ==
    /\ current[l].type = "DeferredDelete"
    /\ UNCHANGED <<quitRequested, toWake, stage, victim>>

\* delete this
HandleDeferredDelete(l) ==
    /\ current[l].type = "DeferredDelete"
    /\ BeginDestroy(l, current[l].target)
    /\ UNCHANGED <<quitRequested, toWake>>

DeliverEvent(l) ==
    /\ pc[l] = "popped"
    /\ Returned(l)
    /\ \/ HandleUser(l)
       \/ HandleQuit(l)
       \/ HandleDeferredDelete(l)
    /\ Goto(l, "handling")
    /\ UNCHANGED <<queue, kicked, deferred, mode, remaining, current, alive>>

HandlerReturn(l) ==
    /\ pc[l] = "handling"
    /\ Returned(l)
    /\ current' = [current EXCEPT ![l] = None]
    /\ Goto(l, "deliver")
    /\ UNCHANGED <<queue, quitRequested, kicked, deferred, mode, remaining,
                   toWake, stage, victim, alive>>
-----------------------------------------------------------------------------
(***************************************************************************)
(* waitForEvents: epoll_wait, the notifiers of the descriptors it reports, *)
(* then the deferred slots.                                                *)
(***************************************************************************)
StopWaiting(l, edge) ==
    /\ pc[l] = "waiting"
    /\ kicked' = [kicked EXCEPT ![l] = edge]
    /\ Goto(l, "dispatching")
    /\ UNCHANGED <<queue, quitRequested, deferred, mode, remaining, current,
                   toWake, stage, victim, alive>>

\* epoll_wait reports the eventfd, and its edge with it.
WakeByKick(l) == kicked[l] /\ StopWaiting(l, FALSE)

\* It reports other descriptors only (a full batch of 16 can leave the
\* eventfd for the next call), or a signal interrupts it.
WakeByOther(l) == StopWaiting(l, kicked[l])

\* Only exec waits without a timeout.
WakeByTimeout(l) == mode[l] # "exec" /\ ~kicked[l] /\ StopWaiting(l, FALSE)

NotifiersReturn(l) ==
    /\ pc[l] = "dispatching"
    /\ Returned(l)
    /\ Goto(l, "evaluating")
    /\ UNCHANGED <<queue, quitRequested, kicked, deferred, mode, remaining,
                   current, toWake, stage, victim, alive>>

\* The application or the loop is destroyed, and with it what its queue holds.
Close(l) ==
    /\ JoinBeforeClose =>
         \A t \in Threads : toWake[t] # l /\ (l = Main => stage[t] # "purgeMain")
    /\ Goto(l, "gone")
    /\ queue' = [queue EXCEPT ![l] = <<>>]
    /\ alive' = IF l = Main THEN alive \ {App} ELSE alive

\* evaluateDeferredConnections returns, and with it processEvents.
EvaluationReturns(l) ==
    /\ pc[l] = "evaluating"
    /\ Returned(l)
    /\ deferred' = [deferred EXCEPT ![l] = 0]
    /\ \/ mode[l] = "exec" /\ Goto(l, "looptest") /\ UNCHANGED <<queue, alive>>
       \/ mode[l] = "once" /\ Goto(l, "idle") /\ UNCHANGED <<queue, alive>>
       \/ mode[l] = "final" /\ Close(l)
    /\ mode' = [mode EXCEPT ![l] = "exec"]
    /\ UNCHANGED <<quitRequested, kicked, remaining, current, toWake, stage,
                   victim>>

\* ~EventLoop of a worker thread's loop
CloseLoop(l) ==
    /\ l # Main
    /\ pc[l] = "idle"
    /\ Returned(l)
    /\ Close(l)
    /\ UNCHANGED <<quitRequested, kicked, deferred, mode, remaining, current,
                   toWake, stage, victim>>
-----------------------------------------------------------------------------
UserStep(t) ==
    \/ \E r \in Objects : PostEvent(t, r) \/ DeleteLater(t, r) \/ Destroy(t, r)
    \/ \E l \in Loops : LoopQuit(t, l) \/ Defer(t, l)
    \/ AppQuit(t)

EnterOrLeave(l) == Exec(l) \/ ProcessEvents(l) \/ CloseApp(l) \/ CloseLoop(l)

LibraryStep(l) ==
    \/ LoopTest(l) \/ ExecReturn(l) \/ Snapshot(l)
    \/ TakeEvent(l) \/ EndOfRound(l)
    \/ WakeByKick(l) \/ WakeByTimeout(l)

UserCodeReturns(l) ==
    \/ FiltersAccept(l) \/ DeliverEvent(l) \/ HandlerReturn(l)
    \/ NotifiersReturn(l) \/ EvaluationReturns(l)

Next ==
    \/ \E t \in Threads : UserStep(t) \/ WakeUp(t) \/ PurgeOwn(t) \/ PurgeMain(t)
    \/ \E l \in Loops : \/ EnterOrLeave(l) \/ LibraryStep(l)
                        \/ WakeByOther(l) \/ UserCodeReturns(l)

Spec == Init /\ [][Next]_vars

(***************************************************************************)
(* The library's own steps are not blocked for ever by the scheduler, and  *)
(* filters, handlers and slots return.  Nothing makes the program call anything,    *)
(* and no descriptor has to become ready.                                  *)
(***************************************************************************)
Fairness ==
    /\ \A l \in Loops : WF_vars(LibraryStep(l)) /\ SF_vars(UserCodeReturns(l))
    /\ \A t \in Threads :
         WF_vars(WakeUp(t)) /\ SF_vars(PurgeOwn(t)) /\ WF_vars(PurgeMain(t))

FairSpec == Spec /\ Fairness
-----------------------------------------------------------------------------
Waking(l) == \E t \in Threads : toWake[t] = l

(***************************************************************************)
(* No lost wakeup.  A loop blocked in epoll_wait that has something to do  *)
(* (an event, a deferred slot, a request to leave exec) has an unreported  *)
(* eventfd edge, or a thread is about to call its wakeUp: postEvent and    *)
(* quit write the queue or the flag before they kick.                      *)
(***************************************************************************)
NoLostWakeup ==
    \A l \in Loops :
        /\ pc[l] = "waiting"
        /\ \/ queue[l] # <<>>
           \/ deferred[l] > 0
           \/ mode[l] = "exec" /\ quitRequested[l]
        => kicked[l] \/ Waking(l)

(***************************************************************************)
(* Every receiver is destroyed by the thread that owns the loop its events *)
(* are posted to; and the weaker condition under which ~EventReceiver at   *)
(* least reaches every queue that may name the receiver.                   *)
(***************************************************************************)
ThreadAffine == \A r \in Objects : PostHome[r] = DestroyHome[r]

PurgeReaches == \A r \in Objects : PostHome[r] \in {DestroyHome[r], Main}

(***************************************************************************)
(* A queue never names a receiver whose destructor has returned: the purge *)
(* of ~EventReceiver comes after every slot that could still post to it.   *)
(***************************************************************************)
QueuesNameTheLiving ==
    \A l \in Loops : \A i \in DOMAIN queue[l] : queue[l][i].target \in alive

(***************************************************************************)
(* An event that was taken from the queue, and that no filter accepts, is  *)
(* delivered to a receiver which still exists ("Object destruction cleans  *)
(* up event queue").                                                       *)
(***************************************************************************)
DeliverToTheLiving ==
    [][\A l \in Loops :
         pc[l] = "popped" /\ pc'[l] = "handling" => current[l].target \in alive]_vars

Left(l) == pc[l] \in {"idle", "gone"}

(***************************************************************************)
(* A quit request ends exec however busy the handlers keep the queue.      *)
(***************************************************************************)
QuitEndsExec ==
    \A l \in Loops : quitRequested[l] /\ mode[l] = "exec" ~> Left(l)

(***************************************************************************)
(* A deferred slot invocation runs, unless its loop is left first.         *)
(***************************************************************************)
DeferredSlotsRun ==
    \A l \in Loops : deferred[l] > 0 ~> deferred[l] = 0 \/ Left(l)

(***************************************************************************)
(* deleteLater destroys the object, unless the loop is left first.         *)
(***************************************************************************)
DeletionPending(l, r) ==
    \E i \in DOMAIN queue[l] :
        queue[l][i] = [target |-> r, type |-> "DeferredDelete"]

DeleteLaterDestroys ==
    \A l \in Loops, r \in Objects :
        DeletionPending(l, r) ~> r \notin alive \/ Left(l)

(***************************************************************************)
(* The mailbox a loop keeps for the program.  It runs from the first       *)
(* delivery round of an exec until that exec is asked to quit.             *)
(***************************************************************************)
Running(l) ==
    mode[l] = "exec" /\ ~quitRequested[l]
    /\ pc[l] \notin {"idle", "leaving", "gone"}

MailboxState ==
    [l \in Loops |-> IF pc[l] = "gone" THEN "closed"
                     ELSE IF Running(l) THEN "running" ELSE "stopped"]

Promise == INSTANCE Mailbox
    WITH box <- queue, state <- MailboxState, Targets <- Objects,
         Without <- RemoveAllEventsTargeting

(***************************************************************************)
(* Posted events are delivered first in, first out, none lost and none     *)
(* twice, and a running loop always gets to the next one.                  *)
(***************************************************************************)
KeepsPromise == Promise!Spec

KeepsOrder == Promise!SafeSpec
=============================================================================
