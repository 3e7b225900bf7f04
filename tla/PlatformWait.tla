---------------------------- MODULE PlatformWait ----------------------------
(***************************************************************************)
(* How the Win32 and the Android event loop sleep and are woken.  Another  *)
(* thread posts an event and then calls wakeUp; the loop processes what is *)
(* posted, then waits for a message of the system or a wake-up, and        *)
(* handles at most one message for each wait.                              *)
(***************************************************************************)
EXTENDS Naturals

CONSTANTS MaxPosted, MaxMessages   \* bounds: events and messages under way

ASSUME BoundsAreNumbers == MaxPosted \in Nat /\ MaxMessages \in Nat

VARIABLES
    system,    \* the platform, chosen when the program is built
    loop,      \* where the loop is
    posted,    \* events posted and not processed
    poster,    \* "idle", or "wake": it has posted and is to call wakeUp
    signal,    \* m_wakeUpEvent, or the looper's wake-up
    messages,  \* messages of the system
    destroy,   \* the command that ends an Android activity: sent, then handled
    quitting   \* CoreApplication::quit was called

waitVars == <<system, loop, posted, poster, signal, messages, destroy, quitting>>

WaitTypeOK ==
    /\ system \in {"win32", "android"}
    /\ loop \in {"process", "wait", "asleep", "woken", "peek", "returned"}
    /\ posted \in 0..MaxPosted /\ messages \in 0..MaxMessages
    /\ poster \in {"idle", "wake"} /\ signal \in BOOLEAN
    /\ destroy \in {"no", "sent", "requested"} /\ quitting \in BOOLEAN

WaitInit ==
    /\ system \in {"win32", "android"} /\ loop = "process"
    /\ posted = 0 /\ poster = "idle" /\ signal = FALSE
    /\ messages = 0 /\ destroy = "no" /\ quitting = FALSE
-----------------------------------------------------------------------------
(* Other threads, and the system.                                          *)
Posts ==
    /\ poster = "idle" /\ posted < MaxPosted
    /\ posted' = posted + 1 /\ poster' = "wake"
    /\ UNCHANGED <<system, loop, signal, messages, destroy, quitting>>

WakeUp ==
    /\ poster = "wake" /\ poster' = "idle" /\ signal' = TRUE
    /\ UNCHANGED <<system, loop, posted, messages, destroy, quitting>>

MessageComes ==
    /\ messages < MaxMessages /\ messages' = messages + 1
    /\ UNCHANGED <<system, loop, posted, poster, signal, destroy, quitting>>

DestroySent ==
    /\ system = "android" /\ destroy = "no" /\ destroy' = "sent"
    /\ UNCHANGED <<system, loop, posted, poster, signal, messages, quitting>>
-----------------------------------------------------------------------------
(* EventLoop::processEvents, then waitForEventsImpl of the platform.       *)
Goes(from, to) == loop = from /\ loop' = to

ProcessPosted ==
    /\ Goes("process", "wait") /\ posted' = 0
    /\ UNCHANGED <<system, poster, signal, messages, destroy, quitting>>

\* PeekMessage finds one; TranslateMessage and DispatchMessage.
Dispatches(from) == Goes(from, "process") /\ messages > 0 /\ messages' = messages - 1

\* Mutant: the wake-up event is reset before the loop waits for it.
PeekFirstMutant ==
    /\ system = "win32"
    /\ \/ Dispatches("wait") /\ UNCHANGED signal
       \/ messages = 0 /\ Goes("wait", "asleep") /\ signal' = FALSE /\ UNCHANGED messages
    /\ UNCHANGED <<system, posted, poster, destroy, quitting>>

PeekFirst ==
    /\ system = "win32"
    /\ \/ Dispatches("wait")
       \/ messages = 0 /\ Goes("wait", "asleep") /\ UNCHANGED messages
    /\ UNCHANGED <<system, posted, poster, signal, destroy, quitting>>

\* MsgWaitForMultipleObjects names the event before any message.  A time-out,
\* which finds no message, is left out: nothing here depends on it.
Wait ==
    /\ system = "win32"
    /\ \/ signal /\ Goes("asleep", "woken")
       \/ ~signal /\ messages > 0 /\ Goes("asleep", "peek")
    /\ UNCHANGED <<system, posted, poster, signal, messages, destroy, quitting>>

ResetEvent ==
    /\ Goes("woken", "process") /\ signal' = FALSE
    /\ UNCHANGED <<system, posted, poster, messages, destroy, quitting>>

PeekAgain ==
    /\ Dispatches("peek")
    /\ UNCHANGED <<system, posted, poster, signal, destroy, quitting>>

\* ALooper_pollOnce consumes the wake-up, runs the source of one message, or both.
PollOnce ==
    /\ system = "android" /\ Goes("wait", "returned")
    /\ \/ signal /\ signal' = FALSE /\ UNCHANGED <<messages, destroy>>
       \/ /\ signal' \in {signal, FALSE}
          /\ \/ messages > 0 /\ messages' = messages - 1 /\ UNCHANGED destroy
             \/ destroy = "sent" /\ destroy' = "requested" /\ UNCHANGED messages
    /\ UNCHANGED <<system, posted, poster, quitting>>

\* Mutant: quit is left to whoever handles the command.
CheckDestroyMutant ==
    /\ Goes("returned", "process")
    /\ UNCHANGED <<system, posted, poster, signal, messages, destroy, quitting>>

CheckDestroy ==
    /\ Goes("returned", "process")
    /\ quitting' = (quitting \/ destroy = "requested")
    /\ UNCHANGED <<system, posted, poster, signal, messages, destroy>>

LoopStep ==
    ProcessPosted \/ PeekFirst \/ Wait \/ ResetEvent \/ PeekAgain \/ PollOnce \/ CheckDestroy

WaitNext == Posts \/ WakeUp \/ MessageComes \/ DestroySent \/ LoopStep

\* The loop keeps running and a poster finishes its call.  The looper answers a
\* command that stays sent: without strong fairness other messages could hide it.
WaitSpec ==
    /\ WaitInit /\ [][WaitNext]_waitVars
    /\ WF_waitVars(LoopStep) /\ WF_waitVars(WakeUp)
    /\ SF_waitVars(PollOnce /\ destroy' # destroy)
-----------------------------------------------------------------------------
\* The loop neither sleeps nor falls asleep over a posted event: the wake-up for
\* it is there, or its poster is still to send it (waitForEventsImpl, wakeUp).
NoPostSleptOver ==
    posted > 0 /\ loop \in {"wait", "asleep"} => signal \/ poster = "wake"

\* Every posted event is processed, however many messages come (postEvent, wakeUp).
PostsAreProcessed == posted > 0 ~> posted = 0

\* An activity the system ends makes the application quit (destroyRequested).
DestroyQuits == destroy = "sent" ~> quitting
=============================================================================
