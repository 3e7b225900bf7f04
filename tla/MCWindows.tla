----------------------------- MODULE MCWindows -----------------------------
(* An instance for TLC of Windows and of what lies beneath them on systems  *)
(* other than macOS (PlatformLoops: the waits, the notifiers, the timers    *)
(* and the disabled cursor); one of the six in each behaviour.              *)
EXTENDS Windows, PlatformLoops

VARIABLE subject

allVars == <<subject, s, loopVars>>

SomeBounds == {[width |-> 1, height |-> 2], [width |-> 1, height |-> 0], [width |-> 3, height |-> 1]}

\* Two notifiers of the same kind, one of another, one for another descriptor, and
\* one that is refused.
SetNotifiers ==
    {[fd |-> 3, type |-> "read", id |-> 1], [fd |-> 3, type |-> "read", id |-> 2],
     [fd |-> 3, type |-> "write", id |-> 1], [fd |-> 5, type |-> "write", id |-> 1],
     [fd |-> 4, type |-> "exception", id |-> 1]}

OfWindow(A) == subject = "window" /\ A /\ UNCHANGED <<subject, loopVars>>
OfCursor(A) == subject = "cursor" /\ A /\ UNCHANGED <<subject, s, waitVars, wlVars, nsVars, wtVars>>
OfWait(A) == subject = "wait" /\ A /\ UNCHANGED <<subject, s, cursorVars, wlVars, nsVars, wtVars>>
OfWayland(A) == subject = "wayland" /\ A /\ UNCHANGED <<subject, s, cursorVars, waitVars, nsVars, wtVars>>
OfNotifiers(A) == subject = "notifiers" /\ A /\ UNCHANGED <<subject, s, cursorVars, waitVars, wlVars, wtVars>>
OfTimers(A) == subject = "timers" /\ A /\ UNCHANGED <<subject, s, cursorVars, waitVars, wlVars, nsVars>>

WindowStep == OfWindow(Next)
CursorStep == OfCursor(CursorNext)
WaitStep == OfWait(WaitNext)
WaylandStep == OfWayland(WlNext)
NotifierStep == OfNotifiers(NsNext)
TimerStep == OfTimers(WtNext)

\* What is not the subject of a behaviour starts, and stays, in one state.
MCInit ==
    /\ subject \in {"window", "cursor", "wait", "wayland", "notifiers", "timers"}
    /\ Init /\ CursorInit /\ WaitInit /\ WlInit /\ NsInit /\ WtInit
    /\ subject # "window" => s.on = "android" /\ s.size = [width |-> 1, height |-> 1]
    /\ subject # "cursor" => pointerSystem = "xcb" /\ centre = 0 /\ pointer = 0
    /\ subject # "wait" => system = "win32"
    /\ subject # "notifiers" => os = "win32"

MCNext == WindowStep \/ CursorStep \/ WaitStep \/ WaylandStep \/ NotifierStep \/ TimerStep

\* The fairness of Windows, PlatformWait and WaylandLoop.
MCSpec ==
    /\ MCInit /\ [][MCNext]_allVars
    /\ WF_allVars(OfWindow(XcbLoop))
    /\ WF_allVars(OfWait(LoopStep)) /\ WF_allVars(OfWait(WakeUp))
    /\ SF_allVars(OfWait(PollOnce /\ destroy' # destroy))
    /\ WF_allVars(OfWayland(OwnStep)) /\ WF_allVars(OfWayland(BaseWait /\ wire > 0))
    /\ WF_allVars(OfWayland(OtherReads)) /\ WF_allVars(OfWayland(OtherFinishes))
-----------------------------------------------------------------------------
(* The loops get to whatever has come: close events of xcb, posted events, *)
(* the end of an Android activity, the events of a Wayland server.         *)
EverythingIsHandled ==
    /\ subject = "window" => CloseIsHeeded
    /\ PostsAreProcessed /\ DestroyQuits /\ EventsAreDispatched
=============================================================================
