--------------------------- MODULE PlatformLoops ---------------------------
(***************************************************************************)
(* What lies beneath the windows of systems other than macOS: the waits of *)
(* their loops, the notifiers of Win32 and Android, the timers of Win32    *)
(* and the disabled cursor of Xcb and Win32.  The parts share nothing.     *)
(***************************************************************************)
EXTENDS NotifierSets, Win32Timers, PlatformWait, WaylandLoop, Cursor

loopVars == <<waitVars, wlVars, nsVars, wtVars, cursorVars>>

(* No loop of Win32, Android and Wayland sleeps over a posted event or one *)
(* that has been read (waitForEventsImpl), and their waits keep their types.*)
NothingIsSleptOver == WaitTypeOK /\ WlTypeOK /\ NoPostSleptOver /\ NeverSleepsOnRead

(* A disabled cursor reports what the hand does, and of the warps only     *)
(* those that another one has followed (MovesAreReal names the two         *)
(* exceptions); no step falls asleep over requests, or takes the slot of a *)
(* notifier but by the death of one for the same events.                   *)
StepsAreReal == [][MovesAreReal /\ SleepsFlushed /\ KeepsSlots]_loopVars
=============================================================================
