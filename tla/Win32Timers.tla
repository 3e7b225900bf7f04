---------------------------- MODULE Win32Timers ----------------------------
(***************************************************************************)
(* Win32PlatformTimer: timers of the system that belong to no window, and  *)
(* the event loop's map `timers` from their identifiers to the objects.    *)
(***************************************************************************)
EXTENDS FiniteSets, Naturals

CONSTANTS
    WinTimers,   \* the Timer objects
    Ids          \* bound: the identifiers the system can give, not 0

VARIABLES
    living,     \* the Timer objects that exist
    running,    \* Timer::running
    id,         \* m_id, 0 for none
    byId,       \* the loop's map, as a set of <<id, timer>>
    armed,      \* the identifiers of the timers the system runs
    refused,    \* the timers SetTimer failed for since they last started
    emitted     \* the timer whose timeout the last callback emitted, {} or {t}

wtVars == <<living, running, id, byId, armed, refused, emitted>>

WtTypeOK ==
    /\ living \subseteq WinTimers /\ running \in [WinTimers -> BOOLEAN] /\ id \in [WinTimers -> Ids \cup {0}]
    /\ byId \subseteq Ids \X WinTimers /\ armed \subseteq Ids
    /\ \A p, q \in byId : p[1] = q[1] => p = q

WtInit ==
    /\ living = {} /\ running = [t \in WinTimers |-> FALSE]
    /\ id = [t \in WinTimers |-> 0] /\ byId = {} /\ armed = {} /\ refused = {}
    /\ emitted = {}
-----------------------------------------------------------------------------
MakeTimer(t) ==
    /\ t \notin living /\ living' = living \cup {t} /\ emitted' = {}
    /\ running' = [running EXCEPT ![t] = FALSE] /\ id' = [id EXCEPT ![t] = 0]
    /\ refused' = refused \ {t} /\ UNCHANGED <<byId, armed>>

\* arm: SetTimer makes a timer, or restarts the one there is; it may make none.
Arm(t) ==
    \/ /\ id[t] = 0
       /\ \E i \in Ids \ armed :
             /\ id' = [id EXCEPT ![t] = i] /\ armed' = armed \cup {i}
             /\ byId' = {p \in byId : p[1] # i} \cup {<<i, t>>}
       /\ refused' = refused \ {t}
    \/ id[t] = 0 /\ refused' = refused \cup {t} /\ UNCHANGED <<id, byId, armed>>
    \/ id[t] # 0 /\ UNCHANGED <<id, byId, armed, refused>>

\* Mutant: the map keeps the entry.
DisarmMutant(t) ==
    /\ armed' = armed \ {id[t]} /\ id' = [id EXCEPT ![t] = 0]
    /\ refused' = refused \ {t} /\ UNCHANGED byId

\* disarm, as a release build runs it when there is no timer to kill.
Disarm(t) ==
    /\ byId' = {p \in byId : p[1] # id[t]} /\ armed' = armed \ {id[t]}
    /\ id' = [id EXCEPT ![t] = 0] /\ refused' = refused \ {t}

\* The slots of `running` and `interval`: the properties report changes only.
SetRunning(t) ==
    /\ t \in living /\ running' = [running EXCEPT ![t] = ~@] /\ emitted' = {}
    /\ IF running[t] THEN Disarm(t) ELSE Arm(t)
    /\ UNCHANGED living

\* Mutant: a new interval starts the timer.
SetIntervalMutant(t) ==
    /\ t \in living /\ Arm(t) /\ emitted' = {}
    /\ UNCHANGED <<living, running>>

SetInterval(t) ==
    /\ t \in living /\ running[t] /\ Arm(t) /\ emitted' = {}
    /\ UNCHANGED <<living, running>>

\* Mutant: the destructor leaves the system's timer running.
EndTimerMutant(t) ==
    /\ t \in living /\ living' = living \ {t} /\ emitted' = {}
    /\ UNCHANGED <<running, id, byId, armed, refused>>

EndTimer(t) ==
    /\ t \in living /\ living' = living \ {t} /\ emitted' = {}
    /\ IF id[t] # 0 THEN Disarm(t) ELSE UNCHANGED <<id, byId, armed, refused>>
    /\ UNCHANGED running

\* WM_TIMER is made when the loop asks for a message and dispatched at once.
Callback ==
    /\ \E i \in armed : emitted' = {p[2] : p \in {p \in byId : p[1] = i}}
    /\ UNCHANGED <<living, running, id, byId, armed, refused>>

WtNext ==
    \/ \E t \in WinTimers :
          MakeTimer(t) \/ SetRunning(t) \/ SetInterval(t) \/ EndTimer(t)
    \/ Callback

WtSpec == WtInit /\ [][WtNext]_wtVars
-----------------------------------------------------------------------------
\* The map, the system and the objects agree: a timer of the system is the one of
\* a live object, and the callback finds it (`timers[timerId]`, assert(timer)).
EveryTimerIsFound ==
    /\ byId = {<<id[t], t>> : t \in {t \in WinTimers : id[t] # 0}}
    /\ armed = {p[1] : p \in byId}
    /\ \A t \in WinTimers : id[t] # 0 => t \in living

\* A timer that runs has a timer of the system, unless SetTimer failed when it
\* started and its interval has not been set since; one that stands still has none.
RunningIsArmed ==
    \A t \in WinTimers : t \in living => (id[t] # 0 <=> running[t] /\ t \notin refused)

\* Only a running timer times out.
OnlyRunningTimesOut == \A t \in emitted : t \in living /\ running[t]

\* The system's timers, the loop's map and the Timer objects agree on what runs:
\* arm, disarm and the callback of Win32PlatformTimer, and ~Timer.
Win32TimersAgree ==
    WtTypeOK /\ EveryTimerIsFound /\ RunningIsArmed /\ OnlyRunningTimesOut
=============================================================================
