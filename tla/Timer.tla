------------------------------- MODULE Timer -------------------------------
(***************************************************************************)
(* Timers on the Linux loop: each owns a timerfd and a read notifier for   *)
(* it.  A round of waitForEventsImpl pokes the notifiers of the timers     *)
(* that epoll_wait reported; each reads its descriptor, which blocks when  *)
(* it has no expiration, and emits timeout.  The slots stop, start and     *)
(* destroy timers, those that were reported but not yet poked among them.  *)
(*                                                                         *)
(* A timer is named by its descriptor: one that is created after another   *)
(* was destroyed may get its number.                                       *)
(***************************************************************************)
EXTENDS Naturals

CONSTANTS
    Timers,             \* descriptors of timers
    Intervals,          \* values of Timer::interval, 0 among them
    SlotsTouchReported, \* TRUE: a slot may start, stop or re-create a timer
                        \* that was reported and not poked yet
    None

ASSUME TimersAssumption ==
    /\ 0 \in Intervals
    /\ Intervals \subseteq Nat
    /\ SlotsTouchReported \in BOOLEAN
    /\ None \notin Timers

VARIABLES
    created,    \* timers constructed and not destroyed
    running,    \* Timer::running
    interval,   \* Timer::interval
    armed,      \* the timerfd has a non-zero it_value
    expired,    \* it has expirations nobody has read
    phase,      \* what the loop's thread does
    reported,   \* timers of the epoll batch that were not poked yet
    firing      \* the timer whose notifier was poked

tmVars == <<created, running, interval, armed, expired, phase, reported, firing>>

TmTypeOK ==
    /\ created \in SUBSET Timers
    /\ running \in [Timers -> BOOLEAN]
    /\ interval \in [Timers -> Intervals]
    /\ armed \in [Timers -> BOOLEAN]
    /\ expired \in [Timers -> BOOLEAN]
    /\ phase \in {"outside", "dispatch", "read", "slot"}
    /\ reported \in SUBSET Timers
    /\ firing \in Timers \cup {None}
    /\ firing # None <=> phase \in {"read", "slot"}

TmInit ==
    /\ created = {}
    /\ running = [t \in Timers |-> FALSE]
    /\ interval = [t \in Timers |-> 0]
    /\ armed = [t \in Timers |-> FALSE]
    /\ expired = [t \in Timers |-> FALSE]
    /\ phase = "outside"
    /\ reported = {}
    /\ firing = None
-----------------------------------------------------------------------------
(***************************************************************************)
(* Program code, outside processEvents or in a slot of timeout.            *)
(***************************************************************************)
TmUserCode == phase \in {"outside", "slot"}

MayTouch(t) ==
    /\ TmUserCode
    /\ t \in reported => SlotsTouchReported

\* LinuxPlatformTimer::arm; timerfd_settime forgets unread expirations, and an
\* it_value of zero disarms.
Arm(t, us) ==
    /\ armed' = [armed EXCEPT ![t] = us # 0]
    /\ expired' = [expired EXCEPT ![t] = FALSE]

\* Mutant: the descriptor goes on ticking.
DisarmMutant(t) == UNCHANGED <<armed, expired>>

\* LinuxPlatformTimer::disarm
Disarm(t) ==
    /\ armed' = [armed EXCEPT ![t] = FALSE]
    /\ expired' = [expired EXCEPT ![t] = FALSE]

\* timerfd_create and the notifier
CreateTimer(t) ==
    /\ MayTouch(t)
    /\ t \notin created
    /\ created' = created \cup {t}
    /\ running' = [running EXCEPT ![t] = FALSE]
    /\ interval' = [interval EXCEPT ![t] = 0]
    /\ Disarm(t)
    /\ UNCHANGED <<phase, reported, firing>>

\* The notifier is unregistered and the descriptor closed.  Not out of a slot of
\* the timer's own timeout: that would end the signal which is being emitted.
DestroyTimer(t) ==
    /\ TmUserCode
    /\ t \in created \ {firing}
    /\ created' = created \ {t}
    /\ armed' = [armed EXCEPT ![t] = FALSE]
    /\ expired' = [expired EXCEPT ![t] = FALSE]
    /\ UNCHANGED <<running, interval, phase, reported, firing>>

\* The slot of running.valueChanged
Start(t) ==
    /\ MayTouch(t)
    /\ t \in created
    /\ ~running[t]
    /\ running' = [running EXCEPT ![t] = TRUE]
    /\ Arm(t, interval[t])
    /\ UNCHANGED <<created, interval, phase, reported, firing>>

Stop(t) ==
    /\ MayTouch(t)
    /\ t \in created
    /\ running[t]
    /\ running' = [running EXCEPT ![t] = FALSE]
    /\ Disarm(t)
    /\ UNCHANGED <<created, interval, phase, reported, firing>>

\* Mutant: a new interval starts the timer.
SetIntervalMutant(t, us) ==
    /\ MayTouch(t)
    /\ t \in created
    /\ interval[t] # us
    /\ interval' = [interval EXCEPT ![t] = us]
    /\ Arm(t, us)
    /\ UNCHANGED <<created, running, phase, reported, firing>>

\* The slot of interval.valueChanged
SetInterval(t, us) ==
    /\ MayTouch(t)
    /\ t \in created
    /\ interval[t] # us
    /\ interval' = [interval EXCEPT ![t] = us]
    /\ IF running[t] THEN Arm(t, us) ELSE UNCHANGED <<armed, expired>>
    /\ UNCHANGED <<created, running, phase, reported, firing>>
-----------------------------------------------------------------------------
\* Mutant: it_interval is zero, the timer fires once.
ExpireMutant(t) ==
    /\ armed[t]
    /\ expired' = [expired EXCEPT ![t] = TRUE]
    /\ armed' = [armed EXCEPT ![t] = FALSE]
    /\ UNCHANGED <<created, running, interval, phase, reported, firing>>

\* The kernel: time passes.  it_interval is the interval, too.
Expire(t) ==
    /\ armed[t]
    /\ expired' = [expired EXCEPT ![t] = TRUE]
    /\ UNCHANGED <<created, running, interval, armed, phase, reported, firing>>

\* epoll_wait reports timers with expirations, not always all of them.
WaitForTimers(batch) ==
    /\ phase = "outside"
    /\ batch \subseteq {t \in created : expired[t]}
    /\ reported' = batch
    /\ phase' = "dispatch"
    /\ UNCHANGED <<created, running, interval, armed, expired, firing>>

\* Mutant: an event is dispatched twice.
PokeMutant(t) ==
    /\ phase = "dispatch"
    /\ t \in reported
    /\ IF t \in created
       THEN firing' = t /\ phase' = "read"
       ELSE UNCHANGED <<firing, phase>>
    /\ UNCHANGED <<created, running, interval, armed, expired, reported>>

\* The event of a timer that is gone finds no notifier.
Poke(t) ==
    /\ phase = "dispatch"
    /\ t \in reported
    /\ reported' = reported \ {t}
    /\ IF t \in created
       THEN firing' = t /\ phase' = "read"
       ELSE UNCHANGED <<firing, phase>>
    /\ UNCHANGED <<created, running, interval, armed, expired>>

\* read(2) on a descriptor without TFD_NONBLOCK; then timeout is emitted.
Read ==
    /\ phase = "read"
    /\ expired[firing]
    /\ expired' = [expired EXCEPT ![firing] = FALSE]
    /\ phase' = "slot"
    /\ UNCHANGED <<created, running, interval, armed, reported, firing>>

\* Mutant: the notifier still counts as poked.
SlotReturnMutant ==
    /\ phase = "slot"
    /\ phase' = "dispatch"
    /\ UNCHANGED <<created, running, interval, armed, expired, reported, firing>>

SlotReturn ==
    /\ phase = "slot"
    /\ phase' = "dispatch"
    /\ firing' = None
    /\ UNCHANGED <<created, running, interval, armed, expired, reported>>

EndOfBatch ==
    /\ phase = "dispatch"
    /\ reported = {}
    /\ phase' = "outside"
    /\ UNCHANGED <<created, running, interval, armed, expired, reported, firing>>

TmUserStep(t) ==
    \/ CreateTimer(t) \/ DestroyTimer(t) \/ Start(t) \/ Stop(t)
    \/ \E us \in Intervals : SetInterval(t, us)

TmNext ==
    \/ \E t \in Timers : TmUserStep(t) \/ Expire(t) \/ Poke(t)
    \/ \E batch \in SUBSET Timers : WaitForTimers(batch)
    \/ Read
    \/ SlotReturn
    \/ EndOfBatch

TmSpec == TmInit /\ [][TmNext]_tmVars

(***************************************************************************)
(* Time passes, the thread runs its loop, slots return, and epoll does not *)
(* forget a descriptor that stays ready (it reports them in turn).         *)
(***************************************************************************)
WaitFor(t) == \E batch \in SUBSET Timers : t \in batch /\ WaitForTimers(batch)

Fairness ==
    /\ \A t \in Timers : WF_tmVars(Expire(t)) /\ WF_tmVars(Poke(t)) /\ SF_tmVars(WaitFor(t))
    /\ WF_tmVars(Read)
    /\ WF_tmVars(SlotReturn)
    /\ WF_tmVars(EndOfBatch)

FairSpec == TmSpec /\ Fairness
-----------------------------------------------------------------------------
(***************************************************************************)
(* The thread never blocks in the read of a timer's descriptor: only       *)
(* epoll_wait waits, and that not longer than its timeout ("0 means do not *)
(* wait (i.e. poll)").                                                     *)
(***************************************************************************)
NeverBlocksInRead == phase = "read" => expired[firing]

(***************************************************************************)
(* Whatever the order of start, stop and new intervals, the descriptor     *)
(* ticks exactly when the timer runs and its interval is not zero.         *)
(***************************************************************************)
ArmedAsAsked ==
    \A t \in created : armed[t] <=> running[t] /\ interval[t] # 0

(***************************************************************************)
(* timeout is emitted by running timers only.                              *)
(***************************************************************************)
OnlyRunningFire ==
    [][(phase = "read" /\ phase' = "slot") => firing \in created /\ running[firing]]_tmVars

(***************************************************************************)
(* A timer that is left running at one interval fires again and again,     *)
(* however busy the slots of the other timers are.                         *)
(***************************************************************************)
RunningTimersFire ==
    \A t \in Timers, us \in Intervals \ {0} :
        <>[](t \in created /\ running[t] /\ interval[t] = us)
          => []<>(phase = "slot" /\ firing = t)
=============================================================================
