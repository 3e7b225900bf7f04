---------------------------- MODULE NotifierSets ----------------------------
(***************************************************************************)
(* The notifiers of the Win32 and of the Android event loop: m_notifiers,  *)
(* what the system is asked to watch, and the delivery of what it reports. *)
(* Win32 posts one message for each event of a socket; Android's looper    *)
(* calls back once with the set of them.  A FileDescriptorNotifier         *)
(* registers when it is made and unregisters when it dies, whatever        *)
(* registerNotifier had answered.                                          *)
(***************************************************************************)
EXTENDS FiniteSets, Naturals, Sequences

CONSTANTS
    Notifiers,         \* records [fd, type, id]
    Unwatchable,       \* descriptors the system refuses to watch
    MaxReports         \* bound: reports under way

Types == {"read", "write", "exception"}
Descriptors == {n.fd : n \in Notifiers}

VARIABLES
    os,         \* "win32" or "android"
    alive,      \* the notifiers that exist
    entries,    \* the keys of m_notifiers
    table,      \* its slots: who holds each, {} or {n}
    watched,    \* the events the system watches, by descriptor
    reports,    \* WM_KD_SOCKETEVENT messages, or what the looper found: [fd, types]
    delivering, \* the report that is being delivered: {} or {[fd, types left]}
    ref,        \* the entry notifierSet refers to meanwhile; {}: none, or an erased one
    handling,   \* whether a handler runs meanwhile
    told        \* the notifier the last event went to, {} or {n}

nsVars ==
    <<os, alive, entries, table, watched, reports, delivering, ref, handling, told>>

NsTypeOK ==
    /\ os \in {"win32", "android"} /\ alive \subseteq Notifiers /\ handling \in BOOLEAN
    /\ entries \subseteq Descriptors /\ ref \subseteq entries
    /\ \A fd \in Descriptors, t \in Types :
          Cardinality(table[fd][t]) <= 1 /\ \A n \in table[fd][t] : n.fd = fd /\ n.type = t
    /\ watched \in [Descriptors -> SUBSET Types]

NsInit ==
    /\ os \in {"win32", "android"} /\ alive = {} /\ entries = {}
    /\ table = [fd \in Descriptors |-> [t \in Types |-> {}]]
    /\ watched = [fd \in Descriptors |-> {}] /\ reports = <<>>
    /\ delivering = {} /\ ref = {} /\ handling = FALSE /\ told = {}

Slot(n) == table[n.fd][n.type]
Holds(fd) == {t \in Types : table[fd][t] # {}}

\* The callback's reference is to an entry that was erased.
Dangling == delivering # {} /\ ref = {}

\* m_notifiers[fd] makes a missing entry: maybe in the memory of an erased one.
Touch(fd) ==
    /\ entries' = entries \cup {fd}
    /\ \/ ref' = ref
       \/ Dangling /\ fd \notin entries /\ ref' = {fd}

Erase(fd) == entries' = entries \ {fd} /\ ref' = ref \ {fd}
-----------------------------------------------------------------------------
(* registerNotifier and unregisterNotifier, between two waits or out of a  *)
(* handler.                                                                *)
Born(n) == n \notin alive /\ alive' = alive \cup {n}
Calls ==
    /\ delivering = {} \/ handling
    /\ told' = {} /\ UNCHANGED <<os, reports, delivering, handling>>
Watch(fd) == watched' = [watched EXCEPT ![fd] = {t \in Types : table'[fd][t] # {}}]

\* The slot is taken: nothing happens.
Occupied(n) == Born(n) /\ Slot(n) # {} /\ Calls /\ Touch(n.fd) /\ UNCHANGED <<table, watched>>

\* Mutant: a registration that fails leaves the notifier in its slot.
RefusedMutant(n) ==
    /\ Born(n) /\ Slot(n) = {} /\ n.fd \in Unwatchable /\ Calls
    /\ table' = [table EXCEPT ![n.fd][n.type] = {n}]
    /\ Touch(n.fd) /\ UNCHANGED watched

\* The system refuses: the slot is emptied again, and on Win32 an empty entry goes.
Refused(n) ==
    /\ Born(n) /\ Slot(n) = {} /\ n.fd \in Unwatchable /\ Calls
    /\ IF os = "win32" /\ Holds(n.fd) = {} THEN Erase(n.fd) ELSE Touch(n.fd)
    /\ UNCHANGED <<table, watched>>

\* Mutant: a slot that is taken goes to the new notifier.
AcceptedMutant(n) ==
    /\ Born(n) /\ n.fd \notin Unwatchable /\ Calls
    /\ table' = [table EXCEPT ![n.fd][n.type] = {n}]
    /\ Watch(n.fd) /\ Touch(n.fd)

Accepted(n) ==
    /\ Born(n) /\ Slot(n) = {} /\ n.fd \notin Unwatchable /\ Calls
    /\ table' = [table EXCEPT ![n.fd][n.type] = {n}]
    /\ Watch(n.fd) /\ Touch(n.fd)

Dies(n) == n \in alive /\ alive' = alive \ {n} /\ Calls

\* Mutant: only the last notifier of a descriptor is taken out of its slot.
UnregisterMutant(n) ==
    /\ Dies(n)
    /\ IF Holds(n.fd) # {n.type}
       THEN Touch(n.fd) /\ UNCHANGED <<table, watched>>
       ELSE table' = [table EXCEPT ![n.fd][n.type] = {}] /\ Watch(n.fd) /\ Erase(n.fd)

\* Whoever is in the slot is taken out of it, the caller or not; the entry goes
\* with the last of them, also while a callback refers to it.
Unregister(n) ==
    /\ Dies(n)
    /\ IF Slot(n) = {}
       THEN UNCHANGED <<table, watched>>
       ELSE table' = [table EXCEPT ![n.fd][n.type] = {}] /\ Watch(n.fd)
    /\ IF Holds(n.fd) = {n.type} THEN Erase(n.fd) ELSE Touch(n.fd)
-----------------------------------------------------------------------------
(* What the system reports, and its delivery.                              *)
Happens ==
    /\ Len(reports) < MaxReports /\ told' = {}
    /\ \E fd \in Descriptors : \E ts \in SUBSET watched[fd] \ {{}} :
          /\ os = "win32" => Cardinality(ts) = 1
          /\ reports' = Append(reports, [fd |-> fd, types |-> ts])
    /\ UNCHANGED <<os, alive, entries, table, watched, delivering, ref, handling>>

\* A pass of the looper forgets what is watched no more; a message stays, but one
\* that carries an error is dropped.
Report ==
    /\ reports # <<>> /\ delivering = {} /\ told' = {}
    /\ reports' = Tail(reports)
    /\ LET r == Head(reports)
       IN  \E ts \in IF os = "android" THEN {r.types \cap watched[r.fd]} ELSE {r.types, {}} :
               IF ts = {} THEN UNCHANGED <<delivering, ref, entries>>
               ELSE /\ delivering' = {[fd |-> r.fd, types |-> ts]}
                    /\ ref' = {r.fd} /\ entries' = entries \cup {r.fd}
    /\ UNCHANGED <<os, alive, table, watched, handling>>

Earliest(ts) ==
    IF "read" \in ts THEN "read" ELSE IF "write" \in ts THEN "write" ELSE "exception"

\* What is read through the reference; an erased entry reads as empty.
Seen(t) == UNION {table[fd][t] : fd \in ref}

\* handleSocketMessage and ALooperCallback: each slot is read when its turn comes.
Deliver ==
    \E r \in delivering :
        /\ r.types # {}
        /\ LET t == Earliest(r.types)
           IN  told' = Seen(t) /\ delivering' = {[r EXCEPT !.types = @ \ {t}]}
        /\ handling' = (told' # {})
        /\ UNCHANGED <<os, alive, entries, table, watched, reports, ref>>

EndReport ==
    /\ \E r \in delivering : r.types = {}
    /\ delivering' = {} /\ ref' = {} /\ handling' = FALSE /\ told' = {}
    /\ UNCHANGED <<os, alive, entries, table, watched, reports>>

NsNext ==
    \/ \E n \in Notifiers : Occupied(n) \/ Refused(n) \/ Accepted(n) \/ Unregister(n)
    \/ Happens \/ Report \/ Deliver \/ EndReport

NsSpec == NsInit /\ [][NsNext]_nsVars
-----------------------------------------------------------------------------
\* The system watches for exactly the events some notifier holds a slot for
\* (registerWithWSAAsyncSelect, ALooper_addFd and ALooper_removeFd).
WatchesTheTable == \A fd \in Descriptors : watched[fd] = Holds(fd)

\* No slot and no delivery names a notifier that is gone: not for a message that
\* was posted before it went, nor for an event of the same pass.
SlotsNameTheLiving == told \subseteq alive /\ \A fd \in Descriptors, t \in Types : table[fd][t] \subseteq alive

\* An event goes to the notifier of the reported descriptor, unless the entry was
\* erased by a handler and its memory holds that of another one.
TellsTheReported == \A r \in delivering : \A n \in told : ref \subseteq {r.fd} => n.fd = r.fd

\* A notifier loses its slot only by its own death, or by that of another one
\* for the same descriptor and type (unregisterNotifier does not compare them).
KeepsSlots ==
    \A n \in alive : Slot(n) = {n} /\ table'[n.fd][n.type] # {n}
        => \E m \in alive \ alive' : m.fd = n.fd /\ m.type = n.type

\* The system watches what the slots hold, no slot and no delivery names a
\* notifier that is gone, and deliveries are for the descriptor that was reported
\* while its entry is there: registerNotifier, unregisterNotifier,
\* handleSocketMessage and ALooperCallback.
SlotsAgree == NsTypeOK /\ WatchesTheTable /\ SlotsNameTheLiving /\ TellsTheReported
=============================================================================
