--------------------------- MODULE PlatformProofs ---------------------------
(***************************************************************************)
(* What the platforms keep.  First the loops other than that of Linux: the *)
(* notifiers, the timers and the sleep of Win32 and Android, the sleep and *)
(* the globals of Wayland, and the disabled cursor of Xcb and Win32, for   *)
(* any number of notifiers, timers, identifiers, events and messages.      *)
(* Then the windows: what a window, its platform window and the server's   *)
(* idea of it keep, on Wayland, Android, Win32 and X, for any sizes,       *)
(* scales, bounds and buttons, any calls of the program and any order of   *)
(* events.                                                                 *)
(***************************************************************************)
EXTENDS PlatformLoops, WaylandGlobals, Windows, FiniteSetTheorems, SequenceTheorems, TLAPS

(***************************************************************************)
(* The notifiers' maps: a slot is empty or holds one notifier that lives,  *)
(* and a report is about a descriptor and types there are.                 *)
(***************************************************************************)
TypesAreKnown == \A n \in Notifiers : n.type \in Types

TableTyped == table \in [Descriptors -> [Types -> SUBSET Notifiers]]

ReportsTyped ==
    /\ reports \in Seq([fd : Descriptors, types : SUBSET Types])
    /\ delivering \subseteq [fd : Descriptors, types : SUBSET Types]

SetsInv == SlotsAgree /\ TableTyped /\ ReportsTyped

LEMMA NotifiersFit ==
    ASSUME TypesAreKnown, NEW n \in Notifiers
    PROVE  n.fd \in Descriptors /\ n.type \in Types
BY DEF TypesAreKnown, Descriptors

\* A reference is to an entry there is, whatever is made and erased.
LEMMA EntriesFit ==
    ASSUME TypesAreKnown, NEW n \in Notifiers, entries \subseteq Descriptors,
           ref \subseteq entries, Touch(n.fd) \/ Erase(n.fd)
    PROVE  entries' \subseteq Descriptors /\ ref' \subseteq entries'
BY NotifiersFit DEF Touch, Erase

(***************************************************************************)
(* A step that changes one slot, and asks the system for what is in the    *)
(* slots of that descriptor then, keeps the invariant if the slot fits and *)
(* nobody else's slot names the notifier that dies.                        *)
(***************************************************************************)
LEMMA SlotStep ==
    ASSUME SetsInv, NEW n \in Notifiers, TypesAreKnown, NEW slot \in SUBSET Notifiers,
           table' = [table EXCEPT ![n.fd][n.type] = slot], Watch(n.fd), Calls,
           Touch(n.fd) \/ Erase(n.fd),
           alive' \subseteq Notifiers, alive \ {n} \subseteq alive',
           slot \subseteq alive', Cardinality(slot) <= 1,
           \A m \in slot : m.fd = n.fd /\ m.type = n.type
    PROVE  SetsInv'
<1> USE DEF SetsInv, SlotsAgree
<1>1. n.fd \in Descriptors /\ n.type \in Types
  BY NotifiersFit
<1>2. TableTyped'
  BY <1>1 DEF TableTyped
<1>3. \A fd \in Descriptors, t \in Types :
         table'[fd][t] = IF fd = n.fd /\ t = n.type THEN slot ELSE table[fd][t]
  BY <1>1 DEF TableTyped
<1>4. \A fd \in Descriptors : watched'[fd] = Holds(fd)'
  <2>1. watched' = [watched EXCEPT ![n.fd] = {t \in Types : table'[n.fd][t] # {}}]
    BY DEF Watch
  <2>2. watched'[n.fd] = {t \in Types : table'[n.fd][t] # {}}
    BY <1>1, <2>1 DEF NsTypeOK
  <2>3. \A fd \in Descriptors \ {n.fd} :
           /\ watched'[fd] = {t \in Types : table[fd][t] # {}}
           /\ \A t \in Types : table'[fd][t] = table[fd][t]
    BY <1>3, <2>1 DEF NsTypeOK, WatchesTheTable, Holds
  <2> QED BY <2>2, <2>3 DEF Holds
<1>5. \A fd \in Descriptors, t \in Types : table'[fd][t] \subseteq alive'
  <2> SUFFICES ASSUME NEW fd \in Descriptors, NEW t \in Types, NEW m \in table'[fd][t]
               PROVE  m \in alive'
    OBVIOUS
  <2>1. CASE fd = n.fd /\ t = n.type
    BY <1>3, <2>1
  <2>2. CASE ~(fd = n.fd /\ t = n.type)
    BY <1>3, <2>2 DEF SlotsNameTheLiving, NsTypeOK
  <2> QED BY <2>1, <2>2
<1>6. /\ \A fd \in Descriptors, t \in Types :
            /\ Cardinality(table'[fd][t]) <= 1
            /\ \A m \in table'[fd][t] : m.fd = fd /\ m.type = t
      /\ watched' \in [Descriptors -> SUBSET Types]
  BY <1>1, <1>3 DEF NsTypeOK, Watch
<1>7. entries' \subseteq Descriptors /\ ref' \subseteq entries'
  BY EntriesFit DEF NsTypeOK
<1> QED
  BY <1>2, <1>4, <1>5, <1>6, <1>7
  DEF NsTypeOK, WatchesTheTable, SlotsNameTheLiving, TellsTheReported, ReportsTyped, Calls

(***************************************************************************)
(* Every step keeps the invariant.                                         *)
(***************************************************************************)
LEMMA SetsStep == TypesAreKnown /\ SetsInv /\ [NsNext]_nsVars => SetsInv'
<1> SUFFICES ASSUME TypesAreKnown, SetsInv, [NsNext]_nsVars PROVE SetsInv'
  OBVIOUS
<1> USE DEF SetsInv, SlotsAgree
<1>1. ASSUME NEW n \in Notifiers, Occupied(n) \/ Refused(n)
      PROVE  SetsInv'
  <2>1. UNCHANGED <<os, table, watched, reports, delivering, handling>> /\ told' = {}
    BY <1>1 DEF Occupied, Refused, Calls
  <2>2. alive' = alive \cup {n}
    BY <1>1 DEF Occupied, Refused, Born
  <2>3. Touch(n.fd) \/ Erase(n.fd)
    BY <1>1 DEF Occupied, Refused
  <2>4. entries' \subseteq Descriptors /\ ref' \subseteq entries'
    BY <2>3, EntriesFit DEF NsTypeOK
  <2> QED
    BY <2>1, <2>2, <2>4
    DEF NsTypeOK, WatchesTheTable, Holds, SlotsNameTheLiving, TellsTheReported, TableTyped,
        ReportsTyped
<1>2. ASSUME NEW n \in Notifiers, Accepted(n)
      PROVE  SetsInv'
  <2>1. Cardinality({n}) = 1
    BY FS_Singleton
  <2>2. alive' = alive \cup {n} /\ alive \subseteq Notifiers
    BY <1>2 DEF Accepted, Born, NsTypeOK
  <2>3. table' = [table EXCEPT ![n.fd][n.type] = {n}] /\ Watch(n.fd) /\ Calls /\ Touch(n.fd)
    BY <1>2 DEF Accepted
  <2>4. /\ {n} \in SUBSET Notifiers /\ \A m \in {n} : m.fd = n.fd /\ m.type = n.type
        /\ {n} \subseteq alive' /\ alive' \subseteq Notifiers /\ alive \ {n} \subseteq alive'
        /\ Cardinality({n}) <= 1
    BY <2>1, <2>2
  <2> HIDE DEF SetsInv, SlotsAgree
  <2> QED BY <2>3, <2>4, SlotStep
<1>3. ASSUME NEW n \in Notifiers, Unregister(n)
      PROVE  SetsInv'
  <2>1. alive' = alive \ {n} /\ Calls /\ alive \subseteq Notifiers
    BY <1>3 DEF Unregister, Dies, NsTypeOK
  <2>4. Touch(n.fd) \/ Erase(n.fd)
    BY <1>3 DEF Unregister
  <2>2. CASE Slot(n) = {}
    <3>1. UNCHANGED <<table, watched>>
      BY <1>3, <2>2 DEF Unregister
    <3>2. \A fd \in Descriptors, t \in Types : n \notin table[fd][t]
      BY <2>2 DEF NsTypeOK, Slot
    <3>3. entries' \subseteq Descriptors /\ ref' \subseteq entries'
      BY <2>4, EntriesFit DEF NsTypeOK
    <3> QED
      BY <2>1, <3>1, <3>2, <3>3
      DEF NsTypeOK, WatchesTheTable, Holds, SlotsNameTheLiving, TellsTheReported, TableTyped,
          ReportsTyped, Calls
  <2>3. CASE Slot(n) # {}
    <3>1. table' = [table EXCEPT ![n.fd][n.type] = {}] /\ Watch(n.fd)
      BY <1>3, <2>3 DEF Unregister
    <3>2. Cardinality({}) = 0
      BY FS_EmptySet
    <3>3. /\ {} \in SUBSET Notifiers /\ {} \subseteq alive' /\ alive' \subseteq Notifiers
          /\ alive \ {n} \subseteq alive' /\ Cardinality({}) <= 1
      BY <2>1, <3>2
    <3> HIDE DEF SetsInv, SlotsAgree
    <3> QED BY <2>1, <2>4, <3>1, <3>3, SlotStep
  <2> QED BY <2>2, <2>3
<1>4. CASE Happens
  <2>1. PICK fd \in Descriptors : \E ts \in SUBSET watched[fd] :
           reports' = Append(reports, [fd |-> fd, types |-> ts])
    BY <1>4 DEF Happens
  <2>2. watched[fd] \in SUBSET Types
    BY DEF NsTypeOK
  <2>3. reports' \in Seq([fd : Descriptors, types : SUBSET Types])
    BY <2>1, <2>2 DEF ReportsTyped
  <2> QED
    BY <1>4, <2>3
    DEF Happens, NsTypeOK, WatchesTheTable, Holds, SlotsNameTheLiving, TellsTheReported,
        TableTyped, ReportsTyped
<1>5. CASE Report
  <2>1. /\ Head(reports) \in [fd : Descriptors, types : SUBSET Types]
        /\ reports' \in Seq([fd : Descriptors, types : SUBSET Types])
    BY <1>5, HeadTailProperties DEF Report, ReportsTyped
  <2>2. delivering' \subseteq [fd : Descriptors, types : SUBSET Types]
    BY <1>5, <2>1 DEF Report, ReportsTyped
  <2>3. entries' \subseteq Descriptors /\ ref' \subseteq entries' /\ told' = {}
    BY <1>5, <2>1 DEF Report, NsTypeOK
  <2>4. UNCHANGED <<os, alive, table, watched, handling>>
    BY <1>5 DEF Report
  <2> QED
    BY <2>1, <2>2, <2>3, <2>4
    DEF NsTypeOK, WatchesTheTable, Holds, SlotsNameTheLiving, TellsTheReported, TableTyped,
        ReportsTyped
<1>6. CASE Deliver
  <2>1. PICK r \in delivering :
           /\ r.types # {}
           /\ told' = Seen(Earliest(r.types))
           /\ delivering' = {[r EXCEPT !.types = @ \ {Earliest(r.types)}]}
    BY <1>6 DEF Deliver
  <2>2. r \in [fd : Descriptors, types : SUBSET Types] /\ ref \subseteq Descriptors
    BY DEF ReportsTyped, NsTypeOK
  <2>3. Earliest(r.types) \in Types
    BY DEF Earliest, Types
  <2>4. told' \subseteq alive /\ \A n \in told' : n.fd \in ref
    BY <2>1, <2>2, <2>3 DEF Seen, SlotsNameTheLiving, NsTypeOK
  <2>5. delivering' \subseteq [fd : Descriptors, types : SUBSET Types]
        /\ \A q \in delivering' : q.fd = r.fd
    BY <2>1, <2>2
  <2>6. UNCHANGED <<os, alive, entries, table, watched, reports, ref>> /\ handling' \in BOOLEAN
    BY <1>6 DEF Deliver
  <2> QED
    BY <2>4, <2>5, <2>6
    DEF NsTypeOK, WatchesTheTable, Holds, SlotsNameTheLiving, TellsTheReported, TableTyped,
        ReportsTyped
<1>7. CASE EndReport
  BY <1>7
  DEF EndReport, NsTypeOK, WatchesTheTable, Holds, SlotsNameTheLiving, TellsTheReported,
      TableTyped, ReportsTyped
<1>8. CASE UNCHANGED nsVars
  BY <1>8
  DEF nsVars, NsTypeOK, WatchesTheTable, Holds, SlotsNameTheLiving, TellsTheReported, TableTyped,
      ReportsTyped
<1> QED
  BY <1>1, <1>2, <1>3, <1>4, <1>5, <1>6, <1>7, <1>8 DEF NsNext

LEMMA SetsStart == NsInit => SetsInv
<1> SUFFICES ASSUME NsInit PROVE SetsInv
  OBVIOUS
<1>1. Cardinality({}) <= 1
  BY FS_EmptySet
<1>2. \A fd \in Descriptors, t \in Types : table[fd][t] = {}
  BY DEF NsInit
<1>3. NsTypeOK
  BY <1>1, <1>2 DEF NsInit, NsTypeOK
<1>4. WatchesTheTable /\ SlotsNameTheLiving /\ TellsTheReported
  BY <1>2 DEF NsInit, WatchesTheTable, Holds, SlotsNameTheLiving, TellsTheReported
<1>5. TableTyped /\ ReportsTyped
  BY EmptySeq DEF NsInit, TableTyped, ReportsTyped
<1> QED BY <1>3, <1>4, <1>5 DEF SetsInv, SlotsAgree

(* After any sequence of registrations, refusals, deaths and reports, the  *)
(* system watches exactly what the slots of Win32's and Android's maps     *)
(* hold, and no slot and no delivery names a notifier that is gone; an     *)
(* event is for the notifier of its descriptor, unless a handler erased    *)
(* the entry the callback refers to and another one took its memory.       *)
THEOREM SlotsAreRight ==
    ASSUME TypesAreKnown
    PROVE  NsSpec => []SlotsAgree
<1>1. NsInit => SetsInv
  BY SetsStart
<1>2. SetsInv /\ [NsNext]_nsVars => SetsInv'
  BY SetsStep
<1>3. SetsInv => SlotsAgree
  BY DEF SetsInv
<1> QED BY <1>1, <1>2, <1>3, PTL DEF NsSpec

LEMMA SlotsStayKept == TypesAreKnown /\ SetsInv /\ NsNext => KeepsSlots
<1> SUFFICES ASSUME TypesAreKnown, SetsInv, NsNext, NEW n \in alive, Slot(n) = {n},
                    table'[n.fd][n.type] # {n}
             PROVE  \E m \in alive \ alive' : m.fd = n.fd /\ m.type = n.type
  BY DEF KeepsSlots
<1>0. n \in Notifiers /\ n.fd \in Descriptors /\ n.type \in Types
  BY NotifiersFit DEF SetsInv, SlotsAgree, NsTypeOK
<1>1. table' # table
  BY DEF Slot
<1>2. ASSUME NEW m \in Notifiers, Accepted(m)
      PROVE  FALSE
  <2>1. Slot(m) = {} /\ table' = [table EXCEPT ![m.fd][m.type] = {m}]
    BY <1>2 DEF Accepted
  <2>2. m.fd # n.fd \/ m.type # n.type
    BY <2>1 DEF Slot
  <2>3. table'[n.fd][n.type] = table[n.fd][n.type]
    BY <1>0, <2>1, <2>2 DEF SetsInv, TableTyped
  <2> QED BY <2>3 DEF Slot
<1>3. ASSUME NEW m \in Notifiers, Unregister(m)
      PROVE  \E k \in alive \ alive' : k.fd = n.fd /\ k.type = n.type
  <2>1. m \in alive \ alive'
    BY <1>3 DEF Unregister, Dies
  <2>2. table' = [table EXCEPT ![m.fd][m.type] = {}]
    BY <1>1, <1>3 DEF Unregister
  <2>3. m.fd = n.fd /\ m.type = n.type
    BY <1>0, <2>2 DEF SetsInv, TableTyped, Slot
  <2> QED BY <2>1, <2>3
<1> QED
  BY <1>1, <1>2, <1>3
  DEF NsNext, Occupied, Refused, Happens, Report, Deliver, EndReport

LEMMA SlotsRest == TypesAreKnown /\ SetsInv /\ UNCHANGED nsVars => KeepsSlots
BY DEF nsVars, KeepsSlots, Slot
-----------------------------------------------------------------------------
(***************************************************************************)
(* Win32's timers: the map, the system and the objects name each other.    *)
(***************************************************************************)
ZeroIsNoId == 0 \notin Ids

LEMMA FirstsWithOneMore ==
    ASSUME NEW S, NEW i, NEW t
    PROVE  {p[1] : p \in S \cup {<<i, t>>}} = {p[1] : p \in S} \cup {i}
<1>1. <<i, t>>[1] = i
  OBVIOUS
<1>2. {p[1] : p \in S \cup {<<i, t>>}} \subseteq {p[1] : p \in S} \cup {i}
  BY <1>1, Zenon
<1>3. i \in {p[1] : p \in S \cup {<<i, t>>}}
  BY <1>1
<1>4. {p[1] : p \in S} \subseteq {p[1] : p \in S \cup {<<i, t>>}}
  OBVIOUS
<1> QED BY <1>2, <1>3, <1>4

\* No two timers have the same identifier.
LEMMA IdsDiffer ==
    ASSUME Win32TimersAgree, NEW t \in WinTimers, NEW u \in WinTimers, id[t] # 0, id[t] = id[u]
    PROVE  t = u
<1>1. <<id[t], t>> \in byId /\ <<id[t], u>> \in byId
  BY DEF Win32TimersAgree, EveryTimerIsFound
<1> QED BY <1>1 DEF Win32TimersAgree, WtTypeOK

(***************************************************************************)
(* arm gives t an identifier no timer has, or changes at most `refused`;   *)
(* disarm takes t's identifier from the map and the system.                *)
(***************************************************************************)
LEMMA ArmKeeps ==
    ASSUME ZeroIsNoId, Win32TimersAgree, NEW t \in WinTimers, t \in living, living' = living,
           NEW i \in Ids \ armed, id[t] = 0,
           id' = [id EXCEPT ![t] = i], armed' = armed \cup {i},
           byId' = {p \in byId : p[1] # i} \cup {<<i, t>>},
           running' \in [WinTimers -> BOOLEAN]
    PROVE  WtTypeOK' /\ EveryTimerIsFound'
<1> USE DEF ZeroIsNoId, Win32TimersAgree, WtTypeOK
<1>1. byId' = byId \cup {<<i, t>>} /\ i # 0
  BY DEF EveryTimerIsFound
<1>2. \A u \in WinTimers : id'[u] = IF u = t THEN i ELSE id[u]
  OBVIOUS
<1> DEFINE named == {<<id'[u], u>> : u \in {u \in WinTimers : id'[u] # 0}}
<1>3. byId' = named
  <2>1. ASSUME NEW p \in byId
        PROVE  p \in named
    <3>1. PICK u \in WinTimers : id[u] # 0 /\ p = <<id[u], u>>
      BY DEF EveryTimerIsFound
    <3>2. id'[u] = id[u]
      BY <1>2, <3>1
    <3> QED BY <3>1, <3>2
  <2>2. <<i, t>> \in named
    BY <1>1, <1>2
  <2>3. ASSUME NEW u \in WinTimers, id'[u] # 0
        PROVE  <<id'[u], u>> \in byId'
    BY <1>1, <1>2, <2>3 DEF EveryTimerIsFound
  <2>4. named \subseteq byId'
    BY <2>3
  <2> HIDE DEF named
  <2> QED BY <1>1, <2>1, <2>2, <2>4
<1>4. armed' = {p[1] : p \in byId'}
  <2>1. armed = {p[1] : p \in byId} /\ armed' = armed \cup {i}
    BY DEF EveryTimerIsFound
  <2>2. {p[1] : p \in byId \cup {<<i, t>>}} = {p[1] : p \in byId} \cup {i}
    BY FirstsWithOneMore
  <2>3. {p[1] : p \in byId'} = {p[1] : p \in byId \cup {<<i, t>>}}
    BY <1>1, Zenon
  <2> QED BY <2>1, <2>2, <2>3
<1>5. \A u \in WinTimers : id'[u] # 0 => u \in living'
  BY <1>2 DEF EveryTimerIsFound
<1>6. \A p, q \in byId' : p[1] = q[1] => p = q
  <2>1. \A p \in byId : p[1] # i
    BY DEF EveryTimerIsFound
  <2> QED BY <1>1, <2>1
<1>7. /\ living' \subseteq WinTimers /\ id' \in [WinTimers -> Ids \cup {0}]
      /\ byId' \subseteq Ids \X WinTimers /\ armed' \subseteq Ids
  BY <1>1
<1> QED BY <1>3, <1>4, <1>5, <1>6, <1>7 DEF EveryTimerIsFound

LEMMA DisarmKeeps ==
    ASSUME ZeroIsNoId, Win32TimersAgree, NEW t \in WinTimers, Disarm(t),
           living' \subseteq WinTimers, living \ {t} \subseteq living',
           running' \in [WinTimers -> BOOLEAN]
    PROVE  WtTypeOK' /\ EveryTimerIsFound'
<1> USE DEF ZeroIsNoId, WtTypeOK, Disarm
<1>0. WtTypeOK /\ EveryTimerIsFound
  BY DEF Win32TimersAgree
<1>1. \A u \in WinTimers : id'[u] = IF u = t THEN 0 ELSE id[u]
  BY <1>0
<1>2. \A u \in WinTimers \ {t} : id[u] # 0 => id[u] # id[t]
  BY IdsDiffer
<1>3. byId' = {<<id'[u], u>> : u \in {u \in WinTimers : id'[u] # 0}}
  <2>1. ASSUME NEW p \in byId'
        PROVE  p \in {<<id'[u], u>> : u \in {u \in WinTimers : id'[u] # 0}}
    <3>1. PICK u \in WinTimers : id[u] # 0 /\ p = <<id[u], u>>
      BY <1>0 DEF EveryTimerIsFound
    <3>2. u # t
      BY <3>1
    <3> QED BY <1>1, <3>1, <3>2
  <2>2. ASSUME NEW u \in WinTimers, id'[u] # 0
        PROVE  <<id'[u], u>> \in byId'
    <3>1. u # t /\ id'[u] = id[u]
      BY <1>1, <2>2
    <3>2. <<id[u], u>> \in byId /\ id[u] # id[t]
      BY <1>0, <1>2, <2>2, <3>1 DEF EveryTimerIsFound
    <3> QED BY <3>1, <3>2
  <2> QED BY <2>1, <2>2
<1>4. armed' = {p[1] : p \in byId'}
  BY <1>0 DEF EveryTimerIsFound
<1>5. \A u \in WinTimers : id'[u] # 0 => u \in living'
  BY <1>0, <1>1 DEF EveryTimerIsFound
<1> QED BY <1>0, <1>3, <1>4, <1>5 DEF EveryTimerIsFound

(***************************************************************************)
(* Every step keeps the agreement.                                         *)
(***************************************************************************)
LEMMA ArmStep ==
    ASSUME ZeroIsNoId, Win32TimersAgree, NEW t \in WinTimers, Arm(t), t \in living,
           living' = living, running' \in [WinTimers -> BOOLEAN], running'[t],
           \A u \in WinTimers \ {t} : running'[u] = running[u], emitted' = {}
    PROVE  Win32TimersAgree'
<1> USE DEF Win32TimersAgree
<1>1. CASE \E i \in Ids \ armed :
              /\ id[t] = 0 /\ id' = [id EXCEPT ![t] = i] /\ armed' = armed \cup {i}
              /\ byId' = {p \in byId : p[1] # i} \cup {<<i, t>>} /\ refused' = refused \ {t}
  <2>1. PICK i \in Ids \ armed :
              /\ id[t] = 0 /\ id' = [id EXCEPT ![t] = i] /\ armed' = armed \cup {i}
              /\ byId' = {p \in byId : p[1] # i} \cup {<<i, t>>} /\ refused' = refused \ {t}
    BY <1>1
  <2>2. WtTypeOK' /\ EveryTimerIsFound'
    BY <2>1, ArmKeeps
  <2>3. \A u \in WinTimers : id'[u] = IF u = t THEN i ELSE id[u]
    BY <2>1 DEF WtTypeOK
  <2>4. RunningIsArmed'
    BY <2>1, <2>3 DEF RunningIsArmed, ZeroIsNoId
  <2> QED BY <2>2, <2>4 DEF OnlyRunningTimesOut
<1>2. CASE id[t] = 0 /\ refused' = refused \cup {t} /\ UNCHANGED <<id, byId, armed>>
  BY <1>2 DEF WtTypeOK, EveryTimerIsFound, RunningIsArmed, OnlyRunningTimesOut
<1>3. CASE id[t] # 0 /\ UNCHANGED <<id, byId, armed, refused>>
  BY <1>3 DEF WtTypeOK, EveryTimerIsFound, RunningIsArmed, OnlyRunningTimesOut
<1> QED BY <1>1, <1>2, <1>3 DEF Arm

LEMMA DisarmStep ==
    ASSUME ZeroIsNoId, Win32TimersAgree, NEW t \in WinTimers, Disarm(t),
           living' \subseteq living, living \ {t} \subseteq living',
           running' \in [WinTimers -> BOOLEAN], t \in living' => ~running'[t],
           \A u \in WinTimers \ {t} : running'[u] = running[u], emitted' = {}
    PROVE  Win32TimersAgree'
<1> USE DEF Win32TimersAgree
<1>1. WtTypeOK' /\ EveryTimerIsFound'
  BY DisarmKeeps DEF WtTypeOK
<1>2. \A u \in WinTimers : id'[u] = IF u = t THEN 0 ELSE id[u]
  BY DEF Disarm, WtTypeOK
<1>3. RunningIsArmed'
  BY <1>2 DEF RunningIsArmed, Disarm
<1> QED BY <1>1, <1>3 DEF OnlyRunningTimesOut

LEMMA Win32TimerStep ==
    ZeroIsNoId /\ Win32TimersAgree /\ [WtNext]_wtVars => Win32TimersAgree'
<1> SUFFICES ASSUME ZeroIsNoId, Win32TimersAgree, [WtNext]_wtVars
             PROVE  Win32TimersAgree'
  OBVIOUS
<1>0. WtTypeOK /\ EveryTimerIsFound /\ RunningIsArmed /\ OnlyRunningTimesOut
  BY DEF Win32TimersAgree
<1>1. ASSUME NEW t \in WinTimers, MakeTimer(t)
      PROVE  Win32TimersAgree'
  <2>1. id[t] = 0
    BY <1>0, <1>1 DEF MakeTimer, EveryTimerIsFound
  <2>2. id' = id
    BY <1>0, <1>1, <2>1 DEF MakeTimer, WtTypeOK
  <2> QED
    BY <1>0, <1>1, <2>1, <2>2
    DEF MakeTimer, Win32TimersAgree, WtTypeOK, EveryTimerIsFound, RunningIsArmed,
        OnlyRunningTimesOut
<1>2. ASSUME NEW t \in WinTimers, SetRunning(t)
      PROVE  Win32TimersAgree'
  <2>1. /\ t \in living /\ living' = living /\ emitted' = {}
        /\ running' \in [WinTimers -> BOOLEAN] /\ running'[t] = ~running[t]
        /\ \A u \in WinTimers \ {t} : running'[u] = running[u]
    BY <1>0, <1>2 DEF SetRunning, WtTypeOK
  <2>2. CASE running[t]
    BY <1>2, <2>1, <2>2, DisarmStep DEF SetRunning
  <2>3. CASE ~running[t]
    BY <1>2, <2>1, <2>3, ArmStep DEF SetRunning
  <2> QED BY <2>2, <2>3
<1>3. ASSUME NEW t \in WinTimers, SetInterval(t)
      PROVE  Win32TimersAgree'
  BY <1>0, <1>3, ArmStep DEF SetInterval, WtTypeOK
<1>4. ASSUME NEW t \in WinTimers, EndTimer(t)
      PROVE  Win32TimersAgree'
  <2>1. CASE id[t] # 0
    BY <1>0, <1>4, <2>1, DisarmStep DEF EndTimer, WtTypeOK
  <2>2. CASE id[t] = 0
    BY <1>0, <1>4, <2>2
    DEF EndTimer, Win32TimersAgree, WtTypeOK, EveryTimerIsFound, RunningIsArmed,
        OnlyRunningTimesOut
  <2> QED BY <2>1, <2>2
<1>5. CASE Callback
  <2>1. PICK i \in armed : emitted' = {p[2] : p \in {p \in byId : p[1] = i}}
    BY <1>5 DEF Callback
  <2>2. \A p \in byId : p[2] \in living /\ running[p[2]]
    BY <1>0 DEF WtTypeOK, EveryTimerIsFound, RunningIsArmed
  <2>3. OnlyRunningTimesOut'
    BY <1>5, <2>1, <2>2 DEF Callback, OnlyRunningTimesOut
  <2> QED
    BY <1>0, <1>5, <2>3
    DEF Callback, Win32TimersAgree, WtTypeOK, EveryTimerIsFound, RunningIsArmed
<1>6. CASE UNCHANGED wtVars
  BY <1>0, <1>6
  DEF wtVars, Win32TimersAgree, WtTypeOK, EveryTimerIsFound, RunningIsArmed,
      OnlyRunningTimesOut
<1> QED BY <1>1, <1>2, <1>3, <1>4, <1>5, <1>6 DEF WtNext

(* Whatever identifiers the system gives and however often SetTimer fails, *)
(* a timer of the system is the one of a live Timer that runs and the      *)
(* callback finds it; no other timer times out (arm, disarm, callback).    *)
THEOREM Win32TimersAreRight ==
    ASSUME ZeroIsNoId
    PROVE  WtSpec => []Win32TimersAgree
<1>1. WtInit => Win32TimersAgree
  BY DEF WtInit, Win32TimersAgree, WtTypeOK, EveryTimerIsFound, RunningIsArmed,
         OnlyRunningTimesOut
<1>2. Win32TimersAgree /\ [WtNext]_wtVars => Win32TimersAgree'
  BY Win32TimerStep
<1> QED BY <1>1, <1>2, PTL DEF WtSpec
-----------------------------------------------------------------------------
(***************************************************************************)
(* Erasing a place keeps the other places, in their order.                 *)
(***************************************************************************)
LEMMA RemoveAtPlaces ==
    ASSUME NEW E, NEW q \in Seq(E), NEW i \in 1..Len(q)
    PROVE  /\ RemoveAt(q, i) \in Seq(E)
           /\ Len(RemoveAt(q, i)) = Len(q) - 1
           /\ \A k \in 1..(Len(q) - 1) :
                 RemoveAt(q, i)[k] = IF k < i THEN q[k] ELSE q[k + 1]
<1> DEFINE a == SubSeq(q, 1, i - 1)
           b == SubSeq(q, i + 1, Len(q))
<1>1. Len(q) \in Nat /\ \A k \in 1..Len(q) : q[k] \in E
  BY LenProperties
<1>2. a \in Seq(E) /\ Len(a) = i - 1 /\ \A k \in 1..(i - 1) : a[k] = q[k]
  BY <1>1, SubSeqProperties
<1>3. b \in Seq(E) /\ Len(b) = Len(q) - i /\ \A k \in 1..(Len(q) - i) : b[k] = q[k + i]
  BY <1>1, SubSeqProperties
<1>4. RemoveAt(q, i) = a \o b
  BY DEF RemoveAt
<1> HIDE DEF a, b
<1>5. Len(a) + Len(b) = Len(q) - 1
  BY <1>1, <1>2, <1>3
<1>6. /\ a \o b \in Seq(E) /\ Len(a \o b) = Len(q) - 1
      /\ \A k \in 1..(Len(q) - 1) : (a \o b)[k] = IF k <= Len(a) THEN a[k] ELSE b[k - Len(a)]
  <2>1. /\ a \o b \in Seq(E) /\ Len(a \o b) = Len(a) + Len(b)
        /\ \A k \in 1..(Len(a) + Len(b)) :
              (a \o b)[k] = IF k <= Len(a) THEN a[k] ELSE b[k - Len(a)]
    BY <1>2, <1>3, ConcatProperties
  <2> QED BY <1>5, <2>1
<1>7. ASSUME NEW k \in 1..(Len(q) - 1)
      PROVE  (a \o b)[k] = IF k < i THEN q[k] ELSE q[k + 1]
  <2>1. CASE k < i
    BY <1>1, <1>2, <1>6, <2>1
  <2>2. CASE ~(k < i)
    <3>1. k - (i - 1) \in 1..(Len(q) - i) /\ k - (i - 1) + i = k + 1 /\ ~(k <= Len(a))
      BY <1>1, <1>2, <2>2
    <3> QED BY <1>1, <1>2, <1>3, <1>6, <2>2, <3>1
  <2> QED BY <2>1, <2>2
<1> QED BY <1>4, <1>6, <1>7

(***************************************************************************)
(* Vectors in which nothing stands twice: how many stand in them, adding   *)
(* at the end and erasing.                                                 *)
(***************************************************************************)
Once(q) == \A i, j \in DOMAIN q : q[i] = q[j] => i = j

LEMMA OnceCounts ==
    ASSUME NEW E, NEW q \in Seq(E), Once(q)
    PROVE  IsFiniteSet(Members(q)) /\ Cardinality(Members(q)) = Len(q)
<1>1. Len(q) \in Nat /\ DOMAIN q = 1..Len(q) /\ q = [i \in 1..Len(q) |-> q[i]]
  BY LenProperties
<1>2. q \in [1..Len(q) -> Members(q)]
  BY <1>1 DEF Members
<1>3. q \in Bijection(1..Len(q), Members(q))
  BY <1>1, <1>2 DEF Bijection, Injection, Surjection, IsInjective, Members, Once
<1>4. ExistsBijection(1..Len(q), Members(q))
  BY <1>3 DEF ExistsBijection
<1> QED BY <1>1, <1>4, FS_NatBijection, FS_CountingElements

LEMMA AppendOnce ==
    ASSUME NEW E, NEW q \in Seq(E), NEW e \in E, Once(q), e \notin Members(q)
    PROVE  /\ Append(q, e) \in Seq(E) /\ Once(Append(q, e))
           /\ Members(Append(q, e)) = Members(q) \cup {e}
<1>1. Len(q) \in Nat /\ DOMAIN q = 1..Len(q)
  BY LenProperties
<1>2. /\ Append(q, e) \in Seq(E) /\ DOMAIN Append(q, e) = 1..(Len(q) + 1)
      /\ \A i \in 1..Len(q) : Append(q, e)[i] = q[i]
      /\ Append(q, e)[Len(q) + 1] = e
  BY <1>1, AppendProperties
<1>3. \A i \in 1..Len(q) : q[i] # e
  BY <1>1 DEF Members
<1>4. \A i \in 1..(Len(q) + 1) : i \in 1..Len(q) \/ i = Len(q) + 1
  BY <1>1
<1>5. Once(Append(q, e))
  BY <1>1, <1>2, <1>3, <1>4 DEF Once
<1>6. Members(Append(q, e)) = Members(q) \cup {e}
  <2> DEFINE t == Append(q, e)
  <2>1. \A i \in DOMAIN t : t[i] \in Members(q) \cup {e}
    BY <1>1, <1>2, <1>4 DEF Members
  <2>2. \A i \in DOMAIN q : i \in DOMAIN t /\ t[i] = q[i]
    BY <1>1, <1>2
  <2>3. Len(q) + 1 \in DOMAIN t /\ t[Len(q) + 1] = e
    BY <1>1, <1>2
  <2> HIDE DEF t
  <2>4. Members(t) \subseteq Members(q) \cup {e}
    BY <2>1 DEF Members
  <2>5. Members(q) \subseteq Members(t)
    BY <2>2 DEF Members
  <2>6. e \in Members(t)
    BY <2>3 DEF Members
  <2> QED BY <2>4, <2>5, <2>6 DEF t
<1> QED BY <1>2, <1>5, <1>6

LEMMA WithoutOnce ==
    ASSUME NEW E, NEW q \in Seq(E), NEW e, Once(q), e \in Members(q)
    PROVE  /\ Without(q, e) \in Seq(E) /\ Once(Without(q, e))
           /\ Members(Without(q, e)) = Members(q) \ {e}
<1>1. Len(q) \in Nat /\ DOMAIN q = 1..Len(q)
  BY LenProperties
<1> DEFINE First(i) == q[i] = e /\ \A j \in 1..i - 1 : q[j] # e
           gone == CHOOSE i \in DOMAIN q : First(i)
           t == Without(q, e)
<1>2. \E i \in DOMAIN q : First(i)
  <2>1. PICK i \in DOMAIN q : q[i] = e
    BY DEF Members
  <2>2. \A j \in 1..i - 1 : j \in DOMAIN q /\ j # i
    BY <1>1
  <2> QED BY <2>1, <2>2 DEF Once
<1>3. gone \in 1..Len(q) /\ q[gone] = e
  BY <1>1, <1>2
<1>4. t = RemoveAt(q, gone)
  BY DEF Without
<1> HIDE DEF gone, t, First
<1>5. /\ t \in Seq(E) /\ Len(t) = Len(q) - 1 /\ DOMAIN t = 1..(Len(q) - 1)
      /\ \A k \in 1..(Len(q) - 1) : t[k] = IF k < gone THEN q[k] ELSE q[k + 1]
  <2>1. /\ t \in Seq(E) /\ Len(t) = Len(q) - 1
        /\ \A k \in 1..(Len(q) - 1) : t[k] = IF k < gone THEN q[k] ELSE q[k + 1]
    BY <1>3, <1>4, RemoveAtPlaces
  <2> QED BY <2>1, LenProperties
<1> DEFINE old(k) == IF k < gone THEN k ELSE k + 1
<1>6. \A k \in DOMAIN t : old(k) \in DOMAIN q /\ old(k) # gone /\ t[k] = q[old(k)]
  BY <1>1, <1>3, <1>5
<1>7. \A k, l \in DOMAIN t : old(k) = old(l) => k = l
  BY <1>1, <1>3, <1>5
<1>8. \A i \in DOMAIN q \ {gone} : \E k \in DOMAIN t : old(k) = i
  <2> TAKE i \in DOMAIN q \ {gone}
  <2>1. CASE i < gone
    BY <1>1, <1>3, <1>5, <2>1
  <2>2. CASE ~(i < gone)
    <3>1. i - 1 \in DOMAIN t /\ old(i - 1) = i
      BY <1>1, <1>3, <1>5, <2>2
    <3> QED BY <3>1
  <2> QED BY <2>1, <2>2
<1> HIDE DEF old
<1>9. Once(t)
  BY <1>6, <1>7 DEF Once
<1>10. Members(t) = Members(q) \ {e}
  <2>1. \A k \in DOMAIN t : t[k] \in Members(q) /\ t[k] # e
    BY <1>1, <1>3, <1>6 DEF Members, Once
  <2>2. ASSUME NEW x \in Members(q), x # e
        PROVE  x \in Members(t)
    <3>1. PICK i \in DOMAIN q \ {gone} : q[i] = x
      BY <1>3, <2>2 DEF Members
    <3>2. PICK k \in DOMAIN t : old(k) = i
      BY <1>8
    <3> QED BY <1>6, <3>1, <3>2 DEF Members
  <2> QED BY <2>1, <2>2 DEF Members
<1> QED BY <1>5, <1>9, <1>10 DEF t

(***************************************************************************)
(* What the integration has bound: an object of each kind at most, those   *)
(* of the core alive and announced until the integration gives up; the     *)
(* vectors hold the seats and the outputs announced, each one once.        *)
(***************************************************************************)
Bindings == [global : Globals, alive : BOOLEAN]

BoundTyped ==
    /\ bound \in [Singles -> SUBSET Bindings]
    /\ \A k \in Singles : bound[k] = {} \/ \E b \in bound[k] : bound[k] = {b}
    /\ \A k \in Singles : \A b \in bound[k] : b.global.kind = k

CoreIsAnnounced ==
    phase # "aborted" =>
        \A k \in Core : \A b \in bound[k] : b.alive /\ b.global \in announced

VectorsFollow ==
    /\ inputs \in Seq(Globals) /\ outputs \in Seq(Globals)
    /\ Once(inputs) /\ Once(outputs)
    /\ Members(inputs) = {g \in announced : g.kind = "seat"}
    /\ Members(outputs) = {g \in announced : g.kind = "output"}

GlobalsInv ==
    /\ phase \in {"connect", "init", "running", "aborted"} /\ announced \subseteq Globals
    /\ BoundTyped /\ CoreIsAnnounced /\ VectorsFollow
    /\ phase = "running" => \A k \in Core : bound[k] # {}
    /\ objects \in [Managers -> SUBSET Members(inputs)] /\ ManagersOutliveTheirs
    /\ device = {} \/ \E g \in device : device = {g}

LEMMA GlobalsInvSuffices == GlobalsInv => GlobalsAgree
<1> SUFFICES ASSUME GlobalsInv PROVE GlobalsAgree
  OBVIOUS
<1> USE DEF GlobalsInv
<1>1. \A S : S = {} \/ (\E x \in S : S = {x}) => Cardinality(S) <= 1
  <2> TAKE S
  <2>1. Cardinality({}) = 0 /\ \A x : Cardinality({x}) = 1
    BY FS_EmptySet, FS_Singleton
  <2>2. CASE S = {}
    BY <2>1, <2>2
  <2>3. ASSUME NEW x, S = {x}
        PROVE  Cardinality(S) <= 1
    <3>1. Cardinality(S) = 1
      BY <2>1, <2>3
    <3> QED BY <3>1
  <2> QED BY <2>2, <2>3
<1>2. WgTypeOK
  <2>1. \A k \in Singles : Cardinality(bound[k]) <= 1
    BY <1>1 DEF BoundTyped
  <2>2. Cardinality(device) <= 1
    BY <1>1
  <2>3. \A k \in Singles : \A b \in bound[k] : b.global.kind = k /\ b.alive \in BOOLEAN
    BY DEF BoundTyped, Bindings
  <2>4. /\ \A i \in DOMAIN inputs : inputs[i].kind = "seat"
        /\ \A i \in DOMAIN outputs : outputs[i].kind = "output"
    BY DEF VectorsFollow, Members
  <2> QED BY <2>1, <2>2, <2>3, <2>4 DEF WgTypeOK
<1>3. RunsWithCore
  BY DEF CoreIsAnnounced, RunsWithCore
<1>4. FollowsServer
  <2>1. /\ IsFiniteSet(Members(inputs)) /\ Cardinality(Members(inputs)) = Len(inputs)
        /\ IsFiniteSet(Members(outputs)) /\ Cardinality(Members(outputs)) = Len(outputs)
    BY OnceCounts DEF VectorsFollow
  <2>2. Members(inputs) \cap Members(outputs) = {}
    BY DEF VectorsFollow
  <2>3. Cardinality(Members(inputs) \cup Members(outputs)) =
           Cardinality(Members(inputs)) + Cardinality(Members(outputs))
           - Cardinality(Members(inputs) \cap Members(outputs))
    BY <2>1, FS_Union
  <2>4. Cardinality(Members(inputs) \cap Members(outputs)) = 0
    BY <2>2, FS_EmptySet
  <2>5. Len(inputs) \in Nat /\ Len(outputs) \in Nat
    BY LenProperties DEF VectorsFollow
  <2>6. Len(inputs) + Len(outputs) = Cardinality(Members(inputs) \cup Members(outputs))
    BY <2>1, <2>3, <2>4, <2>5
  <2> QED BY <2>6 DEF FollowsServer, VectorsFollow
<1> QED BY <1>2, <1>3, <1>4 DEF GlobalsAgree

(***************************************************************************)
(* One kind is bound anew.                                                 *)
(***************************************************************************)
LEMMA BindKeeps ==
    ASSUME BoundTyped, NEW kind, NEW b \in Bindings, b.global.kind = kind,
           bound' = [bound EXCEPT ![kind] = {b}]
    PROVE  /\ BoundTyped'
           /\ \A k \in Singles : bound'[k] = IF k = kind THEN {b} ELSE bound[k]
<1>1. \A k \in Singles : bound'[k] = IF k = kind THEN {b} ELSE bound[k]
  BY DEF BoundTyped
<1>2. bound' \in [Singles -> SUBSET Bindings]
  <2>1. {b} \in SUBSET Bindings
    OBVIOUS
  <2> QED BY <2>1 DEF BoundTyped
<1>3. ASSUME NEW k \in Singles
      PROVE  /\ bound'[k] = {} \/ \E c \in bound'[k] : bound'[k] = {c}
             /\ \A c \in bound'[k] : c.global.kind = k
  <2>1. CASE k = kind
    <3>1. bound'[k] = {b}
      BY <1>1, <2>1
    <3> QED BY <2>1, <3>1, Zenon
  <2>2. CASE k # kind
    <3>1. bound'[k] = bound[k]
      BY <1>1, <2>2
    <3>2. /\ bound[k] = {} \/ \E c \in bound[k] : bound[k] = {c}
          /\ \A c \in bound[k] : c.global.kind = k
      BY DEF BoundTyped
    <3> QED BY <3>1, <3>2, Zenon
  <2> QED BY <2>1, <2>2
<1>4. BoundTyped'
  BY <1>2, <1>3 DEF BoundTyped
<1> QED BY <1>1, <1>4

(***************************************************************************)
(* A global is announced, and one goes.                                    *)
(***************************************************************************)
LEMMA AnnounceKeeps ==
    ASSUME GlobalsInv, NEW g \in Globals, Global(g)
    PROVE  GlobalsInv'
<1> USE DEF GlobalsInv
<1>1. /\ g \notin announced /\ announced' = announced \cup {g} /\ UNCHANGED <<phase, objects>>
      /\ phase \in {"init", "running"}
      /\ bound' = IF g.kind \in Singles
                  THEN [bound EXCEPT ![g.kind] = {[global |-> g, alive |-> TRUE]}] ELSE bound
      /\ inputs' = IF g.kind = "seat" THEN Append(inputs, g) ELSE inputs
      /\ outputs' = IF g.kind = "output" THEN Append(outputs, g) ELSE outputs
      /\ device' = device \/ \E h : device' = {h}
  BY DEF Global
<1> DEFINE b == [global |-> g, alive |-> TRUE]
<1>2. b \in Bindings /\ b.global = g /\ b.alive = TRUE
  BY DEF Bindings
<1>3. /\ BoundTyped'
      /\ \A k \in Singles : bound'[k] = IF k = g.kind THEN {b} ELSE bound[k]
  <2>1. CASE g.kind \in Singles
    <3>1. bound' = [bound EXCEPT ![g.kind] = {b}]
      BY <1>1, <2>1
    <3> HIDE DEF b
    <3> QED BY <1>2, <3>1, BindKeeps
  <2>2. CASE g.kind \notin Singles
    BY <1>1, <2>2 DEF BoundTyped
  <2> QED BY <2>1, <2>2
<1> HIDE DEF b
<1>5. \A k \in Core : k \in Singles
  BY DEF Singles
<1>6. CoreIsAnnounced' /\ (phase' = "running" => \A k \in Core : bound'[k] # {})
  <2>1. \A k \in Core : bound'[k] = {b} \/ bound'[k] = bound[k]
    BY <1>3, <1>5
  <2>2. b.alive /\ b.global \in announced'
    BY <1>1, <1>2
  <2>3. \A k \in Core : \A c \in bound[k] : c.alive /\ c.global \in announced'
    BY <1>1 DEF CoreIsAnnounced
  <2>4. \A k \in Core : \A c \in bound'[k] : c.alive /\ c.global \in announced'
    BY <2>1, <2>2, <2>3, Zenon
  <2>5. phase' = "running" => \A k \in Core : bound'[k] # {}
    BY <1>1, <2>1
  <2> QED BY <2>4, <2>5 DEF CoreIsAnnounced
<1>7. ManagersOutliveTheirs'
  <2>1. \A k \in Managers : bound'[k] = {b} \/ bound'[k] = bound[k]
    BY <1>3 DEF Singles
  <2>2. \A k \in Managers : Alive(k) => Alive(k)'
    BY <1>2, <2>1 DEF Alive
  <2> QED BY <1>1, <2>2 DEF ManagersOutliveTheirs
<1>8. g \notin Members(inputs) /\ g \notin Members(outputs)
  BY <1>1 DEF VectorsFollow
<1>9. /\ inputs' \in Seq(Globals) /\ Once(inputs')
      /\ Members(inputs') = IF g.kind = "seat" THEN Members(inputs) \cup {g} ELSE Members(inputs)
  <2>1. CASE g.kind = "seat"
    <3>1. inputs' = Append(inputs, g) /\ inputs \in Seq(Globals) /\ Once(inputs)
      BY <1>1, <2>1 DEF VectorsFollow
    <3> QED BY <1>8, <2>1, <3>1, AppendOnce
  <2>2. CASE g.kind # "seat"
    BY <1>1, <2>2 DEF VectorsFollow
  <2> QED BY <2>1, <2>2
<1>10. /\ outputs' \in Seq(Globals) /\ Once(outputs')
       /\ Members(outputs') = IF g.kind = "output" THEN Members(outputs) \cup {g}
                              ELSE Members(outputs)
  <2>1. CASE g.kind = "output"
    <3>1. outputs' = Append(outputs, g) /\ outputs \in Seq(Globals) /\ Once(outputs)
      BY <1>1, <2>1 DEF VectorsFollow
    <3> QED BY <1>8, <2>1, <3>1, AppendOnce
  <2>2. CASE g.kind # "output"
    BY <1>1, <2>2 DEF VectorsFollow
  <2> QED BY <2>1, <2>2
<1>11. /\ Members(inputs') = {h \in announced' : h.kind = "seat"}
       /\ Members(outputs') = {h \in announced' : h.kind = "output"}
  BY <1>1, <1>9, <1>10 DEF VectorsFollow
<1>12. VectorsFollow'
  BY <1>9, <1>10, <1>11 DEF VectorsFollow
<1>13. objects' \in [Managers -> SUBSET Members(inputs')]
  BY <1>1, <1>9
<1>14. device' = {} \/ \E h \in device' : device' = {h}
  BY <1>1
<1> QED BY <1>1, <1>3, <1>6, <1>7, <1>12, <1>13, <1>14

LEMMA RemoveKeeps ==
    ASSUME GlobalsInv, NEW g \in Globals, GlobalRemove(g)
    PROVE  GlobalsInv'
<1> USE DEF GlobalsInv
<1>1. g \in announced /\ announced' = announced \ {g} /\ phase \in {"init", "running"}
  BY DEF GlobalRemove
<1>2. ASSUME bound' = bound, phase' = phase, g.kind \in Core => ~IsBound(g)
      PROVE  /\ BoundTyped' /\ CoreIsAnnounced'
             /\ phase' = "running" => \A k \in Core : bound'[k] # {}
  <2>1. ASSUME NEW k \in Core, NEW b \in bound[k], b.global = g
        PROVE  FALSE
    <3>1. k \in Singles /\ g.kind = k
      BY <2>1 DEF BoundTyped, Singles
    <3> QED BY <1>2, <2>1, <3>1 DEF IsBound
  <2> QED BY <1>1, <1>2, <2>1 DEF BoundTyped, CoreIsAnnounced
<1>3. ASSUME inputs' = inputs, outputs' = outputs, g \notin Members(inputs) \cup Members(outputs)
      PROVE  VectorsFollow'
  BY <1>1, <1>3 DEF VectorsFollow
<1>4. CASE RemoveCore(g)
  <2>1. /\ phase' = "aborted" /\ UNCHANGED <<bound, inputs, outputs, objects, device>>
        /\ g.kind \in Core
    BY <1>4 DEF RemoveCore
  <2>2. g \notin Members(inputs) \cup Members(outputs)
    BY <2>1 DEF VectorsFollow, Core
  <2>3. VectorsFollow'
    BY <1>3, <2>1, <2>2
  <2> QED
    BY <1>1, <2>1, <2>3 DEF BoundTyped, CoreIsAnnounced, ManagersOutliveTheirs, Alive
<1>5. CASE RemoveSeat(g)
  <2>1. /\ g \in Members(inputs) /\ inputs' = Without(inputs, g)
        /\ objects' = [k \in Managers |-> objects[k] \ {g}]
        /\ UNCHANGED <<phase, bound, outputs, device>>
    BY <1>5 DEF RemoveSeat
  <2>2. /\ inputs' \in Seq(Globals) /\ Once(inputs') /\ Members(inputs') = Members(inputs) \ {g}
    BY <2>1, WithoutOnce DEF VectorsFollow
  <2>3. g.kind = "seat"
    BY <2>1 DEF VectorsFollow
  <2>4. VectorsFollow'
    BY <1>1, <2>1, <2>2, <2>3 DEF VectorsFollow
  <2>5. ~(g.kind \in Core)
    BY <2>3 DEF Core
  <2> QED BY <1>1, <1>2, <2>1, <2>2, <2>4, <2>5 DEF ManagersOutliveTheirs, Alive
<1>6. CASE RemoveOutput(g)
  <2>1. /\ g \in Members(outputs) /\ outputs' = Without(outputs, g)
        /\ UNCHANGED <<phase, bound, inputs, objects, device>>
    BY <1>6 DEF RemoveOutput
  <2>2. /\ outputs' \in Seq(Globals) /\ Once(outputs')
        /\ Members(outputs') = Members(outputs) \ {g}
    BY <2>1, WithoutOnce DEF VectorsFollow
  <2>3. g.kind = "output"
    BY <2>1 DEF VectorsFollow
  <2>4. VectorsFollow'
    BY <1>1, <2>1, <2>2, <2>3 DEF VectorsFollow
  <2>5. ~(g.kind \in Core)
    BY <2>3 DEF Core
  <2> QED BY <1>1, <1>2, <2>1, <2>2, <2>4, <2>5 DEF ManagersOutliveTheirs, Alive
<1>7. CASE RemoveManager(g)
  <2> DEFINE b == [global |-> g, alive |-> FALSE]
  <2>1. /\ g.kind \in Managers /\ bound' = [bound EXCEPT ![g.kind] = {b}]
        /\ objects' = [objects EXCEPT ![g.kind] = {}]
        /\ UNCHANGED <<phase, inputs, outputs, device>>
    BY <1>7 DEF RemoveManager
  <2>2. b \in Bindings /\ b.global = g
    BY DEF Bindings
  <2>3. g.kind \in Singles \ Core /\ g.kind \notin {"seat", "output"}
    BY <2>1 DEF Managers, Singles, Core
  <2> HIDE DEF b
  <2>4. /\ BoundTyped'
        /\ \A k \in Singles : bound'[k] = IF k = g.kind THEN {b} ELSE bound[k]
    BY <2>1, <2>2, BindKeeps
  <2>7. \A k \in Core : bound'[k] = bound[k] /\ \A c \in bound[k] : c.global # g
    <3> TAKE k \in Core
    <3>1. k \in Singles /\ k # g.kind
      BY <2>3 DEF Singles
    <3> QED BY <2>4, <3>1 DEF BoundTyped
  <2>8. CoreIsAnnounced' /\ (phase' = "running" => \A k \in Core : bound'[k] # {})
    BY <1>1, <2>1, <2>7 DEF CoreIsAnnounced
  <2>9. VectorsFollow'
    BY <1>3, <2>1, <2>3 DEF VectorsFollow
  <2>10. ManagersOutliveTheirs'
    <3> SUFFICES ASSUME NEW k \in Managers, objects'[k] # {}
                 PROVE  Alive(k)'
      BY DEF ManagersOutliveTheirs
    <3>1. k # g.kind /\ objects[k] # {} /\ k \in Singles
      BY <2>1 DEF Singles
    <3>2. bound'[k] = bound[k]
      BY <2>4, <3>1
    <3> QED BY <3>1, <3>2 DEF ManagersOutliveTheirs, Alive
  <2> QED BY <1>1, <2>1, <2>4, <2>8, <2>9, <2>10
<1>8. CASE RemoveIgnored(g)
  <2>1. /\ UNCHANGED <<phase, bound, inputs, outputs, objects, device>>
        /\ g \notin Members(inputs) \cup Members(outputs) /\ (g.kind \in Core => ~IsBound(g))
    BY <1>8 DEF RemoveIgnored
  <2>2. VectorsFollow'
    BY <1>3, <2>1
  <2> QED BY <1>1, <1>2, <2>1, <2>2 DEF ManagersOutliveTheirs, Alive
<1> QED BY <1>4, <1>5, <1>6, <1>7, <1>8 DEF GlobalRemove

LEMMA GlobalsStep == GlobalsInv /\ [WgNext]_wgVars => GlobalsInv'
<1> SUFFICES ASSUME GlobalsInv, [WgNext]_wgVars PROVE GlobalsInv'
  OBVIOUS
<1>1. ASSUME UNCHANGED <<announced, bound, inputs, outputs, device>>, ManagersOutliveTheirs',
             objects' \in [Managers -> SUBSET Members(inputs)],
             phase' \in {"connect", "init", "running", "aborted"},
             phase = "aborted" => phase' = "aborted",
             phase' = "running" => \A k \in Core : bound[k] # {}
      PROVE  GlobalsInv'
  BY <1>1 DEF GlobalsInv, BoundTyped, CoreIsAnnounced, VectorsFollow
<1>2. CASE Connect
  BY <1>1, <1>2 DEF Connect, GlobalsInv, ManagersOutliveTheirs, Alive
<1>3. CASE InitChecks
  BY <1>1, <1>3 DEF InitChecks, GlobalsInv, ManagersOutliveTheirs, Alive
<1>4. ASSUME NEW g \in Globals, NEW k \in Managers, Obtain(k, g)
      PROVE  GlobalsInv'
  <2>1. /\ g \in Members(inputs) /\ Alive(k) /\ objects' = [objects EXCEPT ![k] = objects[k] \cup {g}]
        /\ objects \in [Managers -> SUBSET Members(inputs)]
        /\ UNCHANGED <<phase, announced, bound, inputs, outputs, device>>
    BY <1>4 DEF Obtain, GlobalsInv
  <2>2. objects' \in [Managers -> SUBSET Members(inputs)]
    BY <2>1
  <2>3. \A l \in Managers : l # k => objects'[l] = objects[l]
    BY <2>1
  <2>4. ManagersOutliveTheirs'
    BY <2>1, <2>3 DEF ManagersOutliveTheirs, Alive, GlobalsInv
  <2> QED BY <1>1, <2>1, <2>2, <2>4 DEF GlobalsInv
<1>5. ASSUME NEW g \in Globals, NEW kinds, GiveBack(kinds, g)
      PROVE  GlobalsInv'
  <2>1. /\ \A k \in Managers : objects'[k] \subseteq objects[k]
        /\ objects' \in [Managers -> SUBSET Members(inputs)]
        /\ UNCHANGED <<phase, announced, bound, inputs, outputs, device>>
    BY <1>5 DEF GiveBack, GlobalsInv
  <2>2. ManagersOutliveTheirs'
    BY <2>1 DEF ManagersOutliveTheirs, Alive, GlobalsInv
  <2> QED BY <1>1, <2>1, <2>2 DEF GlobalsInv
<1>6. CASE UNCHANGED wgVars
  BY <1>1, <1>6 DEF wgVars, GlobalsInv, ManagersOutliveTheirs, Alive
<1> QED
  BY <1>2, <1>3, <1>4, <1>5, <1>6, AnnounceKeeps, RemoveKeeps DEF WgNext

(* In whatever order the server announces and removes globals, an          *)
(* integration that runs has a compositor, a shell and shared memory that  *)
(* are announced, its vectors hold the seats and outputs announced, each   *)
(* once, and no pointer keeps a relative pointer or a lock of a manager     *)
(* that was destroyed (global, globalRemove, init).                        *)
THEOREM GlobalsAreRight == WgSpec => []GlobalsAgree
<1>1. WgInit => GlobalsInv
  <2> SUFFICES ASSUME WgInit PROVE GlobalsInv
    OBVIOUS
  <2>1. Members(<<>>) = {}
    BY DEF Members
  <2>2. <<>> \in Seq(Globals) /\ Once(<<>>)
    BY DEF Once
  <2> QED
    BY <2>1, <2>2 DEF WgInit, GlobalsInv, BoundTyped, CoreIsAnnounced, VectorsFollow,
       ManagersOutliveTheirs, Singles
<1> QED BY <1>1, GlobalsStep, GlobalsInvSuffices, PTL DEF WgSpec
-----------------------------------------------------------------------------
(***************************************************************************)
(* Between the look at the queue and the end of the sleep every posted     *)
(* event has its wake-up, sent or to be sent: only an ended sleep takes    *)
(* the signal back, and the queue is processed after that.                 *)
(***************************************************************************)
WaitInv == WaitTypeOK /\ NoPostSleptOver

LEMMA WaitStep == WaitInv /\ [WaitNext]_waitVars => WaitInv'
<1> SUFFICES ASSUME WaitInv, [WaitNext]_waitVars PROVE WaitInv'
  OBVIOUS
<1> USE BoundsAreNumbers DEF WaitInv, WaitTypeOK, NoPostSleptOver
<1>1. CASE Posts
  BY <1>1 DEF Posts
<1>2. CASE WakeUp
  BY <1>2 DEF WakeUp
<1>3. CASE MessageComes
  BY <1>3 DEF MessageComes
<1>4. CASE DestroySent
  BY <1>4 DEF DestroySent
<1>5. CASE ProcessPosted
  BY <1>5 DEF ProcessPosted, Goes
<1>6. CASE PeekFirst
  BY <1>6 DEF PeekFirst, Dispatches, Goes
<1>7. CASE Wait
  BY <1>7 DEF Wait, Goes
<1>8. CASE ResetEvent
  BY <1>8 DEF ResetEvent, Goes
<1>9. CASE PeekAgain
  BY <1>9 DEF PeekAgain, Dispatches, Goes
<1>10. CASE PollOnce
  <2>1. signal' = FALSE \/ signal' = signal
    BY <1>10 DEF PollOnce
  <2>2. signal \in BOOLEAN
    OBVIOUS
  <2>3. signal' \in BOOLEAN
    BY ONLY Zenon, <2>1, <2>2
  <2>4. /\ messages' = messages \/ (messages > 0 /\ messages' = messages - 1)
        /\ destroy' = destroy \/ destroy' = "requested"
    BY Zenon, <1>10 DEF PollOnce
  <2>5. messages' \in 0..MaxMessages /\ destroy' \in {"no", "sent", "requested"}
    BY <2>4
  <2>6. UNCHANGED <<system, posted, poster, quitting>> /\ loop' = "returned"
    BY <1>10 DEF PollOnce, Goes
  <2> QED BY <2>3, <2>5, <2>6
<1>11. CASE CheckDestroy
  BY <1>11 DEF CheckDestroy, Goes
<1>12. CASE UNCHANGED waitVars
  BY <1>12 DEF waitVars
<1> HIDE DEF WaitInv, WaitTypeOK, NoPostSleptOver
<1> QED
  BY <1>1, <1>2, <1>3, <1>4, <1>5, <1>6, <1>7, <1>8, <1>9, <1>10, <1>11, <1>12
  DEF WaitNext, LoopStep

LEMMA WaitStart == WaitInit => WaitInv
<1> SUFFICES ASSUME WaitInit PROVE WaitInv
  OBVIOUS
<1>1. signal \in BOOLEAN /\ quitting \in BOOLEAN
  BY Zenon DEF WaitInit
<1>2. posted \in 0..MaxPosted /\ messages \in 0..MaxMessages /\ ~(posted > 0)
  BY BoundsAreNumbers DEF WaitInit
<1> QED BY <1>1, <1>2 DEF WaitInit, WaitInv, WaitTypeOK, NoPostSleptOver
-----------------------------------------------------------------------------
(***************************************************************************)
(* The sleep of the Wayland loop: as long as it is announced as a reader,  *)
(* nobody else can finish a read; and between the flush and the sleep only *)
(* handlers of the drain loop make requests.                               *)
(***************************************************************************)
SleepInv ==
    /\ NeverSleepsOnRead
    /\ at = "prepare" => requests = 0 \/ drained

LEMMA SleepStep == SleepInv /\ [WlNext]_wlVars => SleepInv'
<1> SUFFICES ASSUME SleepInv, [WlNext]_wlVars PROVE SleepInv'
  OBVIOUS
<1> USE DEF SleepInv, NeverSleepsOnRead
<1>1. CASE EventComes \/ OtherPrepares \/ OtherReads
  BY <1>1 DEF EventComes, OtherPrepares, OtherReads
<1>2. CASE OtherFinishes
  BY <1>2 DEF OtherFinishes
<1>3. CASE MakesRequest
  BY <1>3 DEF MakesRequest
<1>4. CASE RoundTrip
  BY <1>4 DEF RoundTrip
<1>5. CASE ReadsClipboard
  BY <1>5 DEF ReadsClipboard
<1>6. CASE EndProcess \/ Flush
  BY <1>6 DEF EndProcess, Flush, Runs
<1>7. CASE Prepare
  BY <1>7 DEF Prepare, Runs
<1>8. CASE DispatchPending
  <2>1. /\ at = "prepare" /\ at' = "prepare"
        /\ requests' # requests => drained'
        /\ drained => drained'
    BY Zenon, <1>8 DEF DispatchPending, Runs
  <2> QED BY <2>1
<1>9. CASE BaseWait \/ ReadEvents \/ Dispatch
  BY <1>9 DEF BaseWait, ReadEvents, Dispatch, Runs
<1>10. CASE UNCHANGED wlVars
  BY <1>10 DEF wlVars
<1> QED
  BY <1>1, <1>2, <1>3, <1>4, <1>5, <1>6, <1>7, <1>8, <1>9, <1>10 DEF WlNext, OwnStep

LEMMA SleepStart == WlInit => SleepInv
BY DEF WlInit, SleepInv, NeverSleepsOnRead

\* A read moves events from the connection to the queue: their number is bounded.
WireInv == WlTypeOK /\ wire + queue <= MaxWire

LEMMA WireStart == WlInit => WireInv
<1> SUFFICES ASSUME WlInit PROVE WireInv
  OBVIOUS
<1>1. drained \in BOOLEAN /\ hung \in BOOLEAN
  BY Zenon DEF WlInit
<1> QED BY <1>1, WireIsBounded DEF WlInit, WireInv, WlTypeOK

LEMMA WireStep == WireInv /\ [WlNext]_wlVars => WireInv'
<1> SUFFICES ASSUME WireInv, [WlNext]_wlVars PROVE WireInv'
  OBVIOUS
<1>1. drained' \in BOOLEAN /\ hung' \in BOOLEAN
  <2>1. drained \in BOOLEAN /\ hung \in BOOLEAN
    BY Zenon DEF WireInv, WlTypeOK
  <2>2. drained' \in {drained, FALSE, drained \/ requests' # requests} /\ hung' \in {hung, TRUE}
    BY Zenon DEF WlNext, OwnStep, wlVars, EventComes, OtherPrepares, OtherReads, OtherFinishes,
       MakesRequest, RoundTrip, ReadsClipboard, BaseWait, EndProcess, Flush, Prepare,
       DispatchPending, ReadEvents, Dispatch
  <2> QED BY Zenon, <2>1, <2>2
<1>2. /\ at' \in {"process", "flush", "prepare", "asleep", "read", "dispatch"}
      /\ other' \in {"idle", "prepared", "reading"}
  BY DEF WireInv, WlTypeOK, WlNext, OwnStep, wlVars, EventComes, OtherPrepares, OtherReads,
     OtherFinishes, MakesRequest, RoundTrip, ReadsClipboard, BaseWait, EndProcess, Flush,
     Prepare, DispatchPending, ReadEvents, Dispatch, ReadAll, Runs
<1>3. requests' \in 0..MaxRequests
  BY WireIsBounded DEF WireInv, WlTypeOK, WlNext, OwnStep, wlVars, EventComes, OtherPrepares,
     OtherReads, OtherFinishes, MakesRequest, RoundTrip, ReadsClipboard, BaseWait, EndProcess,
     Flush, Prepare, DispatchPending, ReadEvents, Dispatch, MaySend
<1>4. wire' \in 0..MaxWire /\ queue' \in 0..MaxWire /\ wire' + queue' <= MaxWire
  BY WireIsBounded DEF WireInv, WlTypeOK, WlNext, OwnStep, wlVars, EventComes, OtherPrepares,
     OtherReads, OtherFinishes, MakesRequest, RoundTrip, ReadsClipboard, BaseWait, EndProcess,
     Flush, Prepare, DispatchPending, ReadEvents, Dispatch, ReadAll
<1> QED BY <1>1, <1>2, <1>3, <1>4 DEF WireInv, WlTypeOK

LEMMA SleepsAreFlushed == SleepInv => SleepsFlushed
BY DEF SleepInv, SleepsFlushed, Prepare, Runs

(* However posts, messages, wake-ups and reads of other threads interleave,*)
(* no loop sleeps over a posted event whose wake-up is not on its way, nor *)
(* over an event that was read for it, and their waits keep their types    *)
(* (waitForEventsImpl of Win32, Android and Wayland).                      *)
THEOREM NoLoopSleepsOver == WaitSpec /\ WlSpec => []NothingIsSleptOver
<1>1. WaitInv /\ SleepInv /\ WireInv => NothingIsSleptOver
  BY DEF WaitInv, SleepInv, WireInv, NothingIsSleptOver
<1> QED
  BY <1>1, WaitStart, WaitStep, SleepStart, SleepStep, WireStart, WireStep, PTL
  DEF WaitSpec, WlSpec
-----------------------------------------------------------------------------
(***************************************************************************)
(* The cursor: what is under way, q, beside the position remembered and    *)
(* the pointer.  The last move ends where the pointer is, every move of    *)
(* the hand starts where the one before ended, and the first one where the *)
(* position is that is remembered, if that is known.  Windows has at most  *)
(* one message.                                                            *)
(***************************************************************************)
EndsAt(q, there) == q # <<>> => q[Len(q)].pos = there

UnderWay(q, from, there, known) ==
    /\ q \in Seq(Move) /\ EndsAt(q, there)
    /\ known /\ q = <<>> => from = there
    /\ \A i \in 2..Len(q) : ~q[i].warp => q[i].by = q[i].pos - q[i-1].pos
    /\ q # <<>> /\ ~q[1].warp =>
          /\ \E x \in Positions : q[1].by = q[1].pos - x
          /\ known => q[1].by = q[1].pos - from
    /\ pointerSystem = "win32" => Len(q) <= 1

\* No warp comes after q[i].
NoWarpAfter(q, i) == \A j \in i+1..Len(q) : ~q[j].warp

\* Of the warps under way the last one goes to the position remembered as warped.
LastWarpKnown(q, to) ==
    \A i \in 1..Len(q) : OfAWarp(q[i]) /\ NoWarpAfter(q, i) => q[i].pos = to

CursorInv ==
    /\ CursorTypeOK /\ Len(moves) <= MaxMoves + 1
    /\ pointerSystem = "xcb" => ~raw
    /\ raw => ~counted
    /\ UnderWay(moves, previous, pointer, counted)
    /\ mode = "disabled" => LastWarpKnown(moves, warped)

LEMMA Room == \A x, y \in Positions : x - y \in -2 * Reach..2 * Reach
BY CursorAssumption DEF Positions

LEMMA EmptyMoves == Len(<<>>) = 0 /\ <<>> \in Seq(Move)
BY EmptySeq

(* A move joins those under way: of the hand, or a warp.                   *)
LEMMA MoveJoins ==
    ASSUME NEW q \in Seq(Move), NEW from \in Positions, NEW there \in Positions,
           NEW known \in BOOLEAN, NEW m \in Move, ~m.warp => m.by = m.pos - there,
           pointerSystem \in {"xcb", "win32"}, UnderWay(q, from, there, known)
    PROVE  /\ UnderWay(Moved(q, m), from, m.pos, known)
           /\ Len(Moved(q, m)) <= Len(q) + 1
<1> DEFINE r == Moved(q, m)
<1>1. m.pos \in Positions /\ m.by \in -2 * Reach..2 * Reach /\ m.warp \in BOOLEAN
  BY DEF Move
<1> SUFFICES UnderWay(r, from, m.pos, known) /\ Len(r) <= Len(q) + 1
  OBVIOUS
<1>2. Len(q) \in Nat /\ \A i \in 1..Len(q) : q[i] \in Move
  OBVIOUS
<1>3. \/ r = Append(q, m) /\ (pointerSystem = "win32" => q = <<>>)
      \/ r = <<Merged(q[1], m)>> /\ pointerSystem = "win32" /\ q # <<>>
  BY DEF Moved
<1> HIDE DEF r
<1>4. CASE r = Append(q, m) /\ (pointerSystem = "win32" => q = <<>>)
  <2>1. /\ r \in Seq(Move) /\ Len(r) = Len(q) + 1 /\ r[Len(q) + 1] = m
        /\ \A i \in 1..Len(q) : r[i] = q[i]
    BY <1>4, AppendProperties
  <2>2. r # <<>> /\ EndsAt(r, m.pos)
    BY <1>2, <2>1 DEF EndsAt
  <2>3. ASSUME NEW i \in 2..Len(r), ~r[i].warp
        PROVE  r[i].by = r[i].pos - r[i-1].pos
    <3>1. CASE i \in 2..Len(q)
      <4>1. r[i] = q[i] /\ r[i-1] = q[i-1]
        BY <1>2, <2>1, <3>1
      <4> QED BY <2>3, <3>1, <4>1 DEF UnderWay
    <3>2. CASE i = Len(q) + 1
      <4>1. i - 1 = Len(q) /\ Len(q) \in 1..Len(q) /\ Len(q) # 0
        BY <1>2, <3>2
      <4>2. q # <<>>
        BY <4>1, EmptySeq
      <4>3. r[i] = m /\ r[i-1] = q[Len(q)] /\ q[Len(q)].pos = there
        BY <2>1, <3>2, <4>1, <4>2 DEF UnderWay, EndsAt
      <4>4. ~m.warp /\ m.by = m.pos - there
        BY <2>3, <4>3
      <4> QED BY ONLY <4>3, <4>4
    <3> QED BY <1>2, <2>1, <3>1, <3>2
  <2>4. ~r[1].warp =>
          /\ \E x \in Positions : r[1].by = r[1].pos - x
          /\ known => r[1].by = r[1].pos - from
    <3>1. CASE q = <<>>
      <4>1. Len(q) = 0 /\ r[1] = m
        BY <2>1, <3>1, EmptySeq
      <4>2. known => from = there
        BY <3>1 DEF UnderWay
      <4> QED BY <4>1, <4>2
    <3>2. CASE q # <<>>
      <4>1. Len(q) # 0
        BY <3>2, EmptySeq
      <4>2. r[1] = q[1]
        BY <1>2, <2>1, <4>1
      <4> QED BY <3>2, <4>2 DEF UnderWay
    <3> QED BY <3>1, <3>2
  <2>5. pointerSystem = "win32" => Len(r) <= 1
    BY <1>4, <2>1, EmptySeq
  <2> QED BY <2>1, <2>2, <2>3, <2>4, <2>5 DEF UnderWay
<1>5. CASE r = <<Merged(q[1], m)>> /\ pointerSystem = "win32" /\ q # <<>>
  <2> DEFINE w == Merged(q[1], m)
  <2>1. Len(q) = 1 /\ q[1] \in Move /\ q[1].pos = there
    <3>1. Len(q) # 0 /\ Len(q) <= 1
      BY <1>5, EmptySeq DEF UnderWay
    <3> QED BY <1>2, <1>5, <3>1 DEF UnderWay, EndsAt
  <2>2. q[1].pos \in Positions /\ q[1].by \in -2 * Reach..2 * Reach /\ q[1].warp \in BOOLEAN
    BY <2>1 DEF Move
  <2>3. /\ w.pos = m.pos /\ w.warp = (q[1].warp \/ m.warp)
        /\ w.by = IF ~q[1].warp /\ ~m.warp THEN q[1].by + m.by
                  ELSE IF q[1].by = 0 /\ m.by = 0 THEN 0 ELSE 1
    BY DEF Merged
  <2>0. w \in Move <=> w.by \in -2 * Reach..2 * Reach
    BY <2>2, <1>1 DEF Move, Merged
  <2> HIDE DEF w
  <2>4. ASSUME NEW x \in Positions, ~w.warp, q[1].by = q[1].pos - x
        PROVE  w.by = w.pos - x
    <3>1. ~q[1].warp /\ ~m.warp
      BY <2>3, <2>4
    <3>2. w.by = (there - x) + (m.pos - there) /\ w.pos = m.pos
      BY <2>1, <2>3, <2>4, <3>1
    <3>3. there \in Int /\ x \in Int /\ m.pos \in Int
      BY <1>1, CursorAssumption DEF Positions
    <3>4. \A i, j, k \in Int : (i - j) + (k - i) = k - j
      OBVIOUS
    <3>5. (there - x) + (m.pos - there) = m.pos - x
      BY ONLY <3>3, <3>4
    <3> QED BY ONLY <3>2, <3>5
  <2>5. ~w.warp => \E x \in Positions : w.by = w.pos - x
    BY <1>5, <2>3, <2>4 DEF UnderWay
  <2>6. known /\ ~w.warp => w.by = w.pos - from
    BY <1>5, <2>3, <2>4 DEF UnderWay
  <2>7. w.by \in -2 * Reach..2 * Reach
    <3>1. CASE ~w.warp
      <4>1. PICK x \in Positions : w.by = w.pos - x
        BY <2>5, <3>1
      <4>2. w.pos \in Positions
        BY <1>1, <2>3
      <4> QED BY <4>1, <4>2, Room
    <3>2. CASE w.warp
      <4>1. w.by = 0 \/ (w.by = 1 /\ (q[1].by # 0 \/ m.by # 0))
        BY <2>3, <3>2
      <4> QED BY <1>1, <2>2, <4>1, CursorAssumption
    <3> QED BY <3>1, <3>2
  <2>8. w \in Move
    BY <2>0, <2>7
  <2>9. r \in Seq(Move) /\ Len(r) = 1 /\ r[1] = w /\ r # <<>>
    BY <1>5, <2>8 DEF w
  <2>10. EndsAt(r, m.pos)
    BY <2>3, <2>9 DEF EndsAt
  <2> QED BY <2>1, <2>5, <2>6, <2>9, <2>10 DEF UnderWay
<1> QED BY <1>4, <1>5, <1>3

(* It leaves the last of the warps known, or it is the last one itself.    *)
LEMMA WarpJoins ==
    ASSUME NEW q \in Seq(Move), NEW from, NEW there, NEW known, NEW m \in Move, NEW to,
           ~m.warp => m.by = m.pos - there /\ LastWarpKnown(q, to),
           m.warp => m.pos = to, there \in Positions,
           pointerSystem \in {"xcb", "win32"}, UnderWay(q, from, there, known)
    PROVE  LastWarpKnown(Moved(q, m), to)
<1> DEFINE r == Moved(q, m)
<1>1. m.pos \in Positions /\ m.by \in Int /\ m.warp \in BOOLEAN /\ Len(q) \in Nat
  BY CursorAssumption DEF Move
<1>2. \/ r = Append(q, m)
      \/ r = <<Merged(q[1], m)>> /\ pointerSystem = "win32" /\ q # <<>>
  BY DEF Moved
<1> SUFFICES ASSUME NEW i \in 1..Len(r), OfAWarp(r[i]), NoWarpAfter(r, i)
             PROVE  r[i].pos = to
  BY DEF LastWarpKnown
<1> HIDE DEF r
<1>3. CASE r = Append(q, m)
  <2>1. /\ Len(r) = Len(q) + 1 /\ r[Len(q) + 1] = m
        /\ \A j \in 1..Len(q) : r[j] = q[j]
    BY <1>3, AppendProperties
  <2>2. CASE i = Len(q) + 1
    BY <2>1, <2>2 DEF OfAWarp
  <2>3. CASE i \in 1..Len(q)
    <3>1. Len(q) + 1 \in i+1..Len(r) /\ \A j \in i+1..Len(q) : j \in i+1..Len(r) /\ r[j] = q[j]
      BY <1>1, <2>1, <2>3
    <3>2. ~m.warp /\ r[i] = q[i] /\ NoWarpAfter(q, i)
      BY <2>1, <2>3, <3>1 DEF NoWarpAfter
    <3> QED BY <2>3, <3>2 DEF LastWarpKnown
  <2> QED BY <1>1, <2>1, <2>2, <2>3
<1>4. CASE r = <<Merged(q[1], m)>> /\ pointerSystem = "win32" /\ q # <<>>
  <2> DEFINE w == Merged(q[1], m)
  <2>1. Len(q) = 1 /\ q[1] \in Move /\ q[1].pos = there
    <3>1. Len(q) # 0 /\ Len(q) <= 1
      BY <1>4, EmptySeq DEF UnderWay
    <3> QED BY <1>1, <1>4, <3>1 DEF UnderWay, EndsAt
  <2>2. r[i] = w /\ q[1].warp \in BOOLEAN /\ q[1].by \in Int
    BY <1>4, <2>1, CursorAssumption DEF Move
  <2>3. /\ w.pos = m.pos /\ (q[1].warp \/ m.warp)
        /\ q[1].by = 0 /\ m.by = 0
    <3>1. /\ w.pos = m.pos /\ w.warp = (q[1].warp \/ m.warp)
          /\ w.by = IF ~q[1].warp /\ ~m.warp THEN q[1].by + m.by
                    ELSE IF q[1].by = 0 /\ m.by = 0 THEN 0 ELSE 1
      BY DEF Merged
    <3> HIDE DEF w
    <3> QED BY <1>1, <2>2, <3>1 DEF OfAWarp
  <2> HIDE DEF w
  <2>4. CASE m.warp
    BY <2>2, <2>3, <2>4
  <2>5. CASE ~m.warp
    <3>1. OfAWarp(q[1]) /\ NoWarpAfter(q, 1)
      BY <2>1, <2>3, <2>5 DEF OfAWarp, NoWarpAfter
    <3>2. q[1].pos = to
      BY <2>1, <2>5, <3>1 DEF LastWarpKnown
    <3>3. 0 = m.pos - there
      BY <2>3, <2>5
    <3>4. m.pos \in Int /\ there \in Int
      BY <1>1, CursorAssumption DEF Positions
    <3> QED BY <2>1, <2>2, <2>3, <3>2, <3>3, <3>4
  <2> QED BY <1>1, <2>4, <2>5
<1> QED BY <1>2, <1>3, <1>4

(* The first move is handled: the position it ends at is remembered.  Or   *)
(* it is ignored, and what is remembered is not known to be right.         *)
LEMMA MoveLeaves ==
    ASSUME NEW q \in Seq(Move), q # <<>>, NEW from, NEW there, NEW known,
           NEW to, NEW now \in BOOLEAN, NEW still \in BOOLEAN, now => to = Head(q).pos,
           UnderWay(q, from, there, known)
    PROVE  /\ UnderWay(Tail(q), to, there, now)
           /\ \A w : LastWarpKnown(q, w) => LastWarpKnown(Tail(q), w)
           /\ Len(Tail(q)) = Len(q) - 1 /\ Head(q) \in Move /\ Head(q) = q[1]
           /\ Len(q) \in Nat \ {0}
<1>1. /\ Head(q) = q[1] /\ q[1] \in Move /\ Tail(q) \in Seq(Move) /\ Len(Tail(q)) = Len(q) - 1
      /\ Len(q) \in Nat \ {0} /\ \A i \in 1..Len(Tail(q)) : Tail(q)[i] = q[i+1]
  BY HeadTailProperties, EmptySeq
<1> DEFINE r == Tail(q)
<1>2. r # <<>> => Len(r) # 0
  BY <1>1, EmptySeq
<1>3. r = <<>> => Len(r) = 0
  <2>1. \A t : t = <<>> => Len(t) = 0
    BY EmptyMoves
  <2> QED BY ONLY Zenon, <2>1
<1> HIDE DEF r
<1>4. /\ r \in Seq(Move) /\ Len(r) = Len(q) - 1 /\ Len(q) \in Nat \ {0}
      /\ \A i \in 1..Len(r) : r[i] = q[i+1]
  BY <1>1 DEF r
<1>5. EndsAt(r, there)
  <2>1. SUFFICES ASSUME r # <<>> PROVE r[Len(r)].pos = there
    BY DEF EndsAt
  <2>2. Len(r) \in 1..Len(r) /\ Len(r) + 1 = Len(q)
    BY <1>2, <1>4, <2>1
  <2>3. r[Len(r)] = q[Len(q)]
    BY <1>4, <2>2
  <2> QED BY <2>3 DEF UnderWay, EndsAt
<1>6. now /\ r = <<>> => to = there
  <2>1. SUFFICES ASSUME now, r = <<>> PROVE to = there
    OBVIOUS
  <2>2. Len(q) = 1
    BY <1>3, <1>4, <2>1
  <2>3. q[1].pos = there
    BY <2>2 DEF UnderWay, EndsAt
  <2> QED BY <1>1, <2>1, <2>3
<1>7. ASSUME NEW i \in 1..Len(r), ~r[i].warp
      PROVE  r[i].by = r[i].pos - q[i].pos
  <2>1. r[i] = q[i+1] /\ i + 1 \in 2..Len(q) /\ (i + 1) - 1 = i
    BY <1>4
  <2> QED BY <1>7, <2>1 DEF UnderWay
<1>8. \A i \in 2..Len(r) : ~r[i].warp => r[i].by = r[i].pos - r[i-1].pos
  <2> SUFFICES ASSUME NEW i \in 2..Len(r), ~r[i].warp
               PROVE  r[i].by = r[i].pos - r[i-1].pos
    OBVIOUS
  <2>1. i \in 1..Len(r) /\ i - 1 \in 1..Len(r) /\ (i - 1) + 1 = i
    BY <1>4
  <2>2. r[i-1] = q[i]
    BY <1>4, <2>1
  <2> QED BY <1>7, <2>1, <2>2
<1>9. r # <<>> /\ ~r[1].warp =>
         /\ \E x \in Positions : r[1].by = r[1].pos - x
         /\ now => r[1].by = r[1].pos - to
  <2> SUFFICES ASSUME r # <<>>, ~r[1].warp
               PROVE  /\ \E x \in Positions : r[1].by = r[1].pos - x
                      /\ now => r[1].by = r[1].pos - to
    OBVIOUS
  <2>1. r[1].by = r[1].pos - q[1].pos
    BY <1>2, <1>4, <1>7
  <2>2. q[1].pos \in Positions
    BY <1>1 DEF Move
  <2> QED BY <1>1, <2>1, <2>2
<1>10. pointerSystem = "win32" => Len(r) <= 1
  BY <1>4 DEF UnderWay
<1>11. UnderWay(r, to, there, now)
  BY <1>4, <1>5, <1>6, <1>8, <1>9, <1>10 DEF UnderWay
<1>12. ASSUME NEW w, LastWarpKnown(q, w)
       PROVE  LastWarpKnown(r, w)
  <2> SUFFICES ASSUME NEW i \in 1..Len(r), OfAWarp(r[i]), NoWarpAfter(r, i) PROVE r[i].pos = w
    BY DEF LastWarpKnown
  <2>1. r[i] = q[i+1] /\ i + 1 \in 1..Len(q)
    BY <1>4
  <2>2. ASSUME NEW j \in (i+1)+1..Len(q)
        PROVE  ~q[j].warp
    <3>1. j - 1 \in i+1..Len(r) /\ j - 1 \in 1..Len(r) /\ (j - 1) + 1 = j
      BY <1>4
    <3>2. r[j-1] = q[j]
      BY <1>4, <3>1
    <3> QED BY <3>1, <3>2 DEF NoWarpAfter
  <2>3. NoWarpAfter(q, i+1)
    BY <2>2 DEF NoWarpAfter
  <2> QED BY <1>12, <2>1, <2>3 DEF LastWarpKnown
<1> QED BY <1>1, <1>11, <1>12 DEF r

LEMMA WarpIsUnderWay ==
    ASSUME NEW q \in Seq(Move), NEW from \in Positions, NEW to \in Positions, pointer \in Positions,
           NEW known \in BOOLEAN, pointerSystem \in {"xcb", "win32"},
           UnderWay(q, from, pointer, known), WarpTo(to, q)
    PROVE  /\ UnderWay(moves', from, pointer', known) /\ LastWarpKnown(moves', to)
           /\ Len(moves') <= Len(q) + 1 /\ pointer' = to
<1> DEFINE m == [pos |-> to, by |-> 0, warp |-> TRUE]
<1>1. m \in Move /\ m.pos = to /\ m.warp = TRUE
  BY CursorAssumption DEF Move
<1>2. pointer' = m.pos /\ moves' = Moved(q, m)
  BY DEF WarpTo
<1> HIDE DEF m
<1>3. UnderWay(Moved(q, m), from, m.pos, known) /\ Len(Moved(q, m)) <= Len(q) + 1
  BY <1>1, MoveJoins
<1>4. LastWarpKnown(Moved(q, m), to)
  BY <1>1, WarpJoins
<1> QED BY <1>1, <1>2, <1>3, <1>4

LEMMA Recentres ==
    ASSUME NEW q \in Seq(Move), NEW pos \in Positions, CursorTypeOK, NEW known \in BOOLEAN,
           UnderWay(q, pos, pointer, known), mode = "disabled" => LastWarpKnown(q, warped),
           Recentre(pos, q)
    PROVE  /\ UnderWay(moves', pos, pointer', known)
           /\ mode = "disabled" => LastWarpKnown(moves', warped')
           /\ Len(moves') <= Len(q) + 1 /\ pointer' \in Positions
           /\ warped' \in Positions \cup Centres
<1>1. /\ pointerSystem \in {"xcb", "win32"} /\ pointer \in Positions /\ centre \in Centres
      /\ centre \in Positions /\ warped \in Positions \cup Centres
  BY CursorAssumption DEF CursorTypeOK
<1>2. CASE WarpTo(centre, q) /\ warped' = centre
  BY <1>1, <1>2, WarpIsUnderWay
<1>3. CASE moves' = q /\ UNCHANGED <<pointer, warped>>
  <2>1. Len(q) \in Nat
    OBVIOUS
  <2> QED BY <1>1, <1>3, <2>1
<1> QED BY <1>2, <1>3 DEF Recentre

LEMMA CursorStep == CursorInv /\ [CursorNext]_cursorVars => CursorInv'
<1> SUFFICES ASSUME CursorInv, [CursorNext]_cursorVars PROVE CursorInv'
  OBVIOUS
<1>1. /\ pointerSystem \in {"xcb", "win32"} /\ mode \in {"normal", "disabled"} /\ raw \in BOOLEAN
      /\ previous \in Positions /\ warped \in Positions \cup Centres
      /\ restore \in Positions /\ pointer \in Positions /\ centre \in Centres
      /\ moves \in Seq(Move) /\ Len(moves) <= MaxMoves + 1 /\ Len(moves) \in Nat
      /\ pointerSystem = "xcb" => ~raw
      /\ raw => ~counted
      /\ UnderWay(moves, previous, pointer, counted)
      /\ mode = "disabled" => LastWarpKnown(moves, warped)
      /\ centre \in Positions /\ counted \in BOOLEAN
  BY CursorAssumption DEF CursorInv, CursorTypeOK
<1>2. CASE HandMoves
  <2>1. PICK to \in Positions \ {pointer} :
           /\ pointer' = to
           /\ moves' = Moved(moves, [pos |-> to, by |-> to - pointer, warp |-> FALSE])
    BY <1>2 DEF HandMoves
  <2> DEFINE m == [pos |-> to, by |-> to - pointer, warp |-> FALSE]
  <2>2. m \in Move /\ m.pos = to /\ m.by = to - pointer /\ m.warp = FALSE
    BY <1>1, Room DEF Move
  <2>3. moves' = Moved(moves, m) /\ pointer' = m.pos
    BY <2>1
  <2> HIDE DEF m
  <2>4. /\ UnderWay(moves', previous, pointer', counted) /\ Len(moves') <= Len(moves) + 1
        /\ mode = "disabled" => LastWarpKnown(moves', warped)
    <3>1. UnderWay(Moved(moves, m), previous, m.pos, counted) /\ Len(Moved(moves, m)) <= Len(moves) + 1
      BY <1>1, <2>2, MoveJoins
    <3>2. mode = "disabled" => LastWarpKnown(Moved(moves, m), warped)
      BY <1>1, <2>2, WarpJoins
    <3> QED BY <2>3, <3>1, <3>2
  <2>5. /\ Len(moves) < MaxMoves /\ reported' = {}
        /\ UNCHANGED <<pointerSystem, mode, previous, warped, restore, raw, centre, counted>>
    BY <1>2 DEF HandMoves
  <2>6. moves' \in Seq(Move) /\ Len(moves') \in Nat
    BY <2>4 DEF UnderWay
  <2>7. Len(moves') <= MaxMoves + 1 /\ Len(moves') <= MaxMoves + 3
    BY <1>1, <2>4, <2>5, <2>6, CursorAssumption
  <2>8. UnderWay(moves, previous, pointer, counted)'
    BY <2>4, <2>5 DEF UnderWay
  <2> QED BY <1>1, <2>1, <2>4, <2>5, <2>6, <2>7, <2>8 DEF CursorInv, CursorTypeOK
<1>3. CASE HandleNext
  <2>1. moves # <<>> /\ ~raw /\ HandleMouseMove(Head(moves).pos, Tail(moves)) /\ counted' = TRUE
    BY <1>3 DEF HandleNext
  <2> DEFINE pos == Head(moves).pos
  <2>2. /\ UnderWay(Tail(moves), pos, pointer, TRUE)
        /\ mode = "disabled" => LastWarpKnown(Tail(moves), warped)
        /\ Len(Tail(moves)) = Len(moves) - 1 /\ pos \in Positions
    <3>1. /\ UnderWay(Tail(moves), pos, pointer, TRUE)
          /\ \A w : LastWarpKnown(moves, w) => LastWarpKnown(Tail(moves), w)
          /\ Len(Tail(moves)) = Len(moves) - 1 /\ Head(moves) \in Move
      BY <1>1, <2>1, MoveLeaves
    <3>2. \A m \in Move : m.pos \in Positions
      BY DEF Move
    <3> QED BY <1>1, <3>1, <3>2
  <2>3. Tail(moves) \in Seq(Move) /\ Recentre(pos, Tail(moves)) /\ previous' = pos
    BY <2>1, <2>2 DEF HandleMouseMove, Remember, UnderWay
  <2>4. /\ reported' = {} \/ reported' = {pos - previous}
        /\ UNCHANGED <<pointerSystem, mode, restore, raw, centre>>
    BY <2>1 DEF HandleMouseMove
  <2> HIDE DEF pos
  <2>5. /\ UnderWay(moves', pos, pointer', TRUE)
        /\ mode = "disabled" => LastWarpKnown(moves', warped')
        /\ Len(moves') <= Len(Tail(moves)) + 1 /\ pointer' \in Positions
        /\ warped' \in Positions \cup Centres
    BY <2>2, <2>3, Recentres DEF CursorInv
  <2>6. moves' \in Seq(Move) /\ Len(moves') \in Nat
    BY <2>5 DEF UnderWay
  <2>7. Len(moves') <= MaxMoves + 1 /\ Len(moves') <= MaxMoves + 3
    BY <1>1, <2>2, <2>5, <2>6, CursorAssumption
  <2>8. reported' \subseteq -3 * Reach..3 * Reach
    BY <1>1, <2>2, <2>4, CursorAssumption DEF Positions
  <2>9. UnderWay(moves, previous, pointer, counted)'
    BY <2>1, <2>3, <2>4, <2>5 DEF UnderWay
  <2> QED
    BY <1>1, <2>1, <2>2, <2>3, <2>4, <2>5, <2>6, <2>7, <2>8, <2>9 DEF CursorInv, CursorTypeOK
<1>4. CASE IgnoreNext
  <2>1. /\ moves # <<>> /\ raw /\ ~counted /\ moves' = Tail(moves) /\ reported' = {}
        /\ UNCHANGED <<pointerSystem, mode, previous, warped, restore, raw, pointer, centre, counted>>
    BY <1>1, <1>4 DEF IgnoreNext
  <2>2. /\ UnderWay(Tail(moves), previous, pointer, FALSE)
        /\ mode = "disabled" => LastWarpKnown(Tail(moves), warped)
        /\ Len(Tail(moves)) = Len(moves) - 1
    BY <1>1, <2>1, MoveLeaves
  <2>3. moves' \in Seq(Move) /\ Len(moves') <= MaxMoves + 1 /\ Len(moves') <= MaxMoves + 3
    BY <1>1, <2>1, <2>2, CursorAssumption DEF UnderWay
  <2>4. UnderWay(moves, previous, pointer, counted)'
    BY <2>1, <2>2 DEF UnderWay
  <2> QED BY <1>1, <2>1, <2>2, <2>3, <2>4 DEF CursorInv, CursorTypeOK
<1>5. ASSUME NEW c \in Centres, ResizeMoves(c)
      PROVE  CursorInv'
  <2>1. /\ centre' = c /\ reported' = {}
        /\ UNCHANGED <<pointerSystem, mode, previous, warped, restore, raw, pointer, moves, counted>>
    BY <1>5 DEF ResizeMoves
  <2>2. UnderWay(moves, previous, pointer, counted)'
    BY <1>1, <2>1 DEF UnderWay
  <2> QED BY <1>1, <2>1, <2>2 DEF CursorInv, CursorTypeOK
<1>6. ASSUME NEW by \in Positions, ProcessRawInput(by)
      PROVE  CursorInv'
  <2> DEFINE pos == previous + by
  <2>1. raw /\ ~counted /\ pos \in Positions /\ pointerSystem = "win32" /\ Len(moves) <= 1
    BY <1>1, <1>6 DEF ProcessRawInput, UnderWay
  <2>2. /\ Recentre(pos, moves) /\ previous' = pos
        /\ reported' = {} \/ reported' = {pos - previous}
        /\ UNCHANGED <<pointerSystem, mode, restore, raw, centre, counted>>
    BY <1>6 DEF ProcessRawInput, HandleMouseMove, Remember
  <2> HIDE DEF pos
  <2>3. UnderWay(moves, pos, pointer, FALSE)
    BY <1>1 DEF UnderWay
  <2>4. /\ UnderWay(moves', pos, pointer', FALSE)
        /\ mode = "disabled" => LastWarpKnown(moves', warped')
        /\ pointer' \in Positions /\ warped' \in Positions \cup Centres
    BY <1>1, <2>1, <2>2, <2>3, Recentres DEF CursorInv
  <2>5. moves' \in Seq(Move) /\ Len(moves') <= 1 /\ Len(moves') \in Nat
    BY <2>1, <2>4 DEF UnderWay
  <2>6. Len(moves') <= MaxMoves + 1 /\ Len(moves') <= MaxMoves + 3
    BY <2>5, CursorAssumption
  <2>7. reported' \subseteq -3 * Reach..3 * Reach
    BY <1>1, <2>1, <2>2, CursorAssumption DEF Positions
  <2>8. UnderWay(moves, previous, pointer, counted)'
    BY <2>1, <2>2, <2>4 DEF UnderWay
  <2> QED BY <1>1, <2>1, <2>2, <2>4, <2>5, <2>6, <2>7, <2>8 DEF CursorInv, CursorTypeOK
<1>7. CASE Len(moves) < MaxMoves /\ (Disable \/ Enable)
  <2> DEFINE to == IF mode = "normal" THEN centre ELSE restore
  <2>1. WarpTo(to, moves) /\ to \in Positions /\ (mode' = "disabled" => warped' = to)
    BY <1>1, <1>7 DEF Disable, Enable
  <2>2. /\ reported' = {} /\ UNCHANGED <<pointerSystem, previous, raw, centre, counted>>
        /\ mode' \in {"normal", "disabled"} /\ warped' \in Positions \cup Centres
        /\ restore' \in Positions
    BY <1>1, <1>7 DEF Disable, Enable
  <2> HIDE DEF to
  <2>3. /\ UnderWay(moves', previous, pointer', counted) /\ LastWarpKnown(moves', to)
        /\ Len(moves') <= Len(moves) + 1 /\ pointer' = to
    BY <1>1, <2>1, WarpIsUnderWay
  <2>4. moves' \in Seq(Move) /\ Len(moves') \in Nat
    BY <2>3 DEF UnderWay
  <2>5. Len(moves') <= MaxMoves + 1 /\ Len(moves') <= MaxMoves + 3
    BY <1>1, <1>7, <2>3, <2>4, CursorAssumption
  <2>6. UnderWay(moves, previous, pointer, counted)'
    BY <2>2, <2>3 DEF UnderWay
  <2> QED BY <1>1, <2>1, <2>2, <2>3, <2>4, <2>5, <2>6 DEF CursorInv, CursorTypeOK
<1>8. CASE SwitchRaw
  <2>1. /\ pointerSystem = "win32" /\ raw' = ~raw /\ counted' = FALSE /\ reported' = {}
        /\ UNCHANGED <<pointerSystem, mode, previous, warped, restore, pointer, centre, moves>>
    BY <1>8 DEF SwitchRaw
  <2>2. UnderWay(moves, previous, pointer, counted)'
    BY <1>1, <2>1 DEF UnderWay
  <2>3. raw' \in BOOLEAN /\ counted' \in BOOLEAN /\ ~counted'
    BY <2>1
  <2> QED BY <1>1, <2>1, <2>2, <2>3 DEF CursorInv, CursorTypeOK
<1>9. CASE UNCHANGED cursorVars
  <2>1. UnderWay(moves, previous, pointer, counted)'
    BY <1>1, <1>9 DEF UnderWay, cursorVars
  <2> QED BY <1>1, <1>9, <2>1 DEF cursorVars, CursorInv, CursorTypeOK
<1> QED BY <1>2, <1>3, <1>4, <1>5, <1>6, <1>7, <1>8, <1>9 DEF CursorNext

LEMMA CursorStart == CursorInit => CursorInv
<1> SUFFICES ASSUME CursorInit PROVE CursorInv
  OBVIOUS
<1>1. Len(<<>>) = 0 /\ <<>> \in Seq(Move) /\ 0 \in Positions
  BY EmptyMoves, CursorAssumption DEF Positions
<1>2. UnderWay(moves, previous, pointer, counted) /\ LastWarpKnown(moves, warped)
  BY <1>1 DEF CursorInit, UnderWay, EndsAt, LastWarpKnown
<1>3. moves = <<>> /\ Len(moves) <= MaxMoves + 1 /\ Len(moves) <= MaxMoves + 3
  BY <1>1, CursorAssumption DEF CursorInit
<1> QED BY <1>1, <1>2, <1>3, CursorAssumption DEF CursorInit, CursorInv, CursorTypeOK

(* Whatever moves, warps, resizes and switches of raw input are under way, *)
(* a disabled cursor counts on from where the pointer is (handleMouseMove, *)
(* processRawInput, disableCursor and enableCursor of Xcb and Win32).      *)
THEOREM CursorIsRight == CursorSpec => []CursorAgrees
<1>1. CursorInv => CursorAgrees
  BY DEF CursorInv, CursorTypeOK, CursorAgrees, CountsFromThePointer, UnderWay
<1> QED BY <1>1, CursorStart, CursorStep, PTL DEF CursorSpec

LEMMA MovesCount == CursorInv => MovesAreReal
<1> SUFFICES ASSUME CursorInv, HandleNext, mode = "disabled"
             PROVE  ReportsTheHand /\ HidesTheWarp
  BY DEF MovesAreReal
<1> DEFINE e == Head(moves)
<1>1. /\ moves # <<>>
      /\ reported' = IF e.pos # warped THEN {e.pos - previous} ELSE {}
  BY DEF HandleNext, HandleMouseMove
<1>2. moves \in Seq(Move) /\ UnderWay(moves, previous, pointer, counted)
      /\ LastWarpKnown(moves, warped)
  BY DEF CursorInv, CursorTypeOK
<1>3. e = moves[1] /\ 1 \in 1..Len(moves) /\ e.warp \in BOOLEAN
  <2>1. e = moves[1] /\ Len(moves) \in Nat \ {0} /\ e \in Move
    BY <1>1, <1>2, HeadTailProperties, EmptySeq
  <2> QED BY <2>1 DEF Move
<1>4. ~e.warp /\ counted => e.by = e.pos - previous
  BY <1>1, <1>2, <1>3 DEF UnderWay
<1>5. OfAWarp(e) /\ reported' # {} => \E i \in 2..Len(moves) : moves[i].warp
  <2> SUFFICES ASSUME OfAWarp(e), reported' # {}, \A i \in 2..Len(moves) : ~moves[i].warp
               PROVE  FALSE
    OBVIOUS
  <2>1. NoWarpAfter(moves, 1)
    BY DEF NoWarpAfter
  <2>2. e.pos = warped
    BY <1>2, <1>3, <2>1 DEF LastWarpKnown
  <2> QED BY <1>1, <2>2
<1> QED BY <1>1, <1>4, <1>5 DEF ReportsTheHand, HidesTheWarp, OfTheHand

(***************************************************************************)
(* The steps of the four.  A disabled cursor reports every move of the     *)
(* hand as it was, but one that ends where the last warp went and the      *)
(* first one, and a warp only if another one has followed it; no step      *)
(* falls asleep over requests of its own, or takes the slot of a notifier  *)
(* that lives for anything but a death (handleMouseMove, wl_display_flush, *)
(* unregisterNotifier).                                                    *)
(***************************************************************************)
THEOREM StepsOfLoopsAreReal ==
    ASSUME TypesAreKnown
    PROVE  NsSpec /\ WlSpec /\ CursorSpec => StepsAreReal
<1>1. CursorInv => MovesAreReal
  BY MovesCount
<1>2. SleepInv => SleepsFlushed
  BY SleepsAreFlushed
<1>3. SetsInv /\ [NsNext]_nsVars => KeepsSlots
  BY SlotsStayKept, SlotsRest
<1>4. SetsInv /\ [NsNext]_nsVars => SetsInv'
  BY SetsStep
<1> QED
  BY <1>1, <1>2, <1>3, <1>4, SetsStart, SleepStart, SleepStep, CursorStart, CursorStep, PTL
  DEF NsSpec, WlSpec, CursorSpec, StepsAreReal
-----------------------------------------------------------------------------
Modes == {"normal", "disabled"}

Extents == [width : Nat, height : Nat]

LEMMA SizesAreExtents == Sizes \subseteq Extents /\ NoSize \in Extents
BY SizesAreNumbers DEF Sizes, Extents, NoSize
-----------------------------------------------------------------------------
(***************************************************************************)
(* Wayland.                                                                *)
(***************************************************************************)
WaylandWindow ==
    [on : {"wayland"}, exists : BOOLEAN, visible : BOOLEAN, cursorEnabled : BOOLEAN,
     raw : BOOLEAN, size : Extents, surface : BOOLEAN, registered : BOOLEAN,
     xdgSurface : BOOLEAN, toplevel : {"null", "live", "stale"}, mode : Modes,
     buttons : SUBSET Buttons, entered : Seq(Scales), scale : Scales, bufferScale : Scales, asked : Extents]

WaylandFits(t) ==
    /\ t.registered <=> t.surface
    /\ t.surface => t.exists /\ t.bufferScale = t.scale
    /\ Len(t.entered) <= 2

WaylandInv(t) == t \in WaylandWindow /\ WaylandFits(t)

LEMMA NoScales == <<>> \in Seq(Scales) /\ Len(<<>>) = 0
BY EmptySeq

LEMMA WaylandMade ==
    ASSUME NEW t, WaylandInv(t)
    PROVE  WaylandInv(CreatePlatformWindow(t)) /\ CreatePlatformWindow(t).exists = TRUE
<1>1. t \in WaylandWindow /\ t.on = "wayland"
  BY DEF WaylandInv, WaylandWindow
<1>2. CreatePlatformWindow(t) = IF t.exists THEN t ELSE WaylandNew(t)
  BY <1>1 DEF CreatePlatformWindow, New
<1> DEFINE u == WaylandNew(t)
<1>3. /\ u \in WaylandWindow /\ u.exists = TRUE /\ u.entered = <<>>
      /\ u.surface = t.surface /\ u.registered = t.registered
      /\ u.scale = t.scale /\ u.bufferScale = t.bufferScale
  BY <1>1, NoScales DEF WaylandWindow, WaylandNew, Modes
<1>4. Len(u.entered) <= 2
  BY <1>3, NoScales
<1> HIDE DEF u
<1>5. WaylandInv(u)
  BY <1>3, <1>4 DEF WaylandInv, WaylandFits
<1>6. t.exists => t.exists = TRUE
  BY <1>1 DEF WaylandWindow
<1> QED BY <1>2, <1>3, <1>5, <1>6 DEF u

LEMMA WaylandCreated ==
    ASSUME NEW t, WaylandInv(t)
    PROVE  WaylandInv(Created(t))
<1> DEFINE u == CreatePlatformWindow(t)
<1>1. WaylandInv(u) /\ u.exists = TRUE
  BY WaylandMade
<1> HIDE DEF u
<1>2. u \in WaylandWindow /\ u.on = "wayland"
  BY <1>1 DEF WaylandInv, WaylandWindow
<1>3. Created(t) = WaylandCreate(u)
  BY <1>2 DEF Created, NativeCreate, u
<1>4. CASE u.surface
  BY <1>1, <1>3, <1>4 DEF WaylandCreate
<1>5. CASE ~u.surface
  <2>1. Created(t) = [u EXCEPT !.surface = TRUE, !.registered = TRUE, !.bufferScale = u.scale]
    BY <1>3, <1>5 DEF WaylandCreate
  <2>2. /\ Created(t) \in WaylandWindow /\ Created(t).exists = TRUE
        /\ Created(t).surface = TRUE /\ Created(t).registered = TRUE
        /\ Created(t).bufferScale = Created(t).scale /\ Created(t).entered = u.entered
    BY <1>1, <1>2, <2>1 DEF WaylandWindow
  <2> QED BY <1>1, <2>2 DEF WaylandInv, WaylandFits
<1> QED BY <1>4, <1>5

LEMMA WaylandDestroyed ==
    ASSUME NEW t, WaylandInv(t)
    PROVE  WaylandInv(Destroyed(t))
<1> DEFINE u == CreatePlatformWindow(t)
<1>1. WaylandInv(u)
  BY WaylandMade
<1> HIDE DEF u
<1>2. u \in WaylandWindow /\ u.on = "wayland"
  BY <1>1 DEF WaylandInv, WaylandWindow
<1>3. Destroyed(t) = [WaylandDestroy(u) EXCEPT !.exists = FALSE]
  BY <1>2 DEF Destroyed, NativeDestroy, u
<1> DEFINE d == [WaylandDestroy(u) EXCEPT !.exists = FALSE]
<1>4. /\ d \in WaylandWindow /\ d.surface = FALSE /\ d.registered = FALSE
      /\ d.entered = u.entered
  BY <1>2 DEF WaylandDestroy, WaylandWindow
<1> HIDE DEF d
<1>5. WaylandInv(d)
  BY <1>1, <1>4 DEF WaylandInv, WaylandFits
<1> QED BY <1>3, <1>5 DEF d

(* A step that leaves the surface, the scales and the outputs alone.       *)
LEMMA WaylandElse ==
    ASSUME NEW t, WaylandInv(t), NEW u \in WaylandWindow, u.exists = t.exists,
           u.surface = t.surface, u.registered = t.registered, u.scale = t.scale,
           u.bufferScale = t.bufferScale, u.entered = t.entered
    PROVE  WaylandInv(u)
BY DEF WaylandInv, WaylandFits

LEMMA WaylandVisible ==
    ASSUME NEW t, WaylandInv(t), NEW v \in BOOLEAN
    PROVE  WaylandInv(VisibleSet(t, v))
<1> DEFINE u == [t EXCEPT !.visible = v]
           c == Created(u)
<1>1. t \in WaylandWindow
  BY DEF WaylandInv
<1>2. WaylandInv(u) /\ u.visible = v
  <2>1. /\ u \in WaylandWindow /\ u.visible = v /\ u.exists = t.exists
        /\ u.surface = t.surface /\ u.registered = t.registered /\ u.scale = t.scale
        /\ u.bufferScale = t.bufferScale /\ u.entered = t.entered
    BY <1>1 DEF WaylandWindow
  <2> HIDE DEF u
  <2> QED BY <2>1, WaylandElse
<1> HIDE DEF u
<1>3. WaylandInv(c)
  BY <1>2, WaylandCreated
<1> HIDE DEF c
<1>4. c \in WaylandWindow /\ c.on = "wayland"
  BY <1>3 DEF WaylandInv, WaylandWindow
<1>5. OnVisibleChanged(u) = IF v THEN WaylandMap(c) ELSE WaylandUnmap(c)
  BY <1>2, <1>4 DEF OnVisibleChanged, Map, Unmap, c
<1> DEFINE w == OnVisibleChanged(u)
<1> HIDE DEF w
<1>6. w \in {c, WaylandUnmap(c), [c EXCEPT !.xdgSurface = TRUE, !.toplevel = "live"]}
  BY <1>5 DEF WaylandMap, w
<1>7. /\ w \in WaylandWindow /\ w.exists = c.exists
      /\ w.surface = c.surface /\ w.registered = c.registered /\ w.scale = c.scale
      /\ w.bufferScale = c.bufferScale /\ w.entered = c.entered
  BY <1>4, <1>6, SizesAreExtents DEF WaylandWindow, WaylandUnmap
<1>8. WaylandInv(w)
  BY <1>3, <1>7, WaylandElse
<1> QED BY <1>8 DEF VisibleSet, u, w

LEMMA WaylandCursorChanged ==
    ASSUME NEW t, WaylandInv(t)
    PROVE  WaylandInv(OnCursorEnabledChanged(t))
<1>1. t \in WaylandWindow /\ t.on = "wayland"
  BY DEF WaylandInv, WaylandWindow
<1> DEFINE w == OnCursorEnabledChanged(t)
<1>2. w \in {t, WaylandEnableCursor(t), WaylandDisableCursor(t)}
  BY <1>1 DEF OnCursorEnabledChanged, EnableCursor, DisableCursor
<1>3. /\ w \in WaylandWindow /\ w.exists = t.exists
      /\ w.surface = t.surface /\ w.registered = t.registered /\ w.scale = t.scale
      /\ w.bufferScale = t.bufferScale /\ w.entered = t.entered
  <2> HIDE DEF w
  <2> QED BY <1>1, <1>2 DEF WaylandWindow, WaylandEnableCursor, WaylandDisableCursor, Modes
<1> HIDE DEF w
<1>4. WaylandInv(w)
  BY <1>3, WaylandElse
<1> QED BY <1>4 DEF w

LEMMA HighestIsOne ==
    ASSUME NEW q \in Seq(Scales), Len(q) <= 2
    PROVE  Highest(q) \in Scales
<1>1. /\ DOMAIN q = 1..Len(q) /\ Len(q) \in Nat
      /\ \A i \in 1..Len(q) : q[i] \in Scales /\ q[i] \in Nat \ {0}
  BY ElementOfSeq, LenProperties, EventsAssumption
<1>2. \E f \in Scales : /\ f \in {1} \cup {q[i] : i \in DOMAIN q}
                        /\ \A i \in DOMAIN q : q[i] <= f
  <2>1. CASE Len(q) = 0
    BY <1>1, <2>1, EventsAssumption
  <2>2. CASE Len(q) = 1
    <3>1. q[1] \in Scales /\ 1 \in DOMAIN q /\ \A i \in DOMAIN q : q[i] <= q[1]
      BY <1>1, <2>2
    <3> QED BY <3>1
  <2>3. CASE Len(q) = 2 /\ q[1] <= q[2]
    <3>1. q[2] \in Scales /\ 2 \in DOMAIN q /\ \A i \in DOMAIN q : q[i] <= q[2]
      BY <1>1, <2>3
    <3> QED BY <3>1
  <2>4. CASE Len(q) = 2 /\ q[2] <= q[1]
    <3>1. q[1] \in Scales /\ 1 \in DOMAIN q /\ \A i \in DOMAIN q : q[i] <= q[1]
      BY <1>1, <2>4
    <3> QED BY <3>1
  <2> QED BY <1>1, <2>1, <2>2, <2>3, <2>4
<1> QED BY <1>2 DEF Highest

LEMMA OneLess ==
    ASSUME NEW q \in Seq(Scales), NEW i \in DOMAIN q
    PROVE  RemoveAt(q, i) \in Seq(Scales) /\ Len(RemoveAt(q, i)) = Len(q) - 1
<1>1. DOMAIN q = 1..Len(q) /\ Len(q) \in Nat /\ \A j \in 1..Len(q) : q[j] \in Scales
  BY ElementOfSeq, LenProperties
<1> DEFINE a == SubSeq(q, 1, i - 1)
           b == SubSeq(q, i + 1, Len(q))
<1>2. a \in Seq(Scales) /\ Len(a) = i - 1
  BY <1>1, SubSeqProperties
<1>3. b \in Seq(Scales) /\ Len(b) = Len(q) - i
  BY <1>1, SubSeqProperties
<1>4. RemoveAt(q, i) = a \o b
  BY DEF RemoveAt
<1> HIDE DEF a, b
<1>5. a \o b \in Seq(Scales) /\ Len(a \o b) = Len(a) + Len(b)
  <2>1. ASSUME NEW p \in Seq(Scales), NEW r \in Seq(Scales)
        PROVE  p \o r \in Seq(Scales) /\ Len(p \o r) = Len(p) + Len(r)
    BY ConcatProperties
  <2> QED BY ONLY Zenon, <1>2, <1>3, <2>1
<1>6. i \in 1..Len(q) /\ Len(q) \in Nat
  BY <1>1
<1>7. Len(a \o b) = Len(q) - 1
  BY ONLY <1>2, <1>3, <1>5, <1>6
<1> QED BY ONLY <1>4, <1>5, <1>7

LEMMA WaylandScaled ==
    ASSUME NEW t, WaylandInv(t), t.surface, NEW q \in Seq(Scales), Len(q) <= 2,
           NEW f \in Scales
    PROVE  WaylandInv(WaylandScaleChanged([t EXCEPT !.entered = q], f))
<1>1. t \in WaylandWindow /\ t.bufferScale = t.scale
  BY DEF WaylandInv, WaylandFits
<1> DEFINE u == [t EXCEPT !.entered = q]
           w == WaylandScaleChanged(u, f)
<1>2. u \in WaylandWindow /\ u.surface /\ u.bufferScale = u.scale /\ u.entered = q
      /\ u.exists = t.exists /\ u.surface = t.surface /\ u.registered = t.registered
  BY <1>1 DEF WaylandWindow
<1> HIDE DEF u
<1>3. /\ w \in WaylandWindow /\ w.scale = f /\ w.bufferScale = f /\ w.entered = q
      /\ w.exists = t.exists /\ w.surface = t.surface /\ w.registered = t.registered
  BY <1>2 DEF WaylandWindow, WaylandScaleChanged
<1> HIDE DEF w
<1>4. WaylandInv(w)
  BY <1>3 DEF WaylandInv, WaylandFits
<1> QED BY <1>4 DEF w, u

(* A new size, or other buttons.                                           *)
LEMMA WaylandResized ==
    ASSUME NEW t, WaylandInv(t), NEW size \in Extents
    PROVE  WaylandInv([t EXCEPT !.size = size])
<1> DEFINE u == [t EXCEPT !.size = size]
<1>1. t \in WaylandWindow
  BY DEF WaylandInv
<1>2. /\ u \in WaylandWindow /\ u.exists = t.exists
      /\ u.surface = t.surface /\ u.registered = t.registered /\ u.scale = t.scale
      /\ u.bufferScale = t.bufferScale /\ u.entered = t.entered
  BY <1>1 DEF WaylandWindow
<1> HIDE DEF u
<1>3. WaylandInv(u)
  BY <1>2, WaylandElse
<1> QED BY <1>3 DEF u

LEMMA WaylandButtons ==
    ASSUME NEW t, WaylandInv(t), NEW b \in Buttons
    PROVE  WaylandInv(Pressed(t, {b})) /\ WaylandInv(Released(t, {b}))
<1>1. t \in WaylandWindow
  BY DEF WaylandInv
<1>2. ASSUME NEW u \in {Pressed(t, {b}), Released(t, {b})}
      PROVE  WaylandInv(u)
  <2>1. /\ u \in WaylandWindow /\ u.exists = t.exists
        /\ u.surface = t.surface /\ u.registered = t.registered /\ u.scale = t.scale
        /\ u.bufferScale = t.bufferScale /\ u.entered = t.entered
    BY <1>1, <1>2 DEF WaylandWindow, Pressed, Released
  <2> QED BY <2>1, WaylandElse
<1> QED BY <1>2

LEMMA TimesAreNumbers == \A x, y \in Nat : x * y \in Nat
OBVIOUS

LEMMA WaylandResizes ==
    ASSUME WaylandInv(s), NEW size \in Extents, Resized(size)
    PROVE  WaylandInv(s')
<1>1. s.scale \in Nat
  BY EventsAssumption DEF WaylandInv, WaylandWindow
<1>2. size.width \in Nat /\ size.height \in Nat
  BY DEF Extents
<1>3. size.width * s.scale \in Nat /\ size.height * s.scale \in Nat
  BY <1>1, <1>2, TimesAreNumbers
<1>4. Scaled(size, s.scale) \in Extents
  BY <1>3 DEF Scaled, Extents
<1> QED BY <1>4, WaylandResized DEF Resized, ResizeEvent

LEMMA BoundedIsAnExtent ==
    ASSUME NEW size \in Extents, NEW bounds \in Extents
    PROVE  Bounded(size, bounds) \in Extents
BY DEF Bounded, Extents

LEMMA WaylandStep == WaylandInv(s) /\ Next => WaylandInv(s')
<1> SUFFICES ASSUME WaylandInv(s), Next PROVE WaylandInv(s')
  OBVIOUS
<1>1. s \in WaylandWindow /\ s.on = "wayland" /\ Len(s.entered) <= 2
  BY DEF WaylandInv, WaylandFits, WaylandWindow
<1>2. s.visible \in BOOLEAN /\ s.size \in Extents /\ s.entered \in Seq(Scales) /\ s.on # "xcb"
      /\ s.on # "win32" /\ s.on # "android"
  BY <1>1 DEF WaylandWindow
<1>3. Application \/ Listeners
  BY <1>2 DEF Next, Server, UserResizes, UserCloses, UserPresses, UserReleases, UserScrolls,
     Shown, XcbLoop, Phase, WaitForEvents, ProcessXcbEvent, FallAsleep, WakeForXcb,
     ReturnFromWait, ProcessedAgain, WakeForOther, WindowProc, WmSize, WmClose, WmButtonDown,
     WmButtonUp, CaptureLost, SystemFails, Proc, AndroidEvents, Rotates, Touches, Lifts
<1>4. CASE SetVisible
  <2>1. (~s.visible) \in BOOLEAN
    OBVIOUS
  <2> QED BY <1>4, <2>1, WaylandVisible DEF SetVisible
<1>5. ASSUME NEW size \in Extents, s' = OnSizeChanged([s EXCEPT !.size = size])
      PROVE  WaylandInv(s')
  <2> DEFINE u == [s EXCEPT !.size = size]
  <2>1. WaylandInv(u)
    BY WaylandResized
  <2> HIDE DEF u
  <2>2. u \in WaylandWindow /\ u.on = "wayland" /\ u.size \in Extents
    BY <2>1 DEF WaylandInv, WaylandWindow
  <2> DEFINE w == [u EXCEPT !.asked = u.size]
  <2>3. OnSizeChanged(u) \in {u, w}
    BY <2>2 DEF OnSizeChanged, SetSize, WaylandSetSize
  <2>4. /\ w \in WaylandWindow /\ w.exists = u.exists
        /\ w.surface = u.surface /\ w.registered = u.registered /\ w.scale = u.scale
        /\ w.bufferScale = u.bufferScale /\ w.entered = u.entered
    BY <2>2 DEF WaylandWindow
  <2> HIDE DEF w
  <2>5. WaylandInv(w)
    BY <2>1, <2>4, WaylandElse
  <2> QED BY <1>5, <2>1, <2>3, <2>5 DEF u
<1>6. CASE \E w \in Widths : SetWidth(w)
  BY <1>1, <1>2, <1>5, <1>6, SizesAreNumbers DEF SetWidth, WaylandWindow, Extents
<1>7. CASE \E h \in Heights : SetHeight(h)
  BY <1>1, <1>2, <1>5, <1>7, SizesAreNumbers DEF SetHeight, WaylandWindow, Extents
<1>8. CASE SetCursorEnabled
  <2> DEFINE u == [s EXCEPT !.cursorEnabled = ~@]
  <2>1. /\ u \in WaylandWindow /\ u.exists = s.exists
        /\ u.surface = s.surface /\ u.registered = s.registered /\ u.scale = s.scale
        /\ u.bufferScale = s.bufferScale /\ u.entered = s.entered
    BY <1>1 DEF WaylandWindow
  <2>2. s' = OnCursorEnabledChanged(u)
    BY <1>8 DEF SetCursorEnabled
  <2> HIDE DEF u
  <2> QED BY <2>1, <2>2, WaylandElse, WaylandCursorChanged
<1>9. CASE Create \/ Destroy
  BY <1>9, WaylandCreated, WaylandDestroyed DEF Create, Destroy
<1>10. CASE EnterOutput
  <2>1. PICK f \in Scales : OutputsAre(Append(s.entered, f))
    BY <1>10 DEF EnterOutput
  <2> DEFINE q == Append(s.entered, f)
  <2>2. q \in Seq(Scales) /\ Len(q) = Len(s.entered) + 1 /\ Len(s.entered) < 2 /\ s.surface
    BY <1>2, <1>10, AppendProperties DEF EnterOutput, Listens
  <2>3. Len(q) <= 2
    BY <1>2, <2>2, LenProperties
  <2> HIDE DEF q
  <2> QED BY <2>1, <2>2, <2>3, HighestIsOne, WaylandScaled DEF OutputsAre, q
<1>11. CASE LeaveOutput
  <2>1. PICK i \in DOMAIN s.entered : OutputsAre(RemoveAt(s.entered, i))
    BY <1>11 DEF LeaveOutput
  <2> DEFINE q == RemoveAt(s.entered, i)
  <2>2. q \in Seq(Scales) /\ Len(q) = Len(s.entered) - 1 /\ s.surface
    BY <1>2, <1>11, OneLess DEF LeaveOutput, Listens
  <2>3. Len(q) <= 2
    BY <1>1, <1>2, <2>2, LenProperties
  <2> HIDE DEF q
  <2> QED BY <2>1, <2>2, <2>3, HighestIsOne, WaylandScaled DEF OutputsAre, q
<1>12. CASE ConfigureToplevel
  BY <1>12, WaylandResizes, SizesAreExtents DEF ConfigureToplevel
<1>13. CASE \E bounds \in Bounds : ConfigureBounds(bounds)
  <2>1. PICK bounds \in Bounds : Resized(Bounded(s.size, bounds))
    BY <1>13 DEF ConfigureBounds
  <2>2. bounds \in Extents
    BY EventsAssumption DEF Extents
  <2> QED BY <1>2, <2>1, <2>2, BoundedIsAnExtent, WaylandResizes
<1>14. CASE CloseToplevel
  BY <1>14, WaylandVisible DEF CloseToplevel
<1>15. CASE \E press \in BOOLEAN : Button(press)
  BY <1>15, WaylandButtons DEF Button
<1>16. ~SetRawMouseInputEnabled
  BY <1>2 DEF SetRawMouseInputEnabled
<1> QED
  BY <1>3, <1>4, <1>6, <1>7, <1>8, <1>9, <1>10, <1>11, <1>12, <1>13, <1>14, <1>15, <1>16
  DEF Application, Listeners

-----------------------------------------------------------------------------
(***************************************************************************)
(* Android.                                                                *)
(***************************************************************************)
AndroidWindow ==
    [on : {"android"}, exists : BOOLEAN, visible : BOOLEAN, cursorEnabled : BOOLEAN,
     raw : BOOLEAN, size : Extents, registered : BOOLEAN, geometry : Extents,
     buttons : SUBSET Buttons]

AndroidFits(t) == t.registered => t.exists

AndroidInv(t) == t \in AndroidWindow /\ AndroidFits(t)

(* A step that leaves the window and its registration alone.               *)
LEMMA AndroidElse ==
    ASSUME NEW t, AndroidInv(t), NEW u \in AndroidWindow, u.exists = t.exists,
           u.registered = t.registered
    PROVE  AndroidInv(u)
BY DEF AndroidInv, AndroidFits

LEMMA AndroidResizes ==
    ASSUME NEW t, AndroidInv(t)
    PROVE  AndroidInv(AndroidResized(t))
<1> DEFINE u == [t EXCEPT !.size = t.geometry]
<1>1. t \in AndroidWindow
  BY DEF AndroidInv
<1>2. u \in AndroidWindow /\ u.exists = t.exists /\ u.registered = t.registered
  BY <1>1 DEF AndroidWindow
<1> HIDE DEF u
<1>3. AndroidInv(u)
  BY <1>2, AndroidElse
<1> QED BY <1>3 DEF AndroidResized, u

LEMMA AndroidMade ==
    ASSUME NEW t, AndroidInv(t)
    PROVE  AndroidInv(CreatePlatformWindow(t)) /\ CreatePlatformWindow(t).exists = TRUE
<1>1. t \in AndroidWindow /\ t.on = "android" /\ t.exists \in BOOLEAN
  BY DEF AndroidInv, AndroidWindow
<1>2. CreatePlatformWindow(t) = IF t.exists THEN t ELSE AndroidNew(t)
  BY <1>1 DEF CreatePlatformWindow, New
<1> DEFINE u == AndroidNew(t)
<1>3. u \in AndroidWindow /\ u.exists = TRUE
  BY <1>1 DEF AndroidWindow, AndroidNew
<1> HIDE DEF u
<1>4. AndroidInv(u)
  BY <1>3 DEF AndroidInv, AndroidFits
<1> QED BY <1>1, <1>2, <1>3, <1>4 DEF u

LEMMA AndroidCreated ==
    ASSUME NEW t, AndroidInv(t)
    PROVE  AndroidInv(Created(t))
<1> DEFINE u == CreatePlatformWindow(t)
           c == [u EXCEPT !.registered = TRUE]
<1>1. AndroidInv(u) /\ u.exists = TRUE
  BY AndroidMade
<1> HIDE DEF u
<1>2. u \in AndroidWindow /\ u.on = "android"
  BY <1>1 DEF AndroidInv, AndroidWindow
<1>3. c \in AndroidWindow /\ c.exists = TRUE
  BY <1>1, <1>2 DEF AndroidWindow
<1>4. Created(t) = AndroidResized(c)
  BY <1>2 DEF Created, NativeCreate, AndroidCreate, u
<1> HIDE DEF c
<1>5. AndroidInv(c)
  BY <1>3 DEF AndroidInv, AndroidFits
<1> QED BY <1>4, <1>5, AndroidResizes

LEMMA AndroidDestroyed ==
    ASSUME NEW t, AndroidInv(t)
    PROVE  AndroidInv(Destroyed(t))
<1> DEFINE u == CreatePlatformWindow(t)
           d == [AndroidDestroy(u) EXCEPT !.exists = FALSE]
<1>1. AndroidInv(u)
  BY AndroidMade
<1> HIDE DEF u
<1>2. u \in AndroidWindow /\ u.on = "android"
  BY <1>1 DEF AndroidInv, AndroidWindow
<1>3. Destroyed(t) = d
  BY <1>2 DEF Destroyed, NativeDestroy, u
<1>4. d \in AndroidWindow /\ d.registered = FALSE
  BY <1>2 DEF AndroidDestroy, AndroidWindow
<1> HIDE DEF d
<1>5. AndroidInv(d)
  BY <1>4 DEF AndroidInv, AndroidFits
<1> QED BY <1>3, <1>5

LEMMA AndroidVisible ==
    ASSUME NEW t, AndroidInv(t), NEW v \in BOOLEAN
    PROVE  AndroidInv(VisibleSet(t, v))
<1> DEFINE u == [t EXCEPT !.visible = v]
           c == Created(u)
<1>1. t \in AndroidWindow
  BY DEF AndroidInv
<1>2. u \in AndroidWindow /\ u.exists = t.exists /\ u.registered = t.registered
  BY <1>1 DEF AndroidWindow
<1> HIDE DEF u
<1>3. AndroidInv(c)
  BY <1>2, AndroidElse, AndroidCreated
<1> HIDE DEF c
<1>4. c.on = "android"
  BY <1>3 DEF AndroidInv, AndroidWindow
<1>5. OnVisibleChanged(u) = c
  BY <1>4 DEF OnVisibleChanged, Map, Unmap, c
<1> QED BY <1>3, <1>5 DEF VisibleSet, u

LEMMA AndroidStep == AndroidInv(s) /\ Next => AndroidInv(s')
<1> SUFFICES ASSUME AndroidInv(s), Next PROVE AndroidInv(s')
  OBVIOUS
<1>1. s \in AndroidWindow /\ s.on = "android"
  BY DEF AndroidInv, AndroidWindow
<1>2. /\ s.size.width \in Nat /\ s.size.height \in Nat
      /\ s.on # "xcb" /\ s.on # "win32" /\ s.on # "wayland"
  BY <1>1 DEF AndroidWindow, Extents
<1>3. Application \/ AndroidEvents
  BY <1>2 DEF Next, Server, UserResizes, UserCloses, UserPresses, UserReleases, UserScrolls,
     Shown, XcbLoop, Phase, WaitForEvents, ProcessXcbEvent, FallAsleep, WakeForXcb,
     ReturnFromWait, ProcessedAgain, WakeForOther, WindowProc, WmSize, WmClose, WmButtonDown,
     WmButtonUp, CaptureLost, SystemFails, Proc, Listeners, EnterOutput, LeaveOutput,
     ConfigureToplevel, ConfigureBounds, CloseToplevel, Button, Listens
<1>4. CASE SetVisible
  <2>1. (~s.visible) \in BOOLEAN
    OBVIOUS
  <2> QED BY <1>4, <2>1, AndroidVisible DEF SetVisible
<1>5. ASSUME NEW u \in AndroidWindow, u.exists = s.exists, u.registered = s.registered,
             s' \in {u, OnSizeChanged(u), OnCursorEnabledChanged(u), AndroidResized(u)}
      PROVE  AndroidInv(s')
  <2>1. u.on = "android"
    BY DEF AndroidWindow
  <2>2. OnSizeChanged(u) = u /\ OnCursorEnabledChanged(u) = u
    BY <2>1 DEF OnSizeChanged, SetSize, OnCursorEnabledChanged, EnableCursor, DisableCursor
  <2>3. AndroidInv(u)
    BY <1>5, AndroidElse
  <2> QED BY <1>5, <2>2, <2>3, AndroidResizes
<1>6. CASE \E w \in Widths : SetWidth(w)
  <2>1. PICK w \in Widths : SetWidth(w)
    BY <1>6
  <2> DEFINE u == [s EXCEPT !.size.width = w]
  <2>2. u \in AndroidWindow /\ u.exists = s.exists /\ u.registered = s.registered
    BY <1>1, SizesAreNumbers DEF AndroidWindow, Extents
  <2>3. s' = OnSizeChanged(u)
    BY <2>1 DEF SetWidth
  <2> HIDE DEF u
  <2> QED BY <1>5, <2>2, <2>3
<1>7. CASE \E h \in Heights : SetHeight(h)
  <2>1. PICK h \in Heights : SetHeight(h)
    BY <1>7
  <2> DEFINE u == [s EXCEPT !.size.height = h]
  <2>2. u \in AndroidWindow /\ u.exists = s.exists /\ u.registered = s.registered
    BY <1>1, SizesAreNumbers DEF AndroidWindow, Extents
  <2>3. s' = OnSizeChanged(u)
    BY <2>1 DEF SetHeight
  <2> HIDE DEF u
  <2> QED BY <1>5, <2>2, <2>3
<1>8. CASE SetCursorEnabled
  <2> DEFINE u == [s EXCEPT !.cursorEnabled = ~@]
  <2>1. u \in AndroidWindow /\ u.exists = s.exists /\ u.registered = s.registered
    BY <1>1 DEF AndroidWindow
  <2>2. s' = OnCursorEnabledChanged(u)
    BY <1>8 DEF SetCursorEnabled
  <2> HIDE DEF u
  <2> QED BY <1>5, <2>1, <2>2
<1>9. CASE Create \/ Destroy
  BY <1>9, AndroidCreated, AndroidDestroyed DEF Create, Destroy
<1>10. CASE Rotates
  <2>1. PICK size \in Sizes : s' = AndroidResized([s EXCEPT !.geometry = size])
    BY <1>10 DEF Rotates
  <2> DEFINE u == [s EXCEPT !.geometry = size]
  <2>2. u \in AndroidWindow /\ u.exists = s.exists /\ u.registered = s.registered
    BY <1>1, SizesAreExtents DEF AndroidWindow
  <2>3. s' = AndroidResized(u)
    BY <2>1
  <2> HIDE DEF u
  <2> QED BY <1>5, <2>2, <2>3
<1>11. CASE Touches \/ Lifts
  <2>1. PICK b \in Buttons : s' \in {Pressed(s, {b}), Released(s, {b})}
    BY <1>11 DEF Touches, Lifts
  <2>2. s' \in AndroidWindow /\ s'.exists = s.exists /\ s'.registered = s.registered
    BY <1>1, <2>1 DEF AndroidWindow, Pressed, Released
  <2> QED BY <1>5, <2>2
<1>12. ~SetRawMouseInputEnabled
  BY <1>2 DEF SetRawMouseInputEnabled
<1> QED
  BY <1>3, <1>4, <1>6, <1>7, <1>8, <1>9, <1>10, <1>11, <1>12 DEF Application, AndroidEvents

-----------------------------------------------------------------------------
(***************************************************************************)
(* Win32.                                                                  *)
(***************************************************************************)
Win32Window ==
    [on : {"win32"}, exists : BOOLEAN, visible : BOOLEAN, cursorEnabled : BOOLEAN,
     raw : BOOLEAN, size : Extents, handle : BOOLEAN, property : BOOLEAN, mode : Modes,
     buttons : SUBSET Buttons, rawFlag : BOOLEAN, geometry : Extents, asked : Extents,
     mapped : BOOLEAN, clip : BOOLEAN, capture : BOOLEAN, rawTarget : BOOLEAN, held : SUBSET Buttons,
     fails : BOOLEAN]

Win32Fits(t) ==
    /\ t.property <=> t.handle
    /\ t.handle => t.exists /\ t.size = t.geometry
    /\ ~t.handle => ~t.clip /\ ~t.mapped /\ ~t.capture /\ t.held = {}
    /\ ~t.exists => ~t.rawTarget
    /\ t.cursorEnabled => ~t.clip
    /\ t.exists => (t.rawFlag <=> t.rawTarget)
    /\ t.capture => t.buttons # {}
    /\ t.held # {} => t.capture
    /\ t.held \subseteq t.buttons

\* The slot of visible runs while a window that is mapped is no longer visible.
Win32Works(t) == t \in Win32Window /\ Win32Fits(t)

Win32Inv(t) == Win32Works(t) /\ (t.mapped => t.visible)

LEMMA Win32Made ==
    ASSUME NEW t, Win32Works(t)
    PROVE  /\ Win32Works(CreatePlatformWindow(t))
           /\ CreatePlatformWindow(t).exists = TRUE
           /\ CreatePlatformWindow(t).mapped = t.mapped
           /\ CreatePlatformWindow(t).visible = t.visible
<1>1. t \in Win32Window /\ t.on = "win32" /\ t.exists \in BOOLEAN
  BY DEF Win32Works, Win32Window
<1>2. CreatePlatformWindow(t) = IF t.exists THEN t ELSE Win32New(t)
  BY <1>1 DEF CreatePlatformWindow, New
<1> DEFINE u == Win32New(t)
<1>3. /\ u \in Win32Window /\ u.exists = TRUE /\ u.rawFlag = FALSE /\ u.buttons = {}
      /\ u.size = t.size /\ u.geometry = t.geometry /\ u.handle = t.handle
      /\ u.property = t.property /\ u.clip = t.clip /\ u.mapped = t.mapped
      /\ u.capture = t.capture /\ u.rawTarget = t.rawTarget /\ u.held = t.held
      /\ u.cursorEnabled = t.cursorEnabled /\ u.visible = t.visible
  BY <1>1 DEF Win32Window, Win32New, Modes
<1> HIDE DEF u
<1>4. ASSUME ~t.exists PROVE Win32Works(u)
  BY <1>3, <1>4 DEF Win32Works, Win32Fits
<1> QED BY <1>1, <1>2, <1>3, <1>4 DEF u

LEMMA Win32Created ==
    ASSUME NEW t, Win32Works(t)
    PROVE  Win32Works(Created(t)) /\ Created(t).mapped = t.mapped /\ Created(t).visible = t.visible
<1> DEFINE u == CreatePlatformWindow(t)
           c == [u EXCEPT !.handle = TRUE, !.property = TRUE, !.geometry = u.size]
<1>1. Win32Works(u) /\ u.exists = TRUE /\ u.mapped = t.mapped /\ u.visible = t.visible
  BY Win32Made
<1>2. u \in Win32Window /\ u.on = "win32"
  BY <1>1 DEF Win32Works, Win32Window
<1>3. Created(t) = IF u.handle \/ u.fails THEN u ELSE c
  BY <1>2 DEF Created, NativeCreate, Win32Create
<1> HIDE DEF u
<1>4. /\ c \in Win32Window /\ c.exists = u.exists /\ c.handle = TRUE /\ c.property = TRUE
      /\ c.geometry = u.size /\ c.size = u.size /\ c.rawFlag = u.rawFlag
      /\ c.buttons = u.buttons /\ c.clip = u.clip /\ c.mapped = u.mapped
      /\ c.capture = u.capture /\ c.rawTarget = u.rawTarget /\ c.held = u.held
      /\ c.cursorEnabled = u.cursorEnabled /\ c.visible = u.visible
  BY <1>2 DEF Win32Window
<1> HIDE DEF c
<1>5. Win32Works(c)
  BY <1>1, <1>4 DEF Win32Works, Win32Fits
<1> QED BY <1>1, <1>3, <1>4, <1>5

LEMMA Win32Destroyed ==
    ASSUME NEW t, Win32Inv(t)
    PROVE  Win32Inv(Destroyed(t))
<1> DEFINE u == CreatePlatformWindow(t)
           d == [Win32Destroy(u) EXCEPT !.exists = FALSE]
<1>1. Win32Works(u)
  BY Win32Made DEF Win32Inv
<1> HIDE DEF u
<1>2. u \in Win32Window /\ u.on = "win32"
  BY <1>1 DEF Win32Works, Win32Window
<1>3. Destroyed(t) = d
  BY <1>2 DEF Destroyed, NativeDestroy, u
<1>4. /\ d \in Win32Window /\ d.exists = FALSE /\ d.handle = FALSE /\ d.property = FALSE
      /\ d.clip = FALSE /\ d.mapped = FALSE
      /\ d.capture = FALSE /\ d.rawTarget = FALSE /\ d.held = {}
  BY <1>2, SizesAreExtents DEF Win32Destroy, Win32Window
<1> HIDE DEF d
<1>5. Win32Inv(d)
  BY <1>4 DEF Win32Inv, Win32Works, Win32Fits
<1> QED BY <1>3, <1>5

LEMMA Win32Visible ==
    ASSUME NEW t, Win32Inv(t), NEW v \in BOOLEAN
    PROVE  Win32Inv(VisibleSet(t, v))
<1> DEFINE u == [t EXCEPT !.visible = v]
           c == Created(u)
           m == Win32Map(c)
           n == Win32Unmap(c)
<1>1. t \in Win32Window
  BY DEF Win32Inv, Win32Works
<1>2. Win32Works(u) /\ u.visible = v
  <2>1. /\ u \in Win32Window /\ u.visible = v /\ u.exists = t.exists /\ u.handle = t.handle
        /\ u.property = t.property /\ u.geometry = t.geometry /\ u.size = t.size
        /\ u.rawFlag = t.rawFlag /\ u.buttons = t.buttons /\ u.clip = t.clip
        /\ u.mapped = t.mapped /\ u.capture = t.capture /\ u.rawTarget = t.rawTarget
        /\ u.held = t.held /\ u.cursorEnabled = t.cursorEnabled
    BY <1>1 DEF Win32Window
  <2> HIDE DEF u
  <2> QED BY <2>1 DEF Win32Inv, Win32Works, Win32Fits
<1> HIDE DEF u
<1>3. Win32Works(c) /\ c.visible = v
  BY <1>2, Win32Created
<1> HIDE DEF c
<1>4. c \in Win32Window /\ c.on = "win32"
  BY <1>3 DEF Win32Works, Win32Window
<1>5. OnVisibleChanged(u) = IF v THEN m ELSE n
  BY <1>2, <1>4 DEF OnVisibleChanged, Map, Unmap, c
<1>6. /\ m \in Win32Window /\ m.visible = c.visible /\ m.exists = c.exists
      /\ m.handle = c.handle /\ m.property = c.property /\ m.geometry = c.geometry
      /\ m.size = c.size /\ m.rawFlag = c.rawFlag /\ m.buttons = c.buttons
      /\ m.clip = c.clip /\ m.mapped = c.handle /\ m.capture = c.capture
      /\ m.rawTarget = c.rawTarget /\ m.held = c.held /\ m.cursorEnabled = c.cursorEnabled
  BY <1>4 DEF Win32Window, Win32Map
<1>7. /\ n \in Win32Window /\ n.visible = c.visible /\ n.exists = c.exists
      /\ n.handle = c.handle /\ n.property = c.property /\ n.geometry = c.geometry
      /\ n.size = c.size /\ n.rawFlag = c.rawFlag /\ n.buttons = c.buttons
      /\ n.clip = FALSE /\ n.mapped = FALSE /\ n.capture = c.capture
      /\ n.rawTarget = c.rawTarget /\ n.held = c.held /\ n.cursorEnabled = c.cursorEnabled
  BY <1>4 DEF Win32Window, Win32Unmap
<1> HIDE DEF m, n
<1>8. ASSUME v PROVE Win32Inv(m)
  BY <1>3, <1>6, <1>8 DEF Win32Inv, Win32Works, Win32Fits
<1>9. Win32Inv(n)
  BY <1>3, <1>7 DEF Win32Inv, Win32Works, Win32Fits
<1> QED BY <1>5, <1>8, <1>9 DEF VisibleSet, u

(* A new size, of the window and of its native one.                        *)
LEMMA Win32Resized ==
    ASSUME NEW t, Win32Inv(t), NEW size \in Extents
    PROVE  /\ Win32Inv([t EXCEPT !.size = size, !.geometry = size])
           /\ ~t.handle => Win32Inv([t EXCEPT !.size = size])
<1> DEFINE u == [t EXCEPT !.size = size, !.geometry = size]
           w == [t EXCEPT !.size = size]
<1>1. t \in Win32Window
  BY DEF Win32Inv, Win32Works
<1>2. /\ u \in Win32Window /\ u.visible = t.visible /\ u.exists = t.exists
      /\ u.handle = t.handle /\ u.property = t.property /\ u.geometry = size
      /\ u.size = size /\ u.rawFlag = t.rawFlag /\ u.buttons = t.buttons
      /\ u.clip = t.clip /\ u.mapped = t.mapped /\ u.capture = t.capture
      /\ u.rawTarget = t.rawTarget /\ u.held = t.held /\ u.cursorEnabled = t.cursorEnabled
  BY <1>1 DEF Win32Window
<1>3. /\ w \in Win32Window /\ w.visible = t.visible /\ w.exists = t.exists
      /\ w.handle = t.handle /\ w.property = t.property
      /\ w.rawFlag = t.rawFlag /\ w.buttons = t.buttons
      /\ w.clip = t.clip /\ w.mapped = t.mapped /\ w.capture = t.capture
      /\ w.rawTarget = t.rawTarget /\ w.held = t.held /\ w.cursorEnabled = t.cursorEnabled
  BY <1>1 DEF Win32Window
<1> HIDE DEF u, w
<1>4. Win32Inv(u)
  BY <1>2 DEF Win32Inv, Win32Works, Win32Fits
<1>5. ASSUME ~t.handle PROVE Win32Inv(w)
  BY <1>3, <1>5 DEF Win32Inv, Win32Works, Win32Fits
<1> QED BY <1>4, <1>5 DEF u, w

LEMMA Win32Sized ==
    ASSUME NEW t, Win32Inv(t), NEW size \in Extents
    PROVE  Win32Inv(OnSizeChanged([t EXCEPT !.size = size]))
<1> DEFINE w == [t EXCEPT !.size = size]
           g == Win32SetSize(w)
<1>1. t \in Win32Window /\ t.handle \in BOOLEAN /\ t.exists \in BOOLEAN
      /\ (t.handle => t.exists)
  BY DEF Win32Inv, Win32Works, Win32Window, Win32Fits
<1>2. /\ g \in Win32Window /\ g.visible = t.visible /\ g.exists = t.exists
      /\ g.handle = t.handle /\ g.property = t.property /\ g.geometry = size
      /\ g.size = size /\ g.rawFlag = t.rawFlag /\ g.buttons = t.buttons
      /\ g.clip = t.clip /\ g.mapped = t.mapped /\ g.capture = t.capture
      /\ g.rawTarget = t.rawTarget /\ g.held = t.held /\ g.cursorEnabled = t.cursorEnabled
  BY <1>1 DEF Win32SetSize, Win32Window
<1>3. w.on = "win32" /\ w.handle = t.handle /\ w.exists = t.exists
  BY <1>1 DEF Win32Window
<1> HIDE DEF w, g
<1>4. OnSizeChanged(w) = IF t.handle THEN g ELSE w
  BY <1>1, <1>3 DEF OnSizeChanged, IsCreated, SetSize, g
<1>5. CASE t.handle
  <2>1. Win32Inv(g)
    BY <1>2 DEF Win32Inv, Win32Works, Win32Fits
  <2> QED BY <1>4, <1>5, <2>1 DEF w
<1>6. CASE ~t.handle
  BY <1>4, <1>6, Win32Resized DEF w
<1> QED BY <1>5, <1>6

LEMMA Win32CursorSet ==
    ASSUME NEW t, Win32Inv(t)
    PROVE  Win32Inv(OnCursorEnabledChanged([t EXCEPT !.cursorEnabled = ~@]))
<1> DEFINE u == [t EXCEPT !.cursorEnabled = ~@]
           e == Win32EnableCursor(u)
           d == Win32DisableCursor(u)
<1>1. t \in Win32Window /\ t.handle \in BOOLEAN /\ t.exists \in BOOLEAN
      /\ (t.handle => t.exists)
  BY DEF Win32Inv, Win32Works, Win32Window, Win32Fits
<1>2. /\ u \in Win32Window /\ u.visible = t.visible /\ u.exists = t.exists
      /\ u.handle = t.handle /\ u.property = t.property /\ u.geometry = t.geometry
      /\ u.size = t.size /\ u.rawFlag = t.rawFlag /\ u.buttons = t.buttons
      /\ u.clip = t.clip /\ u.mapped = t.mapped /\ u.capture = t.capture
      /\ u.rawTarget = t.rawTarget /\ u.held = t.held /\ u.on = "win32"
  BY <1>1 DEF Win32Window
<1> HIDE DEF u
<1>3. OnCursorEnabledChanged(u) =
        IF ~t.handle THEN u ELSE IF u.cursorEnabled THEN e ELSE d
  BY <1>1, <1>2 DEF OnCursorEnabledChanged, IsCreated, EnableCursor, DisableCursor
<1>4. /\ e \in Win32Window /\ e.visible = t.visible /\ e.exists = t.exists
      /\ e.handle = t.handle /\ e.property = t.property /\ e.geometry = t.geometry
      /\ e.size = t.size /\ e.rawFlag = t.rawFlag /\ e.buttons = t.buttons
      /\ e.clip = FALSE /\ e.mapped = t.mapped /\ e.capture = t.capture
      /\ e.rawTarget = t.rawTarget /\ e.held = t.held
  BY <1>2 DEF Win32Window, Win32EnableCursor, Modes
<1>5. /\ d \in Win32Window /\ d.visible = t.visible /\ d.exists = t.exists
      /\ d.handle = t.handle /\ d.property = t.property /\ d.geometry = t.geometry
      /\ d.size = t.size /\ d.rawFlag = t.rawFlag /\ d.buttons = t.buttons
      /\ d.cursorEnabled = u.cursorEnabled /\ d.mapped = t.mapped /\ d.capture = t.capture
      /\ d.rawTarget = t.rawTarget /\ d.held = t.held
  BY <1>2 DEF Win32Window, Win32DisableCursor, Modes
<1> HIDE DEF e, d
<1>6. ASSUME ~t.handle PROVE Win32Inv(u)
  BY <1>2, <1>6 DEF Win32Inv, Win32Works, Win32Fits
<1>7. Win32Inv(e)
  BY <1>4 DEF Win32Inv, Win32Works, Win32Fits
<1>8. ASSUME ~u.cursorEnabled, t.handle PROVE Win32Inv(d)
  BY <1>5, <1>8 DEF Win32Inv, Win32Works, Win32Fits
<1>9. Win32Inv(OnCursorEnabledChanged(u))
  BY <1>1, <1>3, <1>6, <1>7, <1>8
<1> QED BY <1>9 DEF u

LEMMA Win32RawSet ==
    ASSUME NEW t, Win32Inv(t)
    PROVE  Win32Inv(OnRawMouseInputEnabledChanged([t EXCEPT !.raw = ~@]))
<1> DEFINE u == [t EXCEPT !.raw = ~@]
           w == OnRawMouseInputEnabledChanged(u)
           y == [u EXCEPT !.rawFlag = TRUE, !.rawTarget = TRUE]
           n == [u EXCEPT !.rawFlag = FALSE, !.rawTarget = FALSE]
<1>1. t \in Win32Window /\ t.handle \in BOOLEAN /\ t.exists \in BOOLEAN
      /\ (t.handle => t.exists)
  BY DEF Win32Inv, Win32Works, Win32Window, Win32Fits
<1>2. /\ u \in Win32Window /\ u.visible = t.visible /\ u.exists = t.exists
      /\ u.handle = t.handle /\ u.property = t.property /\ u.geometry = t.geometry
      /\ u.size = t.size /\ u.rawFlag = t.rawFlag /\ u.buttons = t.buttons
      /\ u.clip = t.clip /\ u.mapped = t.mapped /\ u.capture = t.capture
      /\ u.rawTarget = t.rawTarget /\ u.held = t.held /\ u.cursorEnabled = t.cursorEnabled
      /\ u.on = "win32"
  BY <1>1 DEF Win32Window
<1> HIDE DEF u
<1>3. w = u \/ (t.exists /\ w \in {y, n})
  BY <1>1, <1>2 DEF OnRawMouseInputEnabledChanged, IsCreated, Win32EnableRaw, Win32DisableRaw
<1> HIDE DEF w
<1>4. ASSUME NEW v \in {y, n}, t.exists PROVE Win32Inv(v)
  <2>1. PICK b \in BOOLEAN : v = [u EXCEPT !.rawFlag = b, !.rawTarget = b]
    BY <1>4
  <2>2. v \in Win32Window /\ v.rawFlag = b /\ v.rawTarget = b
    <3>1. u \in Win32Window
      BY <1>2
    <3> QED BY ONLY <2>1, <3>1 DEF Win32Window
  <2>3. /\ v.visible = t.visible /\ v.exists = t.exists
        /\ v.handle = t.handle /\ v.property = t.property /\ v.geometry = t.geometry
        /\ v.size = t.size /\ v.buttons = t.buttons
        /\ v.clip = t.clip /\ v.mapped = t.mapped /\ v.capture = t.capture
        /\ v.held = t.held /\ v.cursorEnabled = t.cursorEnabled
    BY <1>2, <2>1 DEF Win32Window
  <2> QED BY <1>4, <2>2, <2>3 DEF Win32Inv, Win32Works, Win32Fits
<1>5. Win32Inv(u)
  BY <1>2 DEF Win32Inv, Win32Works, Win32Fits
<1> QED BY <1>3, <1>4, <1>5 DEF w, u

LEMMA Win32ButtonsAgree ==
    ASSUME NEW t, Win32Inv(t), NEW u \in Win32Window, t.handle,
           u.visible = t.visible, u.exists = t.exists, u.handle = t.handle,
           u.property = t.property, u.geometry = t.geometry, u.size = t.size,
           u.rawFlag = t.rawFlag, u.clip = t.clip, u.mapped = t.mapped,
           u.rawTarget = t.rawTarget, u.cursorEnabled = t.cursorEnabled,
           u.capture => u.buttons # {}, u.held # {} => u.capture,
           u.held \subseteq u.buttons
    PROVE  Win32Inv(u)
BY DEF Win32Inv, Win32Works, Win32Fits

LEMMA Win32ButtonDown ==
    ASSUME NEW t, Win32Inv(t), t.handle, NEW b \in Buttons
    PROVE  Win32Inv(Win32GrabMouse(Pressed([t EXCEPT !.held = @ \cup {b}], {b})))
<1> DEFINE u == Win32GrabMouse(Pressed([t EXCEPT !.held = @ \cup {b}], {b}))
<1>1. t \in Win32Window /\ t.held \subseteq t.buttons /\ t.handle = TRUE
  BY DEF Win32Inv, Win32Works, Win32Fits, Win32Window
<1>2. /\ u \in Win32Window /\ u.visible = t.visible /\ u.exists = t.exists
      /\ u.handle = t.handle /\ u.property = t.property /\ u.geometry = t.geometry
      /\ u.size = t.size /\ u.rawFlag = t.rawFlag /\ u.clip = t.clip
      /\ u.mapped = t.mapped /\ u.rawTarget = t.rawTarget
      /\ u.cursorEnabled = t.cursorEnabled /\ u.capture = TRUE
      /\ u.held = t.held \cup {b} /\ u.buttons = t.buttons \cup {b}
  BY <1>1 DEF Win32GrabMouse, Pressed, Win32Window
<1> HIDE DEF u
<1>3. u.buttons # {} /\ u.held \subseteq u.buttons
  BY <1>1, <1>2
<1>4. Win32Inv(u)
  BY <1>2, <1>3, Win32ButtonsAgree
<1> QED BY <1>4 DEF u

LEMMA Win32ButtonUp ==
    ASSUME NEW t, Win32Inv(t), t.handle, t.capture, NEW b \in Buttons
    PROVE  Win32Inv(ButtonUp([t EXCEPT !.held = @ \ {b}], b))
<1> DEFINE u == Released([t EXCEPT !.held = @ \ {b}], {b})
           w == Win32ReleaseMouse(u)
<1>1. t \in Win32Window /\ t.held \subseteq t.buttons /\ t.capture = TRUE
  BY DEF Win32Inv, Win32Works, Win32Fits, Win32Window
<1>2. /\ u \in Win32Window /\ u.visible = t.visible /\ u.exists = t.exists
      /\ u.handle = t.handle /\ u.property = t.property /\ u.geometry = t.geometry
      /\ u.size = t.size /\ u.rawFlag = t.rawFlag /\ u.clip = t.clip
      /\ u.mapped = t.mapped /\ u.rawTarget = t.rawTarget
      /\ u.cursorEnabled = t.cursorEnabled /\ u.capture = TRUE
      /\ u.held = t.held \ {b} /\ u.buttons = t.buttons \ {b}
  BY <1>1 DEF Released, Win32Window
<1>3. ButtonUp([t EXCEPT !.held = @ \ {b}], b) = IF u.buttons = {} THEN w ELSE u
  BY DEF ButtonUp
<1> HIDE DEF u
<1>4. /\ w \in Win32Window /\ w.visible = t.visible /\ w.exists = t.exists
      /\ w.handle = t.handle /\ w.property = t.property /\ w.geometry = t.geometry
      /\ w.size = t.size /\ w.rawFlag = t.rawFlag /\ w.clip = t.clip
      /\ w.mapped = t.mapped /\ w.rawTarget = t.rawTarget
      /\ w.cursorEnabled = t.cursorEnabled /\ w.capture = FALSE
      /\ w.held = u.held /\ w.buttons = u.buttons
  BY <1>2 DEF Win32ReleaseMouse, Win32Window
<1> HIDE DEF w
<1>5. u.held \subseteq u.buttons
  BY <1>1, <1>2
<1>6. CASE u.buttons = {}
  <2>1. w.held = {}
    BY <1>4, <1>5, <1>6
  <2>2. Win32Inv(w)
    BY <1>4, <1>6, <2>1, Win32ButtonsAgree
  <2> QED BY <1>3, <1>6, <2>2
<1>7. CASE u.buttons # {}
  <2>1. Win32Inv(u)
    BY <1>2, <1>5, <1>7, Win32ButtonsAgree
  <2> QED BY <1>3, <1>7, <2>1
<1> QED BY <1>6, <1>7

LEMMA Win32Step == Win32Inv(s) /\ Next => Win32Inv(s')
<1> SUFFICES ASSUME Win32Inv(s), Next PROVE Win32Inv(s')
  OBVIOUS
<1>1. s \in Win32Window /\ s.on = "win32"
  BY DEF Win32Inv, Win32Works, Win32Window
<1>2. /\ s.size \in Extents /\ s.held \subseteq Buttons
      /\ s.property => s.handle
      /\ s.on # "xcb" /\ s.on # "android" /\ s.on # "wayland"
  BY <1>1 DEF Win32Window, Win32Inv, Win32Works, Win32Fits
<1>3. Application \/ WindowProc
  BY <1>2 DEF Next, Server, UserResizes, UserCloses, UserPresses, UserReleases, UserScrolls,
     Shown, XcbLoop, Phase, WaitForEvents, ProcessXcbEvent, FallAsleep, WakeForXcb,
     ReturnFromWait, ProcessedAgain, WakeForOther, Listeners, EnterOutput, LeaveOutput,
     ConfigureToplevel, ConfigureBounds, CloseToplevel, Button, Listens,
     AndroidEvents, Rotates, Touches, Lifts
<1>4. CASE SetVisible
  <2>1. (~s.visible) \in BOOLEAN
    OBVIOUS
  <2> QED BY <1>4, <2>1, Win32Visible DEF SetVisible
<1>5. CASE \E w \in Widths : SetWidth(w)
  <2>1. PICK w \in Widths : SetWidth(w)
    BY <1>5
  <2> DEFINE size == [s.size EXCEPT !.width = w]
  <2>2. size \in Extents
    BY <1>2, SizesAreNumbers DEF Extents
  <2>3. s' = OnSizeChanged([s EXCEPT !.size = size])
    BY <1>1, <2>1 DEF SetWidth, Win32Window
  <2> HIDE DEF size
  <2> QED BY <2>2, <2>3, Win32Sized
<1>6. CASE \E h \in Heights : SetHeight(h)
  <2>1. PICK h \in Heights : SetHeight(h)
    BY <1>6
  <2> DEFINE size == [s.size EXCEPT !.height = h]
  <2>2. size \in Extents
    BY <1>2, SizesAreNumbers DEF Extents
  <2>3. s' = OnSizeChanged([s EXCEPT !.size = size])
    BY <1>1, <2>1 DEF SetHeight, Win32Window
  <2> HIDE DEF size
  <2> QED BY <2>2, <2>3, Win32Sized
<1>7. CASE SetCursorEnabled
  BY <1>7, Win32CursorSet DEF SetCursorEnabled
<1>8. CASE SetRawMouseInputEnabled
  BY <1>8, Win32RawSet DEF SetRawMouseInputEnabled
<1>9. CASE Create
  BY <1>9, Win32Created DEF Create, Win32Inv
<1>10. CASE Destroy
  BY <1>10, Win32Destroyed DEF Destroy
<1>11. CASE WmSize
  <2>1. PICK size \in Sizes : s' = [[s EXCEPT !.geometry = size] EXCEPT !.size = size]
    BY <1>11 DEF WmSize, ResizeEvent
  <2>2. [[s EXCEPT !.geometry = size] EXCEPT !.size = size] = [s EXCEPT !.size = size, !.geometry = size]
    BY <1>1 DEF Win32Window
  <2> QED BY <2>1, <2>2, SizesAreExtents, Win32Resized
<1>12. CASE WmClose
  BY <1>12, Win32Visible DEF WmClose
<1>13. CASE WmButtonDown
  <2>1. PICK b \in Buttons : s' = Win32GrabMouse(Pressed([s EXCEPT !.held = @ \cup {b}], {b}))
    BY <1>13 DEF WmButtonDown
  <2>2. s.handle
    BY <1>2, <1>13 DEF WmButtonDown, Proc
  <2> QED BY <2>1, <2>2, Win32ButtonDown
<1>14. CASE WmButtonUp
  <2>1. PICK b \in s.held : s' = ButtonUp([s EXCEPT !.held = @ \ {b}], b)
    BY <1>14 DEF WmButtonUp
  <2>2. s.handle /\ s.capture /\ b \in Buttons
    BY <1>2, <1>14 DEF WmButtonUp, Proc
  <2> QED BY <2>1, <2>2, Win32ButtonUp
<1>15. CASE CaptureLost
  <2> DEFINE u == [s EXCEPT !.capture = FALSE, !.held = {}]
  <2>1. /\ u \in Win32Window /\ u.visible = s.visible /\ u.exists = s.exists
        /\ u.handle = s.handle /\ u.property = s.property /\ u.geometry = s.geometry
        /\ u.size = s.size /\ u.rawFlag = s.rawFlag /\ u.clip = s.clip
        /\ u.mapped = s.mapped /\ u.rawTarget = s.rawTarget
        /\ u.cursorEnabled = s.cursorEnabled /\ u.capture = FALSE
        /\ u.held = {} /\ u.buttons = s.buttons
    BY <1>1 DEF Win32Window
  <2>2. s' = u /\ s.handle
    BY <1>2, <1>15 DEF CaptureLost, Proc
  <2> HIDE DEF u
  <2>3. Win32Inv(u)
    BY <2>1, <2>2, Win32ButtonsAgree
  <2> QED BY <2>2, <2>3
<1>16. CASE SystemFails
  <2>0. PICK f \in BOOLEAN : s' = [s EXCEPT !.fails = f]
    <3>1. (~s.fails) \in BOOLEAN
      OBVIOUS
    <3> QED BY <1>16, <3>1 DEF SystemFails
  <2> DEFINE u == [s EXCEPT !.fails = f]
  <2>1. /\ u \in Win32Window /\ u.visible = s.visible /\ u.exists = s.exists
        /\ u.handle = s.handle /\ u.property = s.property /\ u.geometry = s.geometry
        /\ u.size = s.size /\ u.rawFlag = s.rawFlag /\ u.clip = s.clip
        /\ u.mapped = s.mapped /\ u.rawTarget = s.rawTarget
        /\ u.cursorEnabled = s.cursorEnabled /\ u.capture = s.capture
        /\ u.held = s.held /\ u.buttons = s.buttons
    BY <1>1 DEF Win32Window
  <2>2. s' = u
    BY <2>0
  <2> HIDE DEF u
  <2>3. Win32Inv(u)
    BY <2>1 DEF Win32Inv, Win32Works, Win32Fits
  <2> QED BY <2>2, <2>3
<1> QED
  BY <1>3, <1>4, <1>5, <1>6, <1>7, <1>8, <1>9, <1>10, <1>11, <1>12, <1>13, <1>14, <1>15, <1>16
  DEF Application, WindowProc

-----------------------------------------------------------------------------
(***************************************************************************)
(* Xcb: what the events under way bring.                                   *)
(***************************************************************************)
\* The last event of A is one of B.
Told(q, A, B) ==
    \E i \in 1..Len(q) : q[i] \in B /\ \A j \in i + 1..Len(q) : q[j] \notin A

Silent(q, A) == \A j \in 1..Len(q) : q[j] \notin A

\* What is left of a queue when its first event has been taken.
Shifted(q, r) == Len(q) = Len(r) + 1 /\ \A i \in 1..Len(r) : r[i] = q[i + 1]

LEMMA LaterTold ==
    ASSUME NEW S, NEW q \in Seq(S), NEW e \in S, NEW A, NEW B, e \notin A
    PROVE  /\ Told(q, A, B) => Told(Append(q, e), A, B)
           /\ Silent(q, A) => Silent(Append(q, e), A)
<1> DEFINE r == Append(q, e)
<1>1. /\ Len(q) \in Nat /\ Len(r) = Len(q) + 1 /\ r[Len(q) + 1] = e
      /\ \A i \in 1..Len(q) : r[i] = q[i]
  BY AppendProperties, LenProperties
<1> HIDE DEF r
<1>2. \A j \in 1..Len(r) : (j \in 1..Len(q) /\ r[j] = q[j]) \/ r[j] \notin A
  BY <1>1
<1>3. ASSUME NEW i \in 1..Len(q), q[i] \in B, \A j \in i + 1..Len(q) : q[j] \notin A
      PROVE  Told(r, A, B)
  <2>1. i \in 1..Len(r) /\ r[i] \in B
    BY <1>1, <1>3
  <2>2. \A j \in i + 1..Len(r) : r[j] \notin A
    BY <1>1, <1>2, <1>3
  <2> QED BY <2>1, <2>2 DEF Told
<1>4. Silent(q, A) => Silent(r, A)
  BY <1>1, <1>2 DEF Silent
<1> QED BY <1>3, <1>4 DEF Told, r

LEMMA NowTold ==
    ASSUME NEW S, NEW q \in Seq(S), NEW e \in S, NEW A, NEW B, e \in B
    PROVE  Told(Append(q, e), A, B)
<1> DEFINE r == Append(q, e)
           n == Len(r)
<1>1. n \in Nat /\ n \in 1..n /\ r[n] = e
  BY AppendProperties, LenProperties
<1>2. \A j \in n + 1..n : r[j] \notin A
  BY <1>1
<1> HIDE DEF r
<1> QED BY <1>1, <1>2 DEF Told, r

LEMMA OneTaken ==
    ASSUME NEW S, NEW q \in Seq(S), NEW r \in Seq(S), Shifted(q, r), NEW A, NEW B
    PROVE  /\ Told(q, A, B) => Told(r, A, B) \/ (q[1] \in B /\ Silent(r, A))
           /\ Silent(q, A) => q[1] \notin A /\ Silent(r, A)
<1>1. /\ Len(q) \in Nat /\ Len(r) \in Nat /\ Len(q) = Len(r) + 1
      /\ \A i \in 1..Len(r) : i + 1 \in 1..Len(q) /\ r[i] = q[i + 1]
  BY LenProperties DEF Shifted
<1>2. ASSUME NEW i \in 1..Len(q), q[i] \in B, \A j \in i + 1..Len(q) : q[j] \notin A
      PROVE  Told(r, A, B) \/ (q[1] \in B /\ Silent(r, A))
  <2>1. \A j \in 1..Len(r) : j >= i => r[j] \notin A
    BY <1>1, <1>2
  <2>2. CASE i = 1
    BY <1>2, <2>1, <2>2 DEF Silent
  <2>3. CASE i # 1
    <3>1. i - 1 \in 1..Len(r) /\ r[i - 1] = q[i]
      BY <1>1, <2>3
    <3>2. \A j \in (i - 1) + 1..Len(r) : r[j] \notin A
      BY <1>1, <2>1, <3>1
    <3>3. r[i - 1] \in B
      BY <1>2, <3>1
    <3>4. Told(r, A, B)
      BY ONLY <3>1, <3>2, <3>3 DEF Told
    <3> QED BY <3>4
  <2> QED BY <2>2, <2>3
<1>3. Silent(q, A) => q[1] \notin A /\ Silent(r, A)
  BY <1>1 DEF Silent
<1> QED BY <1>2, <1>3 DEF Told
-----------------------------------------------------------------------------
(***************************************************************************)
(* Xcb: the invariant.                                                     *)
(***************************************************************************)
XcbEvent ==
    [type : {"close"}, id : Nat] \cup [type : {"configure"}, id : Nat, of : Extents]
       \cup [type : {"press", "release"}, id : Nat, of : Buttons \cup {Wheel}]

SizesOf(xid) == {e \in XcbEvent : e.type = "configure" /\ e.id = xid}

ClicksOf(xid, b) ==
    {e \in XcbEvent : e.type \in {"press", "release"} /\ e.id = xid /\ e.of = b}

PressesOf(xid, b) == {e \in ClicksOf(xid, b) : e.type = "press"}

\* The last size that is reported is that of the window on the screen, which
\* is also the size of the window when no report is under way.
Sized(q, xid, size, geometry) ==
    \/ Told(q, SizesOf(xid), {e \in SizesOf(xid) : e.of = geometry})
    \/ size = geometry /\ Silent(q, SizesOf(xid))

\* The last that is said of the button is that it is pressed.
Known(q, xid, b, buttons) ==
    \/ Told(q, ClicksOf(xid, b), PressesOf(xid, b))
    \/ b \in buttons /\ Silent(q, ClicksOf(xid, b))

XcbWindow ==
    [on : {"xcb"}, exists : BOOLEAN, visible : BOOLEAN, cursorEnabled : BOOLEAN,
     raw : BOOLEAN, size : Extents, handle : Nat, ids : Nat, registered : SUBSET Nat,
     mode : Modes, buttons : SUBSET Buttons, geometry : Extents, mapped : BOOLEAN,
     grabbed : BOOLEAN, held : SUBSET Buttons, socket : Seq(XcbEvent),
     buffered : Seq(XcbEvent), phase : {"app", "process", "asleep", "callbacks", "again"},
     pending : BOOLEAN]

Queue(t) == t.buffered \o t.socket

XcbFits(t) ==
    /\ t.exists <=> t.handle # 0
    /\ t.registered = {t.handle} \ {0}
    /\ t.handle <= t.ids
    /\ t.handle = 0 => ~t.mapped /\ ~t.grabbed /\ t.held = {}
    /\ t.cursorEnabled => ~t.grabbed
    /\ t.handle # 0 => (t.mode = "disabled" <=> ~t.cursorEnabled)

XcbHears(t) ==
    /\ \A i \in 1..Len(Queue(t)) : Queue(t)[i].id <= t.ids
    /\ t.handle # 0 =>
         /\ Sized(Queue(t), t.handle, t.size, t.geometry)
         /\ \A b \in t.held : Known(Queue(t), t.handle, b, t.buttons)

\* The slot of visible runs while a window that is mapped is no longer visible.
XcbWorks(t) == t \in XcbWindow /\ XcbFits(t) /\ XcbHears(t)

XcbInv(t) == XcbWorks(t) /\ (t.mapped => t.visible) /\ t.ids <= MaxIds

LEMMA EventFields ==
    ASSUME NEW e \in XcbEvent
    PROVE  /\ e.id \in Nat
           /\ e.type \in {"close", "configure", "press", "release"}
           /\ e.type = "configure" => e.of \in Extents
           /\ e.type \in {"press", "release"} => e.of \in Buttons \cup {Wheel}
BY DEF XcbEvent

LEMMA QueueOf ==
    ASSUME NEW t \in XcbWindow
    PROVE  /\ t.buffered \in Seq(XcbEvent) /\ t.socket \in Seq(XcbEvent)
           /\ Queue(t) \in Seq(XcbEvent) /\ Len(Queue(t)) \in Nat
<1>1. t.buffered \in Seq(XcbEvent) /\ t.socket \in Seq(XcbEvent)
  BY DEF XcbWindow
<1>2. Queue(t) \in Seq(XcbEvent)
  BY <1>1, ConcatProperties DEF Queue
<1> QED BY <1>1, <1>2, LenProperties

(* A round trip reads what was sent: the queue stays as it is.             *)
LEMMA RoundtripKeeps ==
    ASSUME NEW t \in XcbWindow
    PROVE  /\ Roundtrip(t) \in XcbWindow
           /\ Roundtrip(t).socket = <<>> /\ Roundtrip(t).buffered = Queue(t)
           /\ Queue(Roundtrip(t)) = Queue(t)
<1> DEFINE u == Roundtrip(t)
<1>1. Queue(t) \in Seq(XcbEvent)
  BY QueueOf
<1>2. <<>> \in Seq(XcbEvent)
  BY EmptySeq
<1>3. u = [t EXCEPT !.buffered = Queue(t), !.socket = <<>>]
  BY DEF Roundtrip, Queue, XcbWindow
<1>4. u \in XcbWindow
  <2>1. \A p, q \in Seq(XcbEvent) : [t EXCEPT !.buffered = p, !.socket = q] \in XcbWindow
    BY DEF XcbWindow
  <2> QED BY ONLY <1>1, <1>2, <1>3, <2>1
<1>5. u.socket = <<>> /\ u.buffered = Queue(t)
  BY <1>3 DEF XcbWindow
<1> HIDE DEF u
<1>6. Queue(u) = Queue(t) \o <<>>
  BY <1>5 DEF Queue
<1>7. Queue(t) \o <<>> = Queue(t)
  BY <1>1, ConcatEmptySeq
<1> QED BY <1>4, <1>5, <1>6, <1>7 DEF u

LEMMA ConcatAppends ==
    ASSUME NEW S, NEW p \in Seq(S), NEW q \in Seq(S), NEW e \in S
    PROVE  p \o Append(q, e) = Append(p \o q, e)
<1>1. p \o q \in Seq(S)
  BY ConcatProperties
<1>2. <<e>> \in Seq(S)
  OBVIOUS
<1>3. Append(q, e) = q \o <<e>> /\ Append(p \o q, e) = (p \o q) \o <<e>>
  BY <1>1, AppendIsConcat
<1>4. ASSUME NEW z \in Seq(S) PROVE (p \o q) \o z = p \o (q \o z)
  BY ConcatAssociative
<1>5. (p \o q) \o <<e>> = p \o (q \o <<e>>)
  BY ONLY Zenon, <1>2, <1>4
<1> QED BY ONLY Zenon, <1>3, <1>5

LEMMA SendsAppends ==
    ASSUME NEW t \in XcbWindow, NEW u \in XcbWindow, NEW e \in XcbEvent,
           u.buffered = t.buffered, u.socket = Append(t.socket, e)
    PROVE  Queue(u) = Append(Queue(t), e)
<1>1. t.buffered \in Seq(XcbEvent) /\ t.socket \in Seq(XcbEvent)
  BY QueueOf
<1>2. \A p, q \in Seq(XcbEvent) : p \o Append(q, e) = Append(p \o q, e)
  BY ConcatAppends
<1>3. t.buffered \o Append(t.socket, e) = Append(t.buffered \o t.socket, e)
  BY ONLY <1>1, <1>2, Zenon
<1> QED BY <1>3 DEF Queue

-----------------------------------------------------------------------------
(***************************************************************************)
(* Xcb: the calls.                                                         *)
(***************************************************************************)
LEMMA HearsTheSame ==
    ASSUME NEW t, XcbHears(t), NEW u, Queue(u) = Queue(t), u.ids = t.ids,
           u.handle = 0 \/ (/\ u.handle = t.handle /\ u.size = t.size
                            /\ u.geometry = t.geometry /\ u.buttons = t.buttons
                            /\ u.held \subseteq t.held)
    PROVE  XcbHears(u)
BY DEF XcbHears

\* No event is about a window that has yet to be made.
LEMMA NothingYet ==
    ASSUME NEW t \in XcbWindow, XcbHears(t), NEW xid \in Nat, xid > t.ids
    PROVE  Silent(Queue(t), SizesOf(xid))
<1>1. /\ Queue(t) \in Seq(XcbEvent) /\ t.ids \in Nat
      /\ \A i \in 1..Len(Queue(t)) : Queue(t)[i].id <= t.ids
  BY QueueOf DEF XcbWindow, XcbHears
<1>2. \A i \in 1..Len(Queue(t)) : Queue(t)[i] \in XcbEvent
  BY <1>1, ElementOfSeq
<1>3. \A i \in 1..Len(Queue(t)) : Queue(t)[i].id \in Nat
  BY <1>2, EventFields
<1>4. \A i \in 1..Len(Queue(t)) : Queue(t)[i].id # xid
  BY <1>1, <1>3
<1> QED BY <1>4 DEF Silent, SizesOf

LEMMA XcbDisabled ==
    ASSUME NEW t \in XcbWindow
    PROVE  LET d == XcbDisableCursor(t)
           IN /\ d \in XcbWindow /\ Queue(d) = Queue(t) /\ d.mode = "disabled"
              /\ d.grabbed = t.mapped /\ d.visible = t.visible /\ d.exists = t.exists
              /\ d.handle = t.handle /\ d.ids = t.ids /\ d.registered = t.registered
              /\ d.buttons = t.buttons /\ d.geometry = t.geometry /\ d.mapped = t.mapped
              /\ d.held = t.held /\ d.cursorEnabled = t.cursorEnabled /\ d.size = t.size
<1> DEFINE u == Roundtrip(t)
           d == [u EXCEPT !.mode = "disabled", !.grabbed = t.mapped]
<1>1. /\ u \in XcbWindow /\ Queue(u) = Queue(t)
  BY RoundtripKeeps
<1>2. /\ u.visible = t.visible /\ u.exists = t.exists /\ t.mapped \in BOOLEAN
      /\ u.handle = t.handle /\ u.ids = t.ids /\ u.registered = t.registered
      /\ u.buttons = t.buttons /\ u.geometry = t.geometry /\ u.mapped = t.mapped
      /\ u.held = t.held /\ u.cursorEnabled = t.cursorEnabled /\ u.size = t.size
  BY DEF Roundtrip, XcbWindow
<1> HIDE DEF u
<1>3. /\ d \in XcbWindow /\ d.mode = "disabled"
      /\ d.buffered = u.buffered /\ d.socket = u.socket
      /\ d.grabbed = t.mapped /\ d.visible = u.visible /\ d.exists = u.exists
      /\ d.handle = u.handle /\ d.ids = u.ids /\ d.registered = u.registered
      /\ d.buttons = u.buttons /\ d.geometry = u.geometry /\ d.mapped = u.mapped
      /\ d.held = u.held /\ d.cursorEnabled = u.cursorEnabled /\ d.size = u.size
  BY <1>1, <1>2 DEF XcbWindow, Modes
<1>4. XcbDisableCursor(t) = d
  BY DEF XcbDisableCursor, u
<1> HIDE DEF d
<1>5. Queue(d) = Queue(u)
  BY <1>3 DEF Queue
<1> QED BY <1>1, <1>2, <1>3, <1>4, <1>5

LEMMA XcbMade ==
    ASSUME NEW t, XcbWorks(t), t.handle = 0
    PROVE  LET m == XcbMake(XcbNew(t))
           IN /\ m \in XcbWindow /\ Queue(m) = Queue(t) /\ m.exists = TRUE
              /\ m.handle = t.ids + 1 /\ m.ids = t.ids + 1 /\ m.registered = {t.ids + 1}
              /\ m.mode = "normal" /\ m.geometry = t.size /\ m.size = t.size
              /\ m.mapped = FALSE /\ m.grabbed = FALSE /\ m.held = {}
              /\ m.visible = t.visible /\ m.cursorEnabled = t.cursorEnabled
<1> DEFINE n == XcbNew(t)
           u == Roundtrip(n)
           m == XcbMake(n)
<1>1. /\ t \in XcbWindow /\ t.registered = {} /\ t.mapped = FALSE /\ t.grabbed = FALSE
      /\ t.held = {}
  BY DEF XcbWorks, XcbFits, XcbWindow
<1>2. /\ n \in XcbWindow /\ n.exists = TRUE /\ n.mode = "normal" /\ n.ids = t.ids
      /\ n.registered = {} /\ n.mapped = FALSE /\ n.grabbed = FALSE /\ n.held = {}
      /\ n.size = t.size /\ n.visible = t.visible /\ n.cursorEnabled = t.cursorEnabled
      /\ n.buffered = t.buffered /\ n.socket = t.socket
  BY <1>1 DEF XcbNew, XcbWindow, Modes
<1> HIDE DEF n
<1>3. Queue(n) = Queue(t)
  BY <1>2 DEF Queue
<1>4. u \in XcbWindow /\ Queue(u) = Queue(n)
  BY <1>2, RoundtripKeeps
<1>5. /\ u.exists = TRUE /\ u.mode = "normal" /\ u.ids = t.ids
      /\ u.registered = {} /\ u.mapped = FALSE /\ u.grabbed = FALSE /\ u.held = {}
      /\ u.size = t.size /\ u.visible = t.visible /\ u.cursorEnabled = t.cursorEnabled
      /\ n.ids = u.ids /\ n.size = u.size
  BY <1>2 DEF Roundtrip, XcbWindow
<1>6. m = [u EXCEPT !.handle = n.ids + 1, !.ids = @ + 1,
                    !.registered = @ \cup {n.ids + 1}, !.geometry = n.size]
  BY DEF XcbMake
<1> HIDE DEF u, m
<1>7. /\ m \in XcbWindow /\ m.exists = TRUE /\ m.mode = "normal" /\ m.ids = t.ids + 1
      /\ m.handle = t.ids + 1 /\ m.geometry = t.size
      /\ m.registered = {t.ids + 1} /\ m.mapped = FALSE /\ m.grabbed = FALSE /\ m.held = {}
      /\ m.size = t.size /\ m.visible = t.visible /\ m.cursorEnabled = t.cursorEnabled
      /\ m.buffered = u.buffered /\ m.socket = u.socket
  <2>1. t.ids + 1 \in Nat /\ t.size \in Extents /\ {t.ids + 1} \in SUBSET Nat
    BY <1>1 DEF XcbWindow
  <2>2. {} \cup {t.ids + 1} = {t.ids + 1}
    OBVIOUS
  <2>3. m = [u EXCEPT !.handle = t.ids + 1, !.ids = t.ids + 1,
                      !.registered = {t.ids + 1}, !.geometry = t.size]
    BY <1>2, <1>4, <1>5, <1>6, <2>2
  <2> QED BY <1>4, <1>5, <2>1, <2>3 DEF XcbWindow
<1>8. Queue(m) = Queue(u)
  BY <1>7 DEF Queue
<1> QED BY <1>3, <1>4, <1>7, <1>8 DEF m, n

LEMMA XcbCreated ==
    ASSUME NEW t, XcbWorks(t)
    PROVE  /\ XcbWorks(Created(t)) /\ Created(t).visible = t.visible
           /\ Created(t).mapped = t.mapped /\ Created(t).handle # 0
           /\ t.handle # 0 => Created(t) = t
           /\ t.handle = 0 => Created(t).ids = t.ids + 1
<1>1. t \in XcbWindow /\ t.on = "xcb" /\ (t.exists <=> t.handle # 0) /\ t.ids \in Nat
  BY DEF XcbWorks, XcbFits, XcbWindow
<1>2. CASE t.handle # 0
  <2>1. Created(t) = t
    BY <1>1, <1>2 DEF Created, CreatePlatformWindow, NativeCreate, XcbCreate
  <2> QED BY <1>2, <2>1
<1>3. CASE t.handle = 0
  <2> DEFINE n == XcbNew(t)
             m == XcbMake(n)
             d == XcbDisableCursor(m)
             c == Created(t)
  <2>1. n.on = "xcb" /\ n.handle = 0 /\ n.cursorEnabled = t.cursorEnabled
    BY <1>1, <1>3 DEF XcbNew, XcbWindow
  <2>2. CreatePlatformWindow(t) = n
    BY <1>1, <1>3 DEF CreatePlatformWindow, New
  <2> HIDE DEF n
  <2>3. c = IF t.cursorEnabled THEN m ELSE d
    BY <2>1, <2>2 DEF Created, NativeCreate, XcbCreate
  <2>4. /\ m \in XcbWindow /\ Queue(m) = Queue(t) /\ m.exists = TRUE
        /\ m.handle = t.ids + 1 /\ m.ids = t.ids + 1 /\ m.registered = {t.ids + 1}
        /\ m.mode = "normal" /\ m.geometry = t.size /\ m.size = t.size
        /\ m.mapped = FALSE /\ m.grabbed = FALSE /\ m.held = {}
        /\ m.visible = t.visible /\ m.cursorEnabled = t.cursorEnabled
    BY <1>3, XcbMade DEF n
  <2> HIDE DEF m
  <2>5. /\ d \in XcbWindow /\ Queue(d) = Queue(t) /\ d.exists = TRUE
        /\ d.handle = t.ids + 1 /\ d.ids = t.ids + 1 /\ d.registered = {t.ids + 1}
        /\ d.mode = "disabled" /\ d.geometry = t.size /\ d.size = t.size
        /\ d.mapped = FALSE /\ d.grabbed = FALSE /\ d.held = {}
        /\ d.visible = t.visible /\ d.cursorEnabled = t.cursorEnabled
    BY <2>4, XcbDisabled
  <2> HIDE DEF d, c
  <2>6. /\ c \in XcbWindow /\ Queue(c) = Queue(t) /\ c.exists = TRUE
        /\ c.handle = t.ids + 1 /\ c.ids = t.ids + 1 /\ c.registered = {t.ids + 1}
        /\ c.mode = "disabled" <=> ~t.cursorEnabled
        /\ c.geometry = t.size /\ c.size = t.size
        /\ c.mapped = FALSE /\ c.grabbed = FALSE /\ c.held = {}
        /\ c.visible = t.visible /\ c.cursorEnabled = t.cursorEnabled
    BY <2>3, <2>4, <2>5
  <2>7. XcbFits(c)
    BY <1>1, <2>6 DEF XcbFits
  <2>8. XcbHears(c)
    <3>1. /\ Queue(t) \in Seq(XcbEvent) /\ XcbHears(t)
          /\ \A i \in 1..Len(Queue(t)) : Queue(t)[i] \in XcbEvent
      BY <1>1, QueueOf, ElementOfSeq DEF XcbWorks
    <3>2. \A i \in 1..Len(Queue(t)) : Queue(t)[i].id \in Nat /\ Queue(t)[i].id <= t.ids
      BY <3>1, EventFields DEF XcbHears
    <3>3. \A i \in 1..Len(Queue(t)) : Queue(t)[i].id <= t.ids + 1
      BY <1>1, <3>2
    <3>4. Silent(Queue(t), SizesOf(t.ids + 1))
      BY <1>1, <3>1, NothingYet
    <3>5. Sized(Queue(c), c.handle, c.size, c.geometry)
      BY <2>6, <3>4 DEF Sized
    <3> QED BY <2>6, <3>3, <3>5 DEF XcbHears
  <2>9. t.mapped = FALSE
    BY <1>1, <1>3 DEF XcbWorks, XcbFits, XcbWindow
  <2>10. /\ XcbWorks(c) /\ c.visible = t.visible /\ c.mapped = t.mapped
         /\ c.handle # 0 /\ c.ids = t.ids + 1
    <3>1. XcbWorks(c)
      BY <2>6, <2>7, <2>8 DEF XcbWorks
    <3>2. c.handle # 0
      BY <1>1, <2>6
    <3>3. c.visible = t.visible /\ c.mapped = t.mapped /\ c.ids = t.ids + 1
      BY <2>6, <2>9
    <3> QED BY <3>1, <3>2, <3>3
  <2> QED BY <1>3, <2>10 DEF c
<1> QED BY <1>2, <1>3

LEMMA XcbDestroyed ==
    ASSUME NEW t, XcbWorks(t), t.handle # 0
    PROVE  /\ XcbWorks(Destroyed(t)) /\ Destroyed(t).mapped = FALSE
           /\ Destroyed(t).ids = t.ids
<1> DEFINE d == [XcbDestroy(t) EXCEPT !.exists = FALSE]
<1>1. /\ t \in XcbWindow /\ t.on = "xcb" /\ t.exists
      /\ t.registered = {t.handle} \ {0} /\ t.ids \in Nat
  BY DEF XcbWorks, XcbFits, XcbWindow
<1>2. Destroyed(t) = d
  BY <1>1 DEF Destroyed, NativeDestroy, CreatePlatformWindow
<1>3. /\ d \in XcbWindow /\ d.exists = FALSE /\ d.handle = 0 /\ d.registered = {}
      /\ d.mapped = FALSE /\ d.grabbed = FALSE /\ d.held = {} /\ d.ids = t.ids
      /\ d.buffered = t.buffered /\ d.socket = t.socket
  BY <1>1, SizesAreExtents DEF XcbDestroy, XcbWindow
<1> HIDE DEF d
<1>4. Queue(d) = Queue(t)
  BY <1>3 DEF Queue
<1>5. XcbHears(d)
  BY <1>3, <1>4, HearsTheSame DEF XcbWorks
<1>6. XcbFits(d)
  BY <1>1, <1>3 DEF XcbFits
<1> QED BY <1>2, <1>3, <1>5, <1>6 DEF XcbWorks

LEMMA XcbVisible ==
    ASSUME NEW t, XcbInv(t), NEW v \in BOOLEAN, t.handle # 0 \/ t.ids < MaxIds
    PROVE  XcbInv(VisibleSet(t, v))
<1> DEFINE u == [t EXCEPT !.visible = v]
           c == Created(u)
           m == XcbMap(c)
           n == XcbUnmap(c)
<1>1. t \in XcbWindow /\ t.ids \in Nat /\ XcbFits(t) /\ XcbHears(t)
  BY DEF XcbInv, XcbWorks, XcbWindow
<1>2. XcbWorks(u) /\ u.visible = v /\ u.handle = t.handle /\ u.ids = t.ids
  <2>1. /\ u \in XcbWindow /\ u.visible = v /\ u.exists = t.exists /\ u.handle = t.handle
        /\ u.ids = t.ids /\ u.registered = t.registered /\ u.mode = t.mode
        /\ u.buttons = t.buttons /\ u.geometry = t.geometry /\ u.mapped = t.mapped
        /\ u.grabbed = t.grabbed /\ u.held = t.held /\ u.size = t.size
        /\ u.cursorEnabled = t.cursorEnabled
        /\ u.buffered = t.buffered /\ u.socket = t.socket
    BY <1>1 DEF XcbWindow
  <2> HIDE DEF u
  <2>2. Queue(u) = Queue(t)
    BY <2>1 DEF Queue
  <2>3. XcbFits(u) /\ XcbHears(u)
    BY <1>1, <2>1, <2>2, HearsTheSame DEF XcbFits
  <2> QED BY <2>1, <2>3 DEF XcbWorks
<1> HIDE DEF u
<1>3. XcbWorks(c) /\ c.visible = v /\ c.handle # 0 /\ c.ids <= MaxIds
  <2>1. /\ XcbWorks(c) /\ c.visible = v /\ c.handle # 0
        /\ t.handle # 0 => c = u
        /\ t.handle = 0 => c.ids = t.ids + 1
    BY <1>2, XcbCreated
  <2> QED BY <1>1, <1>2, <2>1, EventsAssumption DEF XcbInv
<1> HIDE DEF c
<1>4. c \in XcbWindow /\ c.on = "xcb" /\ XcbFits(c) /\ XcbHears(c)
  BY <1>3 DEF XcbWorks, XcbWindow
<1>5. OnVisibleChanged(u) = IF v THEN m ELSE n
  BY <1>2, <1>4 DEF OnVisibleChanged, Map, Unmap, c
<1>6. /\ m \in XcbWindow /\ m.visible = c.visible /\ m.exists = c.exists
      /\ m.handle = c.handle /\ m.ids = c.ids /\ m.registered = c.registered
      /\ m.mode = c.mode /\ m.buttons = c.buttons /\ m.geometry = c.geometry
      /\ m.mapped = TRUE /\ m.grabbed = c.grabbed /\ m.held = c.held /\ m.size = c.size
      /\ m.cursorEnabled = c.cursorEnabled
      /\ m.buffered = c.buffered /\ m.socket = c.socket
  BY <1>4 DEF XcbMap, XcbWindow
<1>7. /\ n \in XcbWindow /\ n.visible = c.visible /\ n.exists = c.exists
      /\ n.handle = c.handle /\ n.ids = c.ids /\ n.registered = c.registered
      /\ n.mode = c.mode /\ n.buttons = c.buttons /\ n.geometry = c.geometry
      /\ n.mapped = FALSE /\ n.grabbed = FALSE /\ n.held = {} /\ n.size = c.size
      /\ n.cursorEnabled = c.cursorEnabled
      /\ n.buffered = c.buffered /\ n.socket = c.socket
  BY <1>4 DEF XcbUnmap, XcbWindow
<1> HIDE DEF m, n
<1>8. ASSUME v PROVE XcbInv(m)
  <2>1. Queue(m) = Queue(c)
    BY <1>6 DEF Queue
  <2>2. XcbHears(m)
    BY <1>4, <1>6, <2>1, HearsTheSame
  <2>3. XcbFits(m)
    BY <1>3, <1>4, <1>6 DEF XcbFits
  <2> QED BY <1>3, <1>6, <1>8, <2>2, <2>3 DEF XcbInv, XcbWorks
<1>9. XcbInv(n)
  <2>1. Queue(n) = Queue(c)
    BY <1>7 DEF Queue
  <2>2. XcbHears(n)
    BY <1>4, <1>7, <2>1, HearsTheSame
  <2>3. XcbFits(n)
    BY <1>3, <1>4, <1>7 DEF XcbFits
  <2> QED BY <1>3, <1>7, <2>2, <2>3 DEF XcbInv, XcbWorks
<1>10. t.visible = v => VisibleSet(t, v) = t
  BY DEF VisibleSet
<1>11. t.visible # v => VisibleSet(t, v) = IF v THEN m ELSE n
  BY <1>5 DEF VisibleSet, u
<1> QED BY <1>8, <1>9, <1>10, <1>11

(* A step that leaves the window on the screen alone.                      *)
LEMMA XcbKeeps ==
    ASSUME NEW t, XcbInv(t), NEW u \in XcbWindow, XcbHears(u),
           u.exists = t.exists, u.handle = t.handle, u.ids = t.ids,
           u.registered = t.registered, u.mode = t.mode, u.mapped = t.mapped,
           u.grabbed = t.grabbed, u.cursorEnabled = t.cursorEnabled,
           u.visible = t.visible, t.handle = 0 => u.held = {}
    PROVE  XcbInv(u)
BY DEF XcbInv, XcbWorks, XcbFits

LEMMA HearsMore ==
    ASSUME NEW t, XcbWorks(t), t.handle # 0, NEW e \in XcbEvent, e.id = t.handle,
           NEW u \in XcbWindow, u.buffered = t.buffered, u.socket = Append(t.socket, e),
           u.handle = t.handle, u.ids = t.ids, u.buttons = t.buttons,
           e.type = "configure" => u.geometry = e.of,
           e.type # "configure" => u.size = t.size /\ u.geometry = t.geometry,
           \A b \in u.held : \/ b \in t.held /\ e \notin ClicksOf(t.handle, b)
                             \/ e \in PressesOf(t.handle, b)
    PROVE  XcbHears(u)
<1> DEFINE q == Queue(t)
           r == Queue(u)
<1>1. /\ t \in XcbWindow /\ q \in Seq(XcbEvent) /\ XcbHears(t) /\ Len(q) \in Nat
      /\ t.handle <= t.ids
  BY QueueOf DEF XcbWorks, XcbFits
<1>2. r = Append(q, e)
  BY <1>1, SendsAppends
<1>3. /\ Sized(q, t.handle, t.size, t.geometry)
      /\ \A b \in t.held : Known(q, t.handle, b, t.buttons)
      /\ \A i \in 1..Len(q) : q[i].id <= t.ids
  BY <1>1 DEF XcbHears
<1> HIDE DEF q, r
<1>4. \A i \in 1..Len(r) : r[i].id <= t.ids
  <2>1. /\ Len(r) = Len(q) + 1 /\ r[Len(q) + 1] = e
        /\ \A i \in 1..Len(q) : r[i] = q[i]
    BY <1>1, <1>2, AppendProperties
  <2>2. ASSUME NEW i \in 1..Len(r) PROVE r[i].id <= t.ids
    <3>1. i \in 1..Len(q) \/ i = Len(q) + 1
      BY <1>1, <2>1
    <3>2. CASE i \in 1..Len(q)
      <4>1. r[i] = q[i] /\ q[i].id <= t.ids
        BY <1>3, <2>1, <3>2
      <4> QED BY <4>1
    <3>3. CASE i = Len(q) + 1
      BY <1>1, <2>1, <3>3
    <3> QED BY <3>1, <3>2, <3>3
  <2> QED BY <2>2
<1>5. Sized(r, t.handle, u.size, u.geometry)
  <2> DEFINE A == SizesOf(t.handle)
             B == {f \in A : f.of = u.geometry}
  <2>1. CASE e.type = "configure"
    <3>1. e \in B
      BY <2>1 DEF SizesOf
    <3> HIDE DEF A, B
    <3>2. Told(r, A, B)
      BY <1>1, <1>2, <3>1, NowTold
    <3> QED BY <3>2 DEF Sized, A, B
  <2>2. CASE e.type # "configure"
    <3>1. e \notin A
      BY <2>2 DEF SizesOf
    <3>2. u.size = t.size /\ u.geometry = t.geometry
      BY <2>2
    <3>3. Told(q, A, B) \/ (t.size = t.geometry /\ Silent(q, A))
      BY <1>3, <3>2 DEF Sized
    <3> HIDE DEF A, B
    <3>4. /\ Told(q, A, B) => Told(r, A, B)
          /\ Silent(q, A) => Silent(r, A)
      BY <1>1, <1>2, <3>1, LaterTold
    <3>5. Told(r, A, B) \/ (u.size = u.geometry /\ Silent(r, A))
      BY <3>2, <3>3, <3>4
    <3> QED BY <3>5 DEF Sized, A, B
  <2> QED BY <2>1, <2>2
<1>6. ASSUME NEW b \in u.held PROVE Known(r, t.handle, b, u.buttons)
  <2> DEFINE A == ClicksOf(t.handle, b)
             B == PressesOf(t.handle, b)
  <2>1. CASE b \in t.held /\ e \notin A
    <3>1. Told(q, A, B) \/ (b \in t.buttons /\ Silent(q, A))
      BY <1>3, <2>1 DEF Known
    <3> HIDE DEF A, B
    <3>2. /\ Told(q, A, B) => Told(r, A, B)
          /\ Silent(q, A) => Silent(r, A)
      BY <1>1, <1>2, <2>1, LaterTold
    <3>3. Told(r, A, B) \/ (b \in u.buttons /\ Silent(r, A))
      BY <3>1, <3>2
    <3> QED BY <3>3 DEF Known, A, B
  <2>2. CASE e \in B
    <3> HIDE DEF A, B
    <3>1. Told(r, A, B)
      BY <1>1, <1>2, <2>2, NowTold
    <3> QED BY <3>1 DEF Known, A, B
  <2> QED BY <1>6, <2>1, <2>2
<1> QED BY <1>4, <1>5, <1>6 DEF XcbHears, r

LEMMA HearsOn ==
    ASSUME NEW t, XcbWorks(t), NEW u \in XcbWindow, Shifted(Queue(t), Queue(u)),
           NEW e, e = Queue(t)[1],
           u.handle = t.handle, u.ids = t.ids, u.geometry = t.geometry, u.held = t.held,
           t.handle # 0 =>
             /\ e \in SizesOf(t.handle) => u.size = e.of
             /\ e \notin SizesOf(t.handle) => u.size = t.size
             /\ \A b \in t.held :
                    /\ e \in PressesOf(t.handle, b) => b \in u.buttons
                    /\ e \notin ClicksOf(t.handle, b) /\ b \in t.buttons => b \in u.buttons
    PROVE  XcbHears(u)
<1> DEFINE q == Queue(t)
           r == Queue(u)
<1>1. /\ t \in XcbWindow /\ q \in Seq(XcbEvent) /\ r \in Seq(XcbEvent) /\ XcbHears(t)
      /\ Len(r) \in Nat /\ Shifted(q, r) /\ e = q[1]
  BY QueueOf DEF XcbWorks
<1>2. \A i \in 1..Len(q) : q[i].id <= t.ids
  BY <1>1 DEF XcbHears
<1>3. ASSUME t.handle # 0
      PROVE  /\ Sized(q, t.handle, t.size, t.geometry)
             /\ \A b \in t.held : Known(q, t.handle, b, t.buttons)
  BY <1>1, <1>3 DEF XcbHears
<1> HIDE DEF q, r
<1>4. ASSUME NEW i \in 1..Len(r) PROVE r[i].id <= t.ids
  <2>1. i + 1 \in 1..Len(q) /\ r[i] = q[i + 1]
    BY <1>1 DEF Shifted
  <2> QED BY ONLY <1>2, <2>1
<1>5. ASSUME t.handle # 0 PROVE Sized(r, t.handle, u.size, u.geometry)
  <2> DEFINE A == SizesOf(t.handle)
             B == {f \in A : f.of = t.geometry}
  <2>1. Told(q, A, B) \/ (t.size = t.geometry /\ Silent(q, A))
    BY <1>3, <1>5 DEF Sized
  <2>2. e \in B => u.size = t.geometry
    BY <1>5
  <2>3. e \notin A => u.size = t.size
    BY <1>5
  <2> HIDE DEF A, B
  <2>4. /\ Told(q, A, B) => Told(r, A, B) \/ (q[1] \in B /\ Silent(r, A))
        /\ Silent(q, A) => q[1] \notin A /\ Silent(r, A)
    BY <1>1, OneTaken
  <2>5. Told(r, A, B) \/ (u.size = t.geometry /\ Silent(r, A))
    BY <1>1, <2>1, <2>2, <2>3, <2>4
  <2> QED BY <2>5 DEF Sized, A, B
<1>6. ASSUME t.handle # 0, NEW b \in u.held PROVE Known(r, t.handle, b, u.buttons)
  <2> DEFINE A == ClicksOf(t.handle, b)
             B == PressesOf(t.handle, b)
  <2>1. Told(q, A, B) \/ (b \in t.buttons /\ Silent(q, A))
    BY <1>3, <1>6 DEF Known
  <2>2. /\ e \in B => b \in u.buttons
        /\ e \notin A /\ b \in t.buttons => b \in u.buttons
    BY <1>6
  <2> HIDE DEF A, B
  <2>3. /\ Told(q, A, B) => Told(r, A, B) \/ (q[1] \in B /\ Silent(r, A))
        /\ Silent(q, A) => q[1] \notin A /\ Silent(r, A)
    BY <1>1, OneTaken
  <2>4. Told(r, A, B) \/ (b \in u.buttons /\ Silent(r, A))
    BY <1>1, <2>1, <2>2, <2>3
  <2> QED BY <2>4 DEF Known, A, B
<1> QED BY <1>4, <1>5, <1>6 DEF XcbHears, r

LEMMA TailShifts ==
    ASSUME NEW S, NEW p \in Seq(S), NEW q \in Seq(S), p # <<>>
    PROVE  /\ Shifted(p \o q, Tail(p) \o q) /\ Head(p) = (p \o q)[1]
           /\ Head(p) \in S /\ Tail(p) \in Seq(S)
<1> DEFINE h == Tail(p)
           v == p \o q
           w == h \o q
<1>1. /\ h \in Seq(S) /\ Head(p) \in S /\ Len(h) = Len(p) - 1
      /\ \A i \in 1..Len(h) : h[i] = p[i + 1]
  BY HeadTailProperties
<1>2. Len(p) \in Nat \ {0} /\ Len(q) \in Nat /\ Head(p) = p[1]
  BY EmptySeq, LenProperties
<1> HIDE DEF h
<1>3. /\ Len(v) = Len(p) + Len(q)
      /\ \A i \in 1..Len(p) + Len(q) : v[i] = IF i <= Len(p) THEN p[i] ELSE q[i - Len(p)]
  BY ConcatProperties
<1>4. /\ Len(w) = Len(h) + Len(q)
      /\ \A i \in 1..Len(h) + Len(q) : w[i] = IF i <= Len(h) THEN h[i] ELSE q[i - Len(h)]
  BY <1>1, ConcatProperties
<1> HIDE DEF v, w
<1>5. Len(v) = Len(w) + 1 /\ v[1] = p[1]
  BY <1>1, <1>2, <1>3, <1>4
<1>6. ASSUME NEW i \in 1..Len(w) PROVE w[i] = v[i + 1]
  <2>1. w[i] = IF i <= Len(h) THEN h[i] ELSE q[i - Len(h)]
    BY <1>4
  <2>2. v[i + 1] = IF i + 1 <= Len(p) THEN p[i + 1] ELSE q[(i + 1) - Len(p)]
    BY <1>1, <1>2, <1>3, <1>4
  <2>3. CASE i <= Len(h)
    BY <1>1, <1>2, <2>1, <2>2, <2>3
  <2>4. CASE ~(i <= Len(h))
    <3>1. i - Len(h) = (i + 1) - Len(p)
      BY <1>1, <1>2
    <3> QED BY <1>1, <1>2, <2>1, <2>2, <2>4, <3>1
  <2> QED BY <2>3, <2>4
<1> QED BY <1>1, <1>2, <1>5, <1>6 DEF Shifted, h, v, w

LEMMA HeadOfQueue ==
    ASSUME NEW t \in XcbWindow, t.buffered # <<>>
    PROVE  LET r == [t EXCEPT !.buffered = Tail(@)]
           IN /\ r \in XcbWindow /\ Shifted(Queue(t), Queue(r))
              /\ Head(t.buffered) = Queue(t)[1] /\ Head(t.buffered) \in XcbEvent
<1> DEFINE r == [t EXCEPT !.buffered = Tail(@)]
<1>1. t.buffered \in Seq(XcbEvent) /\ t.socket \in Seq(XcbEvent)
  BY QueueOf
<1>2. /\ Shifted(t.buffered \o t.socket, Tail(t.buffered) \o t.socket)
      /\ Head(t.buffered) = (t.buffered \o t.socket)[1]
      /\ Head(t.buffered) \in XcbEvent /\ Tail(t.buffered) \in Seq(XcbEvent)
  BY <1>1, TailShifts
<1>3. r \in XcbWindow /\ r.buffered = Tail(t.buffered) /\ r.socket = t.socket
  BY <1>2 DEF XcbWindow
<1> HIDE DEF r
<1> QED BY <1>2, <1>3 DEF Queue, r

\* XcbSetSize, and the window manager: a size is reported.
LEMMA XcbConfigures ==
    ASSUME NEW t, XcbInv(t), t.handle # 0, NEW u \in XcbWindow, NEW size \in Extents,
           u = XcbConfigured([t EXCEPT !.size = u.size], size)
    PROVE  XcbInv(u)
<1> DEFINE e == [type |-> "configure", id |-> t.handle, of |-> size]
<1>1. t \in XcbWindow /\ XcbWorks(t)
  BY DEF XcbInv, XcbWorks
<1>2. e \in XcbEvent
  BY <1>1 DEF XcbEvent, XcbWindow
<1>3. /\ u.exists = t.exists /\ u.handle = t.handle /\ u.ids = t.ids
      /\ u.registered = t.registered /\ u.mode = t.mode /\ u.mapped = t.mapped
      /\ u.grabbed = t.grabbed /\ u.cursorEnabled = t.cursorEnabled
      /\ u.visible = t.visible /\ u.held = t.held /\ u.buttons = t.buttons
      /\ u.geometry = size /\ u.buffered = t.buffered /\ u.socket = Append(t.socket, e)
  BY <1>1 DEF XcbConfigured, XcbWindow
<1>4. e.type = "configure" /\ e.id = t.handle /\ e.of = size
      /\ \A b \in u.held : e \notin ClicksOf(t.handle, b)
  BY DEF ClicksOf
<1> HIDE DEF e
<1>5. XcbHears(u)
  BY <1>1, <1>2, <1>3, <1>4, HearsMore
<1> QED BY <1>3, <1>5, XcbKeeps

LEMMA XcbSized ==
    ASSUME NEW t, XcbInv(t), NEW size \in Extents
    PROVE  XcbInv(OnSizeChanged([t EXCEPT !.size = size]))
<1> DEFINE u == [t EXCEPT !.size = size]
           w == XcbConfigured(u, size)
<1>1. t \in XcbWindow /\ XcbFits(t) /\ XcbHears(t)
  BY DEF XcbInv, XcbWorks
<1>2. /\ u \in XcbWindow /\ u.exists = t.exists /\ u.handle = t.handle /\ u.ids = t.ids
      /\ u.registered = t.registered /\ u.mode = t.mode /\ u.mapped = t.mapped
      /\ u.grabbed = t.grabbed /\ u.cursorEnabled = t.cursorEnabled
      /\ u.visible = t.visible /\ u.held = t.held /\ u.buttons = t.buttons
      /\ u.geometry = t.geometry /\ u.buffered = t.buffered /\ u.socket = t.socket
      /\ u.size = size /\ u.on = "xcb"
  BY <1>1 DEF XcbWindow
<1>3. t.exists <=> t.handle # 0
  BY <1>1 DEF XcbFits
<1>4. ASSUME t.handle # 0, t.geometry # size
      PROVE  XcbInv(w)
  <2> DEFINE e == [type |-> "configure", id |-> u.handle, of |-> size]
  <2>1. e \in XcbEvent
    BY <1>1, <1>2 DEF XcbEvent, XcbWindow
  <2>2. Append(u.socket, e) \in Seq(XcbEvent)
    BY <1>1, <1>2, <2>1, QueueOf, AppendProperties
  <2>3. w \in XcbWindow /\ w.size = size
    <3>1. w = [u EXCEPT !.geometry = size, !.socket = Append(u.socket, e)]
      BY <1>2 DEF XcbConfigured, XcbWindow
    <3> HIDE DEF u, w, e
    <3> QED BY <1>2, <2>2, <3>1 DEF XcbWindow
  <2> HIDE DEF e
  <2>4. w = XcbConfigured([t EXCEPT !.size = w.size], size)
    BY <2>3
  <2> HIDE DEF w
  <2> QED BY <1>4, <2>3, <2>4, XcbConfigures
<1> HIDE DEF u
<1>5. OnSizeChanged(u) = IF t.handle # 0 /\ t.geometry # size THEN w ELSE u
  BY <1>2, <1>3 DEF OnSizeChanged, IsCreated, SetSize, XcbSetSize
<1>6. ASSUME t.handle = 0 \/ t.geometry = size
      PROVE  XcbInv(u)
  <2>1. Queue(u) = Queue(t)
    BY <1>2 DEF Queue
  <2>2. XcbHears(u)
    <3>1. t.handle # 0 => Sized(Queue(t), t.handle, size, t.geometry)
      BY <1>1, <1>6 DEF XcbHears, Sized
    <3> QED BY <1>1, <1>2, <2>1, <3>1 DEF XcbHears
  <2>3. t.handle = 0 => u.held = {}
    BY <1>1, <1>2 DEF XcbFits
  <2> QED BY <1>2, <2>2, <2>3, XcbKeeps
<1>7. CASE t.handle # 0 /\ t.geometry # size
  BY <1>4, <1>5, <1>7 DEF u
<1>8. CASE ~(t.handle # 0 /\ t.geometry # size)
  BY <1>5, <1>6, <1>8 DEF u
<1> QED BY <1>7, <1>8

LEMMA XcbCursorSet ==
    ASSUME NEW t, XcbInv(t)
    PROVE  XcbInv(OnCursorEnabledChanged([t EXCEPT !.cursorEnabled = ~@]))
<1> DEFINE u == [t EXCEPT !.cursorEnabled = ~@]
           e == XcbEnableCursor(u)
           d == XcbDisableCursor(u)
<1>1. t \in XcbWindow /\ XcbFits(t) /\ XcbHears(t) /\ (t.exists <=> t.handle # 0)
  BY DEF XcbInv, XcbWorks, XcbFits
<1>2. /\ u \in XcbWindow /\ u.exists = t.exists /\ u.handle = t.handle /\ u.ids = t.ids
      /\ u.registered = t.registered /\ u.mode = t.mode /\ u.mapped = t.mapped
      /\ u.grabbed = t.grabbed
      /\ u.visible = t.visible /\ u.held = t.held /\ u.buttons = t.buttons
      /\ u.geometry = t.geometry /\ u.buffered = t.buffered /\ u.socket = t.socket
      /\ u.size = t.size /\ u.on = "xcb"
  BY <1>1 DEF XcbWindow
<1> HIDE DEF u
<1>3. Queue(u) = Queue(t)
  BY <1>2 DEF Queue
<1>4. OnCursorEnabledChanged(u) =
        IF t.handle = 0 THEN u ELSE IF u.cursorEnabled THEN e ELSE d
  BY <1>1, <1>2 DEF OnCursorEnabledChanged, IsCreated, EnableCursor, DisableCursor
<1>5. /\ e \in XcbWindow /\ e.exists = t.exists /\ e.handle = t.handle /\ e.ids = t.ids
      /\ e.registered = t.registered /\ e.mode = "normal" /\ e.mapped = t.mapped
      /\ e.grabbed = FALSE /\ e.cursorEnabled = u.cursorEnabled
      /\ e.visible = t.visible /\ e.held = t.held /\ e.buttons = t.buttons
      /\ e.geometry = t.geometry /\ e.buffered = t.buffered /\ e.socket = t.socket
      /\ e.size = t.size
  BY <1>2 DEF XcbEnableCursor, XcbWindow, Modes
<1>6. /\ d \in XcbWindow /\ Queue(d) = Queue(u) /\ d.mode = "disabled"
      /\ d.grabbed = u.mapped /\ d.visible = u.visible /\ d.exists = u.exists
      /\ d.handle = u.handle /\ d.ids = u.ids /\ d.registered = u.registered
      /\ d.buttons = u.buttons /\ d.geometry = u.geometry /\ d.mapped = u.mapped
      /\ d.held = u.held /\ d.cursorEnabled = u.cursorEnabled /\ d.size = u.size
  BY <1>2, XcbDisabled
<1> HIDE DEF e, d
<1>7. Queue(e) = Queue(t)
  BY <1>5 DEF Queue
<1>8. XcbHears(u) /\ XcbHears(e) /\ XcbHears(d)
  BY <1>1, <1>2, <1>3, <1>5, <1>6, <1>7, HearsTheSame
<1>9. ASSUME t.handle = 0 PROVE XcbInv(u)
  BY <1>1, <1>2, <1>8, <1>9 DEF XcbInv, XcbWorks, XcbFits
<1>10. ASSUME t.handle # 0, u.cursorEnabled PROVE XcbInv(e)
  BY <1>1, <1>5, <1>8, <1>10 DEF XcbInv, XcbWorks, XcbFits
<1>11. ASSUME t.handle # 0, ~u.cursorEnabled PROVE XcbInv(d)
  BY <1>1, <1>2, <1>6, <1>8, <1>11 DEF XcbInv, XcbWorks, XcbFits
<1>12. XcbInv(OnCursorEnabledChanged(u))
  BY <1>4, <1>9, <1>10, <1>11
<1> QED BY <1>12 DEF u

(* An event is sent; a press is held before, a release no longer.          *)
LEMMA XcbSends ==
    ASSUME NEW t, XcbInv(t), t.handle # 0, NEW held \in SUBSET Buttons, NEW e \in XcbEvent,
           e.id = t.handle, e.type # "configure",
           \A b \in held : \/ b \in t.held /\ e \notin ClicksOf(t.handle, b)
                           \/ e \in PressesOf(t.handle, b)
    PROVE  XcbInv(Sends([t EXCEPT !.held = held], e))
<1> DEFINE u == Sends([t EXCEPT !.held = held], e)
<1>1. t \in XcbWindow /\ XcbWorks(t)
  BY DEF XcbInv, XcbWorks
<1>2. Append(t.socket, e) \in Seq(XcbEvent)
  BY <1>1, QueueOf, AppendProperties
<1>3. u = [t EXCEPT !.held = held, !.socket = Append(t.socket, e)]
  BY <1>1 DEF Sends, XcbWindow
<1> HIDE DEF u
<1>4. /\ u \in XcbWindow /\ u.exists = t.exists /\ u.handle = t.handle /\ u.ids = t.ids
      /\ u.registered = t.registered /\ u.mode = t.mode /\ u.mapped = t.mapped
      /\ u.grabbed = t.grabbed /\ u.cursorEnabled = t.cursorEnabled
      /\ u.visible = t.visible /\ u.held = held /\ u.buttons = t.buttons
      /\ u.geometry = t.geometry /\ u.buffered = t.buffered
      /\ u.socket = Append(t.socket, e) /\ u.size = t.size
  BY <1>1, <1>2, <1>3 DEF XcbWindow
<1>5. XcbHears(u)
  BY <1>1, <1>4, HearsMore
<1>6. XcbInv(u)
  BY <1>4, <1>5, XcbKeeps
<1> QED BY <1>6 DEF u

(* A round trip, and another phase of the loop.                            *)
LEMMA XcbElse ==
    ASSUME NEW t, XcbInv(t), NEW u \in XcbWindow, Queue(u) = Queue(t),
           u.exists = t.exists, u.handle = t.handle, u.ids = t.ids,
           u.registered = t.registered, u.mode = t.mode, u.mapped = t.mapped,
           u.grabbed = t.grabbed, u.cursorEnabled = t.cursorEnabled,
           u.visible = t.visible, u.held = t.held, u.buttons = t.buttons,
           u.geometry = t.geometry, u.size = t.size
    PROVE  XcbInv(u)
<1>1. XcbHears(u)
  BY HearsTheSame DEF XcbInv, XcbWorks
<1>2. t.handle = 0 => u.held = {}
  BY DEF XcbInv, XcbWorks, XcbFits
<1> QED BY <1>1, <1>2, XcbKeeps

\* Destroying what was never made makes, for a moment, a platform window.
LEMMA XcbNotYet ==
    ASSUME NEW t, XcbInv(t), t.handle = 0
    PROVE  XcbInv(Destroyed(t))
<1> DEFINE n == XcbNew(t)
           d == [XcbDestroy(n) EXCEPT !.exists = FALSE]
<1>1. /\ t \in XcbWindow /\ t.on = "xcb" /\ ~t.exists /\ XcbHears(t)
      /\ t.registered = {} /\ 0 <= t.ids /\ t.ids <= MaxIds
  BY DEF XcbInv, XcbWorks, XcbFits, XcbWindow
<1>2. n.on = "xcb"
  BY <1>1 DEF XcbNew, XcbWindow
<1>3. CreatePlatformWindow(t) = n
  BY <1>1 DEF CreatePlatformWindow, New
<1>4. Destroyed(t) = d
  BY <1>2, <1>3 DEF Destroyed, NativeDestroy
<1>5. /\ n \in XcbWindow /\ n.ids = t.ids /\ n.registered = {} /\ n.handle = 0
      /\ n.buffered = t.buffered /\ n.socket = t.socket
  BY <1>1 DEF XcbNew, XcbWindow, Modes
<1> HIDE DEF n
<1>6. /\ d \in XcbWindow /\ d.exists = FALSE /\ d.handle = 0 /\ d.registered = {}
      /\ d.mapped = FALSE /\ d.grabbed = FALSE /\ d.held = {} /\ d.ids = t.ids
      /\ d.buffered = t.buffered /\ d.socket = t.socket
  BY <1>5, SizesAreExtents DEF XcbDestroy, XcbWindow
<1> HIDE DEF d
<1>7. Queue(d) = Queue(t)
  BY <1>6 DEF Queue
<1>8. XcbHears(d)
  BY <1>1, <1>6, <1>7, HearsTheSame
<1>9. XcbFits(d)
  BY <1>1, <1>6 DEF XcbFits
<1> QED BY <1>1, <1>4, <1>6, <1>8, <1>9 DEF XcbInv, XcbWorks

LEMMA XcbServes ==
    ASSUME XcbInv(s), s.handle # 0, Server
    PROVE  XcbInv(s')
<1>1. s \in XcbWindow /\ s.handle \in Nat /\ s.held \in SUBSET Buttons
  BY DEF XcbInv, XcbWorks, XcbWindow
<1>2. ASSUME NEW e \in XcbEvent, e.id = s.handle, e.type # "configure",
             \A b \in s.held : e \notin ClicksOf(s.handle, b) \/ e \in PressesOf(s.handle, b),
             s' = Sends(s, e)
      PROVE  XcbInv(s')
  <2>1. [s EXCEPT !.held = s.held] = s
    BY <1>1 DEF XcbWindow
  <2>2. XcbInv(Sends([s EXCEPT !.held = s.held], e))
    BY <1>1, <1>2, XcbSends
  <2> QED BY <1>2, <2>1, <2>2
<1>3. CASE UserResizes
  <2>1. PICK size \in Sizes : s' = XcbConfigured(s, size)
    BY <1>3 DEF UserResizes
  <2> DEFINE e == [type |-> "configure", id |-> s.handle, of |-> size]
             u == XcbConfigured(s, size)
  <2>2. e \in XcbEvent /\ size \in Extents
    BY <1>1, SizesAreExtents DEF XcbEvent
  <2>3. Append(s.socket, e) \in Seq(XcbEvent)
    BY <1>1, <2>2, QueueOf, AppendProperties
  <2>4. u = [s EXCEPT !.geometry = size, !.socket = Append(s.socket, e)]
    BY <1>1 DEF XcbConfigured, XcbWindow
  <2> HIDE DEF e, u
  <2>5. u \in XcbWindow /\ u.size = s.size
    BY <1>1, <2>2, <2>3, <2>4 DEF XcbWindow
  <2>6. [s EXCEPT !.size = u.size] = s
    BY <1>1, <2>5 DEF XcbWindow
  <2>7. u = XcbConfigured([s EXCEPT !.size = u.size], size)
    BY <2>6 DEF u
  <2>8. XcbInv(u)
    BY <2>2, <2>5, <2>7, XcbConfigures
  <2> QED BY <2>1, <2>8 DEF u
<1>4. CASE UserCloses
  <2> DEFINE e == [type |-> "close", id |-> s.handle]
  <2>1. e \in XcbEvent
    BY <1>1 DEF XcbEvent
  <2>2. e.id = s.handle /\ e.type = "close"
    OBVIOUS
  <2>3. s' = Sends(s, e)
    BY <1>4 DEF UserCloses
  <2> HIDE DEF e
  <2>4. \A b \in s.held : e \notin ClicksOf(s.handle, b)
    BY <2>2 DEF ClicksOf
  <2> QED BY <1>2, <2>1, <2>2, <2>3, <2>4
<1>5. CASE UserScrolls
  <2> DEFINE e == [type |-> "press", id |-> s.handle, of |-> Wheel]
  <2>1. e \in XcbEvent
    BY <1>1 DEF XcbEvent
  <2>2. e.id = s.handle /\ e.type = "press"
    OBVIOUS
  <2>3. s' = Sends(s, e)
    BY <1>5 DEF UserScrolls
  <2> HIDE DEF e
  <2>4. \A b \in s.held : e \notin ClicksOf(s.handle, b) \/ e \in PressesOf(s.handle, b)
    BY <2>2 DEF PressesOf
  <2> QED BY <1>2, <2>1, <2>2, <2>3, <2>4
<1>6. CASE UserPresses
  <2>1. PICK b \in Buttons :
          s' = Sends([s EXCEPT !.held = s.held \cup {b}],
                     [type |-> "press", id |-> s.handle, of |-> b])
    BY <1>1, <1>6 DEF UserPresses, XcbWindow
  <2> DEFINE e == [type |-> "press", id |-> s.handle, of |-> b]
             held == s.held \cup {b}
  <2>2. e \in XcbEvent
    BY <1>1 DEF XcbEvent
  <2>3. e.id = s.handle /\ e.type = "press" /\ e.of = b
    OBVIOUS
  <2>4. held \in SUBSET Buttons
    BY <1>1
  <2>5. s' = Sends([s EXCEPT !.held = held], e)
    BY <2>1
  <2> HIDE DEF e
  <2>6. \A c \in held : \/ c \in s.held /\ e \notin ClicksOf(s.handle, c)
                        \/ e \in PressesOf(s.handle, c)
    BY <2>2, <2>3 DEF PressesOf, ClicksOf
  <2> HIDE DEF held
  <2> QED BY <2>2, <2>3, <2>4, <2>5, <2>6, XcbSends
<1>7. CASE UserReleases
  <2>1. PICK b \in s.held :
          s' = Sends([s EXCEPT !.held = s.held \ {b}],
                     [type |-> "release", id |-> s.handle, of |-> b])
    BY <1>1, <1>7 DEF UserReleases, XcbWindow
  <2> DEFINE e == [type |-> "release", id |-> s.handle, of |-> b]
             held == s.held \ {b}
  <2>2. e \in XcbEvent
    BY <1>1 DEF XcbEvent
  <2>3. e.id = s.handle /\ e.type = "release" /\ e.of = b
    OBVIOUS
  <2>4. held \in SUBSET Buttons
    BY <1>1
  <2>5. s' = Sends([s EXCEPT !.held = held], e)
    BY <2>1
  <2> HIDE DEF e
  <2>6. \A c \in held : c \in s.held /\ e \notin ClicksOf(s.handle, c)
    BY <2>3 DEF ClicksOf
  <2> HIDE DEF held
  <2> QED BY <2>2, <2>3, <2>4, <2>5, <2>6, XcbSends
<1> QED BY <1>3, <1>4, <1>5, <1>6, <1>7 DEF Server

LEMMA XcbPhases ==
    ASSUME s \in XcbWindow,
           WaitForEvents \/ FallAsleep \/ WakeForXcb \/ ReturnFromWait \/ ProcessedAgain
             \/ WakeForOther
    PROVE  \E p \in {"app", "process", "asleep", "callbacks", "again"}, b \in BOOLEAN :
               s' = [s EXCEPT !.phase = p, !.pending = b]
<1>1. s.pending \in BOOLEAN
  BY DEF XcbWindow
<1>2. \A p : [s EXCEPT !.phase = p] = [s EXCEPT !.phase = p, !.pending = s.pending]
  BY DEF XcbWindow
<1>3. PICK p \in {"app", "process", "asleep", "callbacks", "again"} :
        \/ s' = [s EXCEPT !.phase = p]
        \/ s' = [s EXCEPT !.phase = p, !.pending = TRUE]
        \/ s' = [s EXCEPT !.phase = p, !.pending = FALSE]
  BY DEF WaitForEvents, FallAsleep, WakeForXcb, ReturnFromWait, ProcessedAgain,
     WakeForOther, Phase
<1> QED BY <1>1, <1>2, <1>3
-----------------------------------------------------------------------------
(***************************************************************************)
(* Xcb: the events that are taken, and the steps.                          *)
(***************************************************************************)
\* t is the window before an event is taken, r the window after.
LEMMA XcbHandled ==
    ASSUME NEW t, XcbInv(t), NEW r \in XcbWindow, Shifted(Queue(t), Queue(r)),
           NEW e \in XcbEvent, e = Queue(t)[1],
           r = [t EXCEPT !.buffered = r.buffered]
    PROVE  XcbInv(XcbHandles(r, e))
<1>1. t \in XcbWindow /\ XcbWorks(t) /\ t.registered = {t.handle} \ {0} /\ t.handle \in Nat
  BY DEF XcbInv, XcbWorks, XcbFits, XcbWindow
<1>2. /\ r.exists = t.exists /\ r.handle = t.handle /\ r.ids = t.ids
      /\ r.registered = t.registered /\ r.mode = t.mode /\ r.mapped = t.mapped
      /\ r.grabbed = t.grabbed /\ r.cursorEnabled = t.cursorEnabled
      /\ r.visible = t.visible /\ r.held = t.held /\ r.buttons = t.buttons
      /\ r.geometry = t.geometry /\ r.size = t.size /\ r.socket = t.socket
  BY <1>1 DEF XcbWindow
<1>3. t.handle = 0 => t.held = {}
  BY DEF XcbInv, XcbWorks, XcbFits
<1>4. /\ e.type \in {"close", "configure", "press", "release"}
      /\ e.type = "configure" => e.of \in Extents
      /\ t.held \subseteq Buttons
  BY <1>1, EventFields DEF XcbWindow
\* What is said of other windows, and of this one but of its size and buttons.
<1>5. ASSUME e.id # t.handle \/ t.handle = 0 \/ e.type = "close"
      PROVE  XcbInv(r)
  <2>1. t.handle # 0 =>
          e \notin SizesOf(t.handle) /\ \A b \in t.held : e \notin ClicksOf(t.handle, b)
    BY <1>5 DEF SizesOf, ClicksOf
  <2>2. \A b : e \in PressesOf(t.handle, b) => e \in ClicksOf(t.handle, b)
    BY DEF PressesOf
  <2>3. XcbHears(r)
    BY <1>1, <1>2, <2>1, <2>2, HearsOn
  <2> QED BY <1>2, <1>3, <2>3, XcbKeeps
<1>6. CASE e.id \notin t.registered
  <2>1. e.id # t.handle \/ t.handle = 0
    BY <1>1, <1>6
  <2>2. XcbHandles(r, e) = r
    BY <1>2, <1>6 DEF XcbHandles
  <2> QED BY <1>5, <2>1, <2>2
<1>7. CASE e.id \in t.registered
  <2>1. e.id = t.handle /\ t.handle # 0 /\ e.id \in r.registered
    BY <1>1, <1>2, <1>7
  <2>2. CASE e.type = "close"
    <3>1. XcbHandles(r, e) = VisibleSet(r, FALSE)
      BY <2>1, <2>2 DEF XcbHandles
    <3>2. XcbInv(r) /\ r.handle # 0
      BY <1>2, <1>5, <2>1, <2>2
    <3>3. XcbInv(VisibleSet(r, FALSE))
      BY <3>2, XcbVisible
    <3> QED BY <3>1, <3>3
  <2>3. CASE e.type = "configure"
    <3> DEFINE u == [r EXCEPT !.size = e.of]
    <3>1. XcbHandles(r, e) = u
      BY <2>1, <2>3 DEF XcbHandles, ResizeEvent
    <3>2. /\ u \in XcbWindow /\ u.exists = r.exists /\ u.handle = r.handle
          /\ u.ids = r.ids /\ u.registered = r.registered /\ u.mode = r.mode
          /\ u.mapped = r.mapped /\ u.grabbed = r.grabbed
          /\ u.cursorEnabled = r.cursorEnabled /\ u.visible = r.visible
          /\ u.held = r.held /\ u.buttons = r.buttons /\ u.geometry = r.geometry
          /\ u.size = e.of /\ u.socket = r.socket /\ u.buffered = r.buffered
      BY <1>4, <2>3 DEF XcbWindow
    <3> HIDE DEF u
    <3>3. Queue(u) = Queue(r)
      BY <3>2 DEF Queue
    <3>4. e \in SizesOf(t.handle)
      BY <2>1, <2>3 DEF SizesOf
    <3>5. \A b \in t.held : e \notin PressesOf(t.handle, b)
      BY <2>3 DEF PressesOf
    <3>6. XcbHears(u)
      BY <1>1, <1>2, <3>2, <3>3, <3>4, <3>5, HearsOn
    <3>7. XcbInv(u)
      BY <1>2, <1>3, <3>2, <3>6, XcbKeeps
    <3> QED BY <3>1, <3>7
  <2>4. CASE e.type \in {"press", "release"}
    <3> DEFINE m == MouseButtons(e.of)
               next == IF e.type = "press" THEN r.buttons \cup m ELSE r.buttons \ m
               u == [r EXCEPT !.buttons = next]
    <3>1. XcbHandles(r, e) = u
      BY <2>1, <2>4 DEF XcbHandles, Pressed, Released
    <3>2. r.buttons \subseteq Buttons /\ m = {e.of} \cap Buttons
      BY <1>1, <1>2 DEF XcbWindow, MouseButtons
    <3> HIDE DEF m
    <3>3. next \subseteq Buttons
      BY <3>2
    <3> HIDE DEF next
    <3>4. /\ u \in XcbWindow /\ u.exists = r.exists /\ u.handle = r.handle
          /\ u.ids = r.ids /\ u.registered = r.registered /\ u.mode = r.mode
          /\ u.mapped = r.mapped /\ u.grabbed = r.grabbed
          /\ u.cursorEnabled = r.cursorEnabled /\ u.visible = r.visible
          /\ u.held = r.held /\ u.buttons = next /\ u.geometry = r.geometry
          /\ u.size = r.size /\ u.socket = r.socket /\ u.buffered = r.buffered
      BY <3>3 DEF XcbWindow
    <3> HIDE DEF u
    <3>5. Queue(u) = Queue(r)
      BY <3>4 DEF Queue
    <3>6. e \notin SizesOf(t.handle)
      BY <2>4 DEF SizesOf
    <3>7. ASSUME NEW b \in t.held, e \in PressesOf(t.handle, b)
          PROVE  b \in next
      <4>1. e.type = "press" /\ e.of = b /\ b \in Buttons
        BY <1>4, <3>7 DEF PressesOf, ClicksOf
      <4> QED BY <3>2, <4>1 DEF next
    <3>8. ASSUME NEW b \in t.held, e \notin ClicksOf(t.handle, b), b \in t.buttons
          PROVE  b \in next
      <4>1. e.of # b
        BY <2>1, <2>4, <3>8 DEF ClicksOf
      <4> QED BY <1>2, <3>2, <3>8, <4>1 DEF next
    <3>9. XcbHears(u)
      BY <1>1, <1>2, <3>4, <3>5, <3>6, <3>7, <3>8, HearsOn
    <3>10. XcbInv(u)
      BY <1>2, <1>3, <3>4, <3>9, XcbKeeps
    <3> QED BY <3>1, <3>10
  <2> QED BY <1>4, <2>2, <2>3, <2>4
<1> QED BY <1>6, <1>7

LEMMA XcbProcesses ==
    ASSUME XcbInv(s), ProcessXcbEvent
    PROVE  XcbInv(s')
<1> DEFINE t == IF s.buffered = <<>> THEN Roundtrip(s) ELSE s
           r == [t EXCEPT !.buffered = Tail(@)]
           e == Head(t.buffered)
<1>1. s \in XcbWindow
  BY DEF XcbInv, XcbWorks
<1>2. s' = XcbHandles(r, e) /\ Queue(s) # <<>>
  BY DEF ProcessXcbEvent, Queued, Queue
<1>3. t \in XcbWindow /\ XcbInv(t) /\ t.buffered # <<>>
  <2>1. CASE s.buffered = <<>>
    <3> DEFINE u == Roundtrip(s)
    <3>1. u \in XcbWindow /\ Queue(u) = Queue(s) /\ u.buffered = Queue(s)
      BY <1>1, RoundtripKeeps
    <3>2. /\ u.exists = s.exists /\ u.handle = s.handle /\ u.ids = s.ids
          /\ u.registered = s.registered /\ u.mode = s.mode /\ u.mapped = s.mapped
          /\ u.grabbed = s.grabbed /\ u.cursorEnabled = s.cursorEnabled
          /\ u.visible = s.visible /\ u.held = s.held /\ u.buttons = s.buttons
          /\ u.geometry = s.geometry /\ u.size = s.size
      BY <1>1 DEF Roundtrip, XcbWindow
    <3> HIDE DEF u
    <3>3. XcbInv(u)
      BY <3>1, <3>2, XcbElse
    <3> QED BY <1>2, <2>1, <3>1, <3>3 DEF u
  <2>2. CASE s.buffered # <<>>
    BY <1>1, <2>2
  <2> QED BY <2>1, <2>2
<1> HIDE DEF t
<1>4. /\ r \in XcbWindow /\ Shifted(Queue(t), Queue(r))
      /\ e = Queue(t)[1] /\ e \in XcbEvent
  BY <1>3, HeadOfQueue
<1>5. r = [t EXCEPT !.buffered = r.buffered]
  BY <1>3 DEF XcbWindow
<1> HIDE DEF r, e
<1>6. XcbInv(XcbHandles(r, e))
  BY <1>3, <1>4, <1>5, XcbHandled
<1> QED BY <1>2, <1>6

LEMMA XcbStep == XcbInv(s) /\ Next => XcbInv(s')
<1> SUFFICES ASSUME XcbInv(s), Next PROVE XcbInv(s')
  OBVIOUS
<1>1. s \in XcbWindow /\ s.on = "xcb" /\ s.size \in Extents /\ XcbWorks(s)
  BY DEF XcbInv, XcbWorks, XcbWindow
<1>2. /\ s.held \subseteq Buttons /\ s.handle \in Nat /\ s.ids \in Nat
      /\ s.on # "win32" /\ s.on # "android" /\ s.on # "wayland"
  BY <1>1 DEF XcbWindow
<1>3. (Application /\ s.ids < MaxIds) \/ Server \/ XcbLoop \/ WakeForOther
  BY <1>1, <1>2 DEF Next, MayRun, Listeners, EnterOutput, LeaveOutput,
     ConfigureToplevel, ConfigureBounds, CloseToplevel, Button, Listens,
     AndroidEvents, Rotates, Touches, Lifts, WindowProc, WmSize, WmClose, WmButtonDown,
     WmButtonUp, CaptureLost, SystemFails, Proc
<1>4. CASE SetVisible /\ s.ids < MaxIds
  <2>1. (~s.visible) \in BOOLEAN
    OBVIOUS
  <2> QED BY <1>4, <2>1, XcbVisible DEF SetVisible
<1>5. CASE \E w \in Widths : SetWidth(w)
  <2>1. PICK w \in Widths : SetWidth(w)
    BY <1>5
  <2> DEFINE size == [s.size EXCEPT !.width = w]
  <2>2. size \in Extents
    BY <1>1, SizesAreNumbers DEF Extents
  <2>3. s' = OnSizeChanged([s EXCEPT !.size = size])
    BY <1>1, <2>1 DEF SetWidth, XcbWindow
  <2> HIDE DEF size
  <2> QED BY <2>2, <2>3, XcbSized
<1>6. CASE \E h \in Heights : SetHeight(h)
  <2>1. PICK h \in Heights : SetHeight(h)
    BY <1>6
  <2> DEFINE size == [s.size EXCEPT !.height = h]
  <2>2. size \in Extents
    BY <1>1, SizesAreNumbers DEF Extents
  <2>3. s' = OnSizeChanged([s EXCEPT !.size = size])
    BY <1>1, <2>1 DEF SetHeight, XcbWindow
  <2> HIDE DEF size
  <2> QED BY <2>2, <2>3, XcbSized
<1>7. CASE SetCursorEnabled
  BY <1>7, XcbCursorSet DEF SetCursorEnabled
<1>8. CASE Create /\ s.ids < MaxIds
  <2>1. /\ XcbWorks(Created(s)) /\ Created(s).visible = s.visible
        /\ Created(s).mapped = s.mapped
        /\ s.handle # 0 => Created(s) = s
        /\ s.handle = 0 => Created(s).ids = s.ids + 1
    BY <1>1, XcbCreated
  <2>2. Created(s).ids <= MaxIds
    BY <1>2, <1>8, <2>1, EventsAssumption
  <2> QED BY <1>8, <2>1, <2>2 DEF Create, XcbInv
<1>9. CASE Destroy
  <2>1. CASE s.handle # 0
    <3>1. XcbWorks(Destroyed(s)) /\ Destroyed(s).mapped = FALSE /\ Destroyed(s).ids = s.ids
      BY <1>1, <2>1, XcbDestroyed
    <3> QED BY <1>9, <3>1 DEF Destroy, XcbInv
  <2>2. CASE s.handle = 0
    BY <1>9, <2>2, XcbNotYet DEF Destroy
  <2> QED BY <2>1, <2>2
<1>10. CASE Server
  <2>1. s.mapped /\ s.handle # 0
    BY <1>10 DEF Server, UserResizes, UserCloses, UserPresses, UserReleases, UserScrolls,
       Shown, XcbInv, XcbWorks, XcbFits
  <2> QED BY <1>1, <1>2, <1>10, <2>1, XcbServes
<1>11. CASE ProcessXcbEvent
  BY <1>11, XcbProcesses
<1>12. CASE WaitForEvents \/ FallAsleep \/ WakeForXcb \/ ReturnFromWait \/ ProcessedAgain
            \/ WakeForOther
  <2>1. PICK p \in {"app", "process", "asleep", "callbacks", "again"}, b \in BOOLEAN :
           s' = [s EXCEPT !.phase = p, !.pending = b]
    BY <1>1, <1>12, XcbPhases
  <2> DEFINE u == [s EXCEPT !.phase = p, !.pending = b]
  <2>2. /\ u \in XcbWindow /\ u.exists = s.exists /\ u.handle = s.handle /\ u.ids = s.ids
        /\ u.registered = s.registered /\ u.mode = s.mode /\ u.mapped = s.mapped
        /\ u.grabbed = s.grabbed /\ u.cursorEnabled = s.cursorEnabled
        /\ u.visible = s.visible /\ u.held = s.held /\ u.buttons = s.buttons
        /\ u.geometry = s.geometry /\ u.size = s.size
        /\ u.socket = s.socket /\ u.buffered = s.buffered
    BY <1>1 DEF XcbWindow
  <2> HIDE DEF u
  <2>3. Queue(u) = Queue(s)
    BY <2>2 DEF Queue
  <2> QED BY <2>1, <2>2, <2>3, XcbElse DEF u
<1>13. ~SetRawMouseInputEnabled
  BY <1>2 DEF SetRawMouseInputEnabled
<1> QED
  BY <1>3, <1>4, <1>5, <1>6, <1>7, <1>8, <1>9, <1>10, <1>11, <1>12, <1>13
  DEF Application, XcbLoop
-----------------------------------------------------------------------------
(***************************************************************************)
(* The invariant of a window, on whatever platform it is, and what follows *)
(* from it.                                                                *)
(***************************************************************************)
WindowInv ==
    /\ s.on \in Platforms
    /\ XcbInv(s) \/ Win32Inv(s) \/ WaylandInv(s) \/ AndroidInv(s)

LEMMA XcbStarts == ASSUME NEW size \in Extents PROVE XcbInv(XcbFresh(size))
<1> DEFINE t == XcbFresh(size)
<1>1. <<>> \in Seq(XcbEvent) /\ Len(<<>>) = 0
  BY EmptySeq
<1>2. /\ t.exists = FALSE /\ t.handle = 0 /\ t.ids = 0 /\ t.registered = {}
      /\ t.mapped = FALSE /\ t.grabbed = FALSE /\ t.held = {}
      /\ t.socket = <<>> /\ t.buffered = <<>>
  BY DEF XcbFresh
<1>3. t \in XcbWindow
  BY <1>1, SizesAreExtents DEF XcbFresh, XcbWindow, Modes
<1> HIDE DEF t
<1>4. Queue(t) = <<>> \o <<>>
  BY <1>2 DEF Queue
<1>5. Len(Queue(t)) = 0
  BY <1>1, <1>4, ConcatEmptySeq
<1>6. XcbHears(t)
  BY <1>2, <1>5 DEF XcbHears
<1>7. XcbFits(t)
  BY <1>2 DEF XcbFits
<1>8. XcbInv(t)
  BY <1>2, <1>3, <1>6, <1>7, EventsAssumption DEF XcbInv, XcbWorks
<1> QED BY <1>8 DEF t

LEMMA Win32Starts == ASSUME NEW size \in Extents PROVE Win32Inv(Win32Fresh(size))
<1> DEFINE t == Win32Fresh(size)
<1>1. /\ t.exists = FALSE /\ t.handle = FALSE /\ t.property = FALSE /\ t.clip = FALSE
      /\ t.mapped = FALSE /\ t.capture = FALSE /\ t.rawTarget = FALSE /\ t.held = {}
  BY DEF Win32Fresh
<1>2. t \in Win32Window
  BY SizesAreExtents DEF Win32Fresh, Win32Window, Modes
<1> HIDE DEF t
<1>3. Win32Inv(t)
  BY <1>1, <1>2 DEF Win32Inv, Win32Works, Win32Fits
<1> QED BY <1>3 DEF t

LEMMA WaylandStarts == ASSUME NEW size \in Extents PROVE WaylandInv(WaylandFresh(size))
<1> DEFINE t == WaylandFresh(size)
<1>1. t.registered = FALSE /\ t.surface = FALSE /\ t.entered = <<>>
  BY DEF WaylandFresh
<1>2. t \in WaylandWindow
  BY NoScales, SizesAreExtents, EventsAssumption DEF WaylandFresh, WaylandWindow, Modes
<1> HIDE DEF t
<1>3. Len(t.entered) <= 2
  BY <1>1, NoScales
<1>4. WaylandInv(t)
  BY <1>1, <1>2, <1>3 DEF WaylandInv, WaylandFits
<1> QED BY <1>4 DEF t

LEMMA AndroidStarts == ASSUME NEW size \in Extents PROVE AndroidInv(AndroidFresh(size))
BY DEF AndroidFresh, AndroidInv, AndroidFits, AndroidWindow

LEMMA WindowStarts == Init => WindowInv
<1> SUFFICES ASSUME NEW size \in Sizes, s \in {t \in Fresh(size) : t.on \in Platforms}
             PROVE  WindowInv
  BY DEF Init
<1>1. size \in Extents /\ s.on \in Platforms
  BY SizesAreExtents
<1>2. s \in {XcbFresh(size), Win32Fresh(size), WaylandFresh(size), AndroidFresh(size)}
  BY DEF Fresh
<1> QED
  BY <1>1, <1>2, XcbStarts, Win32Starts, WaylandStarts, AndroidStarts DEF WindowInv

LEMMA WindowSteps == WindowInv /\ [Next]_s => WindowInv'
<1> SUFFICES ASSUME WindowInv, [Next]_s PROVE WindowInv'
  OBVIOUS
<1>1. CASE XcbInv(s) /\ Next
  <2>1. XcbInv(s')
    BY <1>1, XcbStep
  <2>2. s.on = "xcb" /\ s'.on = "xcb"
    BY <1>1, <2>1 DEF XcbInv, XcbWorks, XcbWindow
  <2> QED BY <2>1, <2>2 DEF WindowInv
<1>2. CASE Win32Inv(s) /\ Next
  <2>1. Win32Inv(s')
    BY <1>2, Win32Step
  <2>2. s.on = "win32" /\ s'.on = "win32"
    BY <1>2, <2>1 DEF Win32Inv, Win32Works, Win32Window
  <2> QED BY <2>1, <2>2 DEF WindowInv
<1>3. CASE WaylandInv(s) /\ Next
  <2>1. WaylandInv(s')
    BY <1>3, WaylandStep
  <2>2. s.on = "wayland" /\ s'.on = "wayland"
    BY <1>3, <2>1 DEF WaylandInv, WaylandWindow
  <2> QED BY <2>1, <2>2 DEF WindowInv
<1>4. CASE AndroidInv(s) /\ Next
  <2>1. AndroidInv(s')
    BY <1>4, AndroidStep
  <2>2. s.on = "android" /\ s'.on = "android"
    BY <1>4, <2>1 DEF AndroidInv, AndroidWindow
  <2> QED BY <2>1, <2>2 DEF WindowInv
<1>5. CASE s' = s
  BY <1>5 DEF WindowInv
<1> QED BY <1>1, <1>2, <1>3, <1>4, <1>5 DEF WindowInv

LEMMA WindowHolds == Spec => []WindowInv
BY WindowStarts, WindowSteps, PTL DEF Spec

LEMMA XcbAgrees ==
    ASSUME XcbInv(s)
    PROVE  /\ s.on = "xcb" /\ EventsFindTheLiving /\ PointerAgrees
           /\ s.on \in Platforms => WindowAgrees
<1>1. s \in XcbWindow /\ XcbFits(s) /\ XcbHears(s) /\ (s.mapped => s.visible)
      /\ s.ids <= MaxIds
  BY DEF XcbInv, XcbWorks
<1>2. /\ s.on = "xcb" /\ s.visible \in BOOLEAN /\ s.cursorEnabled \in BOOLEAN
      /\ s.exists \in BOOLEAN /\ s.buttons \subseteq Buttons /\ s.held \subseteq Buttons
      /\ s.size \in Extents /\ s.handle \in Nat /\ s.ids \in Nat
  BY <1>1 DEF XcbWindow
<1>3. s.handle <= s.ids /\ (s.exists <=> s.handle # 0)
  BY <1>1 DEF XcbFits
<1>4. s.handle \in 0..MaxIds /\ s.size.width \in Nat /\ s.size.height \in Nat
  BY <1>1, <1>2, <1>3, EventsAssumption DEF Extents
<1>5. s.on \in Platforms => TypeOK
  BY <1>2, <1>4 DEF TypeOK
<1>6. EventsFindTheLiving
  BY <1>1, <1>2, <1>3 DEF EventsFindTheLiving, XcbFits
<1>7. PointerAgrees
  BY <1>1, <1>2, <1>3 DEF PointerAgrees, CursorIsFree, CursorFollows, RawAgrees, CaptureEnds,
     CaptureLasts, XcbFits
<1>8. ShownOnlyIfVisible /\ BufferScaleAgrees
  BY <1>1, <1>2 DEF ShownOnlyIfVisible, BufferScaleAgrees
<1>9. Queued = Queue(s) /\ Queue(s) \in Seq(XcbEvent) /\ DOMAIN Queue(s) = 1..Len(Queue(s))
  BY <1>1, QueueOf, LenProperties DEF Queued, Queue
<1>10. SizesAgree
  <2> SUFFICES ASSUME s.handle # 0, \A i \in DOMAIN Queued : Queued[i].type # "configure"
               PROVE  s.size = s.geometry
    BY <1>2 DEF SizesAgree
  <2>1. Sized(Queue(s), s.handle, s.size, s.geometry)
    BY <1>1 DEF XcbHears
  <2>2. \A i \in 1..Len(Queue(s)) : Queue(s)[i] \notin SizesOf(s.handle)
    BY <1>9 DEF SizesOf
  <2> QED BY <2>1, <2>2 DEF Sized, Told
<1>11. HeldIsKnown
  <2> SUFFICES ASSUME Queued = <<>>, s.handle # 0, NEW b \in s.held
               PROVE  b \in s.buttons
    BY DEF HeldIsKnown
  <2>1. Known(Queue(s), s.handle, b, s.buttons)
    BY <1>1 DEF XcbHears
  <2>2. Len(Queue(s)) = 0
    BY <1>9, EmptySeq
  <2>3. ~Told(Queue(s), ClicksOf(s.handle, b), PressesOf(s.handle, b))
    BY <2>2 DEF Told
  <2> QED BY <2>1, <2>3 DEF Known
<1> QED BY <1>2, <1>5, <1>6, <1>7, <1>8, <1>10, <1>11 DEF WindowAgrees

LEMMA Win32Agrees ==
    ASSUME Win32Inv(s)
    PROVE  /\ s.on = "win32" /\ EventsFindTheLiving /\ PointerAgrees
           /\ s.on \in Platforms => WindowAgrees
<1>1. s \in Win32Window /\ Win32Fits(s) /\ (s.mapped => s.visible)
  BY DEF Win32Inv, Win32Works
<1>2. /\ s.on = "win32" /\ s.visible \in BOOLEAN /\ s.cursorEnabled \in BOOLEAN
      /\ s.exists \in BOOLEAN /\ s.buttons \subseteq Buttons
      /\ s.size.width \in Nat /\ s.size.height \in Nat
  BY <1>1 DEF Win32Window, Extents
<1>3. EventsFindTheLiving
  BY <1>1, <1>2 DEF EventsFindTheLiving, Win32Fits
<1>4. PointerAgrees
  BY <1>1, <1>2 DEF PointerAgrees, CursorIsFree, CursorFollows, RawAgrees, CaptureEnds,
     CaptureLasts, Win32Fits
<1>5. ShownOnlyIfVisible /\ SizesAgree /\ HeldIsKnown /\ BufferScaleAgrees
  BY <1>1, <1>2 DEF ShownOnlyIfVisible, SizesAgree, HeldIsKnown, BufferScaleAgrees, Win32Fits
<1>6. s.on \in Platforms => TypeOK
  BY <1>2 DEF TypeOK
<1> QED BY <1>2, <1>3, <1>4, <1>5, <1>6 DEF WindowAgrees

LEMMA WaylandAgrees ==
    ASSUME WaylandInv(s)
    PROVE  /\ s.on = "wayland" /\ EventsFindTheLiving /\ PointerAgrees
           /\ s.on \in Platforms => WindowAgrees
<1>1. s \in WaylandWindow /\ WaylandFits(s)
  BY DEF WaylandInv
<1>2. /\ s.on = "wayland" /\ s.visible \in BOOLEAN /\ s.cursorEnabled \in BOOLEAN
      /\ s.exists \in BOOLEAN /\ s.buttons \subseteq Buttons
      /\ s.size.width \in Nat /\ s.size.height \in Nat
      /\ s.toplevel \in {"null", "live", "stale"}
  BY <1>1 DEF WaylandWindow, Extents
<1>3. EventsFindTheLiving
  BY <1>1, <1>2 DEF EventsFindTheLiving, WaylandFits
<1>4. PointerAgrees
  BY <1>2 DEF PointerAgrees, CursorIsFree, CursorFollows, RawAgrees, CaptureEnds, CaptureLasts
<1>5. ShownOnlyIfVisible /\ SizesAgree /\ HeldIsKnown /\ BufferScaleAgrees
  BY <1>1, <1>2 DEF ShownOnlyIfVisible, SizesAgree, HeldIsKnown, BufferScaleAgrees, WaylandFits
<1>6. s.on \in Platforms => TypeOK
  BY <1>2 DEF TypeOK
<1> QED BY <1>2, <1>3, <1>4, <1>5, <1>6 DEF WindowAgrees

LEMMA AndroidAgrees ==
    ASSUME AndroidInv(s)
    PROVE  /\ s.on = "android" /\ EventsFindTheLiving /\ PointerAgrees
           /\ s.on \in Platforms => WindowAgrees
<1>1. s \in AndroidWindow /\ AndroidFits(s)
  BY DEF AndroidInv
<1>2. /\ s.on = "android" /\ s.visible \in BOOLEAN /\ s.cursorEnabled \in BOOLEAN
      /\ s.exists \in BOOLEAN /\ s.buttons \subseteq Buttons
      /\ s.size.width \in Nat /\ s.size.height \in Nat
  BY <1>1 DEF AndroidWindow, Extents
<1>3. EventsFindTheLiving
  BY <1>1, <1>2 DEF EventsFindTheLiving, AndroidFits
<1>4. PointerAgrees
  BY <1>2 DEF PointerAgrees, CursorIsFree, CursorFollows, RawAgrees, CaptureEnds, CaptureLasts
<1>5. ShownOnlyIfVisible /\ SizesAgree /\ HeldIsKnown /\ BufferScaleAgrees
  BY <1>2 DEF ShownOnlyIfVisible, SizesAgree, HeldIsKnown, BufferScaleAgrees
<1>6. s.on \in Platforms => TypeOK
  BY <1>2 DEF TypeOK
<1> QED BY <1>2, <1>3, <1>4, <1>5, <1>6 DEF WindowAgrees

LEMMA WindowFits ==
    WindowInv => EventsFindTheLiving /\ WindowAgrees /\ PointerAgrees
BY XcbAgrees, Win32Agrees, WaylandAgrees, AndroidAgrees DEF WindowInv

(* Events find the platform window exactly while it has a native one:      *)
(* create and destroy of the platform windows keep the loops' maps, and    *)
(* the window property of Win32, with the handle.                          *)
THEOREM EventsAreDelivered == Spec => []EventsFindTheLiving
BY WindowHolds, WindowFits, PTL

(* A window's properties, its native window and the events under way       *)
(* agree, whichever of the application and the server changed them last.   *)
THEOREM WindowIsRight == Spec => []WindowAgrees
BY WindowHolds, WindowFits, PTL

(* No grab, clip, raw input or capture of the mouse outlives its reason.   *)
THEOREM PointerIsRight == Spec => []PointerAgrees
BY WindowHolds, WindowFits, PTL

LEMMA ReportsAreNotAnswered == WindowInv /\ ProcessXcbEvent => s'.geometry = s.geometry
<1> SUFFICES ASSUME WindowInv, ProcessXcbEvent PROVE s'.geometry = s.geometry
  OBVIOUS
<1> DEFINE t == IF s.buffered = <<>> THEN Roundtrip(s) ELSE s
           r == [t EXCEPT !.buffered = Tail(@)]
           e == Head(t.buffered)
<1>1. s.on = "xcb" /\ s' = XcbHandles(r, e) /\ Queue(s) # <<>>
  BY DEF ProcessXcbEvent, Queued, Queue
<1>2. XcbInv(s)
  BY <1>1, Win32Agrees, WaylandAgrees, AndroidAgrees DEF WindowInv
<1>3. s \in XcbWindow /\ s.registered = {s.handle} \ {0} /\ (s.exists <=> s.handle # 0)
  BY <1>2 DEF XcbInv, XcbWorks, XcbFits
<1>4. /\ t \in XcbWindow /\ t.buffered # <<>> /\ t.geometry = s.geometry
      /\ t.registered = s.registered /\ t.handle = s.handle /\ t.exists = s.exists
  <2>1. CASE s.buffered = <<>>
    <3> DEFINE u == Roundtrip(s)
    <3>1. u \in XcbWindow /\ u.buffered = Queue(s)
      BY <1>3, RoundtripKeeps
    <3>2. /\ u.geometry = s.geometry /\ u.registered = s.registered /\ u.handle = s.handle
          /\ u.exists = s.exists
      BY <1>3 DEF Roundtrip, XcbWindow
    <3> HIDE DEF u
    <3> QED BY <1>1, <2>1, <3>1, <3>2 DEF u
  <2>2. CASE s.buffered # <<>>
    BY <1>3, <2>2
  <2> QED BY <2>1, <2>2
<1> HIDE DEF t
<1>5. r \in XcbWindow /\ e \in XcbEvent
  BY <1>4, HeadOfQueue
<1>6. /\ r.geometry = s.geometry /\ r.registered = s.registered /\ r.handle = s.handle
      /\ r.exists = s.exists
  BY <1>4 DEF XcbWindow
<1> HIDE DEF r, e
<1>7. e.type \in {"close", "configure", "press", "release"}
  BY <1>5, EventFields
<1>8. CASE e.id \notin r.registered
  BY <1>1, <1>6, <1>8 DEF XcbHandles
<1>9. CASE e.id \in r.registered /\ e.type = "close"
  <2>1. s' = VisibleSet(r, FALSE)
    BY <1>1, <1>9 DEF XcbHandles
  <2> DEFINE u == [r EXCEPT !.visible = FALSE]
  <2>2. /\ u \in XcbWindow /\ u.on = "xcb" /\ u.visible = FALSE /\ u.exists /\ u.handle # 0
        /\ u.geometry = s.geometry
    BY <1>3, <1>5, <1>6, <1>9 DEF XcbWindow
  <2>3. VisibleSet(r, FALSE) = IF r.visible = FALSE THEN r ELSE OnVisibleChanged(u)
    BY DEF VisibleSet
  <2> HIDE DEF u
  <2>4. Created(u) = u
    BY <2>2 DEF Created, CreatePlatformWindow, NativeCreate, XcbCreate
  <2>5. OnVisibleChanged(u) = XcbUnmap(u)
    BY <2>2, <2>4 DEF OnVisibleChanged, Unmap
  <2>6. XcbUnmap(u).geometry = s.geometry
    BY <2>2 DEF XcbUnmap, XcbWindow
  <2> QED BY <1>6, <2>1, <2>3, <2>5, <2>6
<1>10. CASE e.id \in r.registered /\ e.type = "configure"
  <2>1. s' = [r EXCEPT !.size = e.of]
    BY <1>1, <1>10 DEF XcbHandles, ResizeEvent
  <2> QED BY <1>5, <1>6, <2>1 DEF XcbWindow
<1>11. CASE e.id \in r.registered /\ e.type \in {"press", "release"}
  <2>1. PICK next : s' = [r EXCEPT !.buttons = next]
    <3>1. CASE e.type = "press"
      BY <1>1, <1>11, <3>1 DEF XcbHandles, Pressed
    <3>2. CASE e.type = "release"
      BY <1>1, <1>11, <3>2 DEF XcbHandles, Released
    <3> QED BY <1>11, <3>1, <3>2
  <2> QED BY <1>5, <1>6, <2>1 DEF XcbWindow
<1> QED BY <1>7, <1>8, <1>9, <1>10, <1>11

(* The reports of sizes of Win32 and Wayland.                              *)
LEMMA SizesAreNotAnswered ==
    ASSUME WindowInv,
           \/ WmSize \/ ConfigureToplevel
           \/ \E bounds \in Bounds : ConfigureBounds(bounds)
    PROVE  s'.asked = s.asked
<1>1. ASSUME NEW size, WaylandInv(s), s' = [s EXCEPT !.size = size]
      PROVE  s'.asked = s.asked
  BY <1>1 DEF WaylandInv, WaylandWindow
<1>2. CASE WmSize
  <2>1. Win32Inv(s)
    BY <1>2, XcbAgrees, WaylandAgrees, AndroidAgrees DEF WmSize, Proc, WindowInv
  <2>2. PICK size \in Sizes : s' = [[s EXCEPT !.geometry = size] EXCEPT !.size = size]
    BY <1>2 DEF WmSize, ResizeEvent
  <2> QED BY <2>1, <2>2 DEF Win32Inv, Win32Works, Win32Window
<1>3. CASE ConfigureToplevel
  <2>1. WaylandInv(s)
    BY <1>3, XcbAgrees, Win32Agrees, AndroidAgrees DEF ConfigureToplevel, Listens, WindowInv
  <2> QED BY <1>1, <1>3, <2>1 DEF ConfigureToplevel, Resized, ResizeEvent
<1>4. CASE \E bounds \in Bounds : ConfigureBounds(bounds)
  <2>1. WaylandInv(s)
    BY <1>4, XcbAgrees, Win32Agrees, AndroidAgrees DEF ConfigureBounds, Listens, WindowInv
  <2> QED BY <1>1, <1>4, <2>1 DEF ConfigureBounds, Resized, ResizeEvent
<1> QED BY <1>2, <1>3, <1>4

LEMMA ScalesKeepOrder ==
    ASSUME NEW a \in Nat, NEW b \in Nat, NEW f \in Nat, a <= b
    PROVE  a * f <= f * b
<1>1. PICK d \in Nat : b = a + d
  OBVIOUS
<1>2. f * b = f * a + f * d /\ f * d \in Nat
  BY <1>1
<1> QED BY <1>2

LEMMA BoundsAreKept ==
    ASSUME WindowInv, NEW bounds \in Bounds, ConfigureBounds(bounds)
    PROVE  /\ bounds.width # 0 => s'.size.width <= s.scale * bounds.width
           /\ bounds.height # 0 => s'.size.height <= s.scale * bounds.height
<1> DEFINE size == Bounded(s.size, bounds)
           f == s.scale
<1>1. s.on = "wayland" /\ Resized(size)
  BY DEF ConfigureBounds, Listens
<1>2. s \in WaylandWindow
  BY <1>1, XcbAgrees, Win32Agrees, AndroidAgrees DEF WindowInv, WaylandInv
<1>3. s.size \in Extents /\ bounds \in Extents /\ f \in Nat
  BY <1>2, EventsAssumption DEF WaylandWindow, Extents
<1>4. /\ size.width \in Nat /\ size.height \in Nat
      /\ bounds.width \in Nat /\ bounds.height \in Nat
      /\ bounds.width # 0 => size.width <= bounds.width
      /\ bounds.height # 0 => size.height <= bounds.height
  BY <1>3 DEF Extents, Bounded
<1> HIDE DEF size
<1>5. s' = [s EXCEPT !.size = Scaled(size, f)]
  BY <1>1 DEF Resized, ResizeEvent
<1>6. s'.size.width = size.width * f /\ s'.size.height = size.height * f
  BY <1>2, <1>5 DEF WaylandWindow, Scaled
<1> HIDE DEF f
<1>7. /\ bounds.width # 0 => s'.size.width <= f * bounds.width
      /\ bounds.height # 0 => s'.size.height <= f * bounds.height
  BY <1>3, <1>4, <1>6, ScalesKeepOrder
<1> QED BY <1>7 DEF f

(* No step answers a report of a size with a request, on any platform, or  *)
(* leaves a window that was given bounds beyond one of them.               *)
THEOREM ReportsAreHeeded == Spec => NoStepOverreacts
<1>1. WindowInv /\ [Next]_s => [AnswersNoReport /\ KeepsBounds]_s
  BY ReportsAreNotAnswered, SizesAreNotAnswered, BoundsAreKept DEF AnswersNoReport, KeepsBounds
<1> QED BY <1>1, WindowHolds, PTL DEF Spec, NoStepOverreacts
=============================================================================
