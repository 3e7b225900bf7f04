----------------------- MODULE LinuxPlatformEventLoop -----------------------
(***************************************************************************)
(* File descriptor notifiers on the Linux platform loop: the map           *)
(* m_notifiers from descriptors to their read, write and exception         *)
(* notifiers, the interest list of the epoll instance that has to agree    *)
(* with it, and the dispatch of a batch of epoll events, whose handlers    *)
(* register and unregister notifiers themselves.                           *)
(*                                                                         *)
(* Everything happens on the loop's thread.  What other modules say about  *)
(* waking and blocking is left out: epoll_wait returns a batch or nothing. *)
(***************************************************************************)
EXTENDS Naturals, Sequences, FiniteSets

CONSTANTS
    Notifiers,          \* FileDescriptorNotifier objects
    Fds,                \* descriptor numbers
    FdOf, TypeOf,       \* m_fd and m_type of each notifier
    Unpollable,         \* descriptors epoll refuses (regular files: EPERM)
    HandlersDropCurrent,\* TRUE: a handler may drop the last notifier of the
                        \* descriptor whose event is being dispatched
    ReuseFds,           \* TRUE: a number may be reused before its notifiers
                        \* are unregistered
    Duplicates,         \* TRUE: two notifiers may exist for one fd and type
    MaxBatch,           \* bound: events one epoll_wait returns (16)
    Null

NTypes == {"Read", "Write", "Exception"}

\* The order in which waitForEventsImpl looks at the three notifiers.
After == [Read |-> "Write", Write |-> "Exception", Exception |-> "done"]

ASSUME NotifiersAssumption ==
    /\ FdOf \in [Notifiers -> Fds]
    /\ TypeOf \in [Notifiers -> NTypes]
    /\ Unpollable \subseteq Fds
    /\ {HandlersDropCurrent, ReuseFds, Duplicates} \subseteq BOOLEAN
    /\ MaxBatch \in Nat
    /\ Null \notin Notifiers \cup Fds

VARIABLES
    living,     \* notifiers constructed and not destroyed
    granted,    \* notifiers whose registration returned true, until they
                \* are unregistered themselves
    entries,    \* the keys of m_notifiers
    slot,       \* NotifierSet::events of each entry (Null where none)
    open,       \* descriptors that name an open file
    interest,   \* the epoll instance's event mask; {} for a file not in it
    batch,      \* epoll events not yet dispatched, the current one first
    next,       \* the check to do next for the current one
    ref,        \* the entry notifierSet refers to; Null: one that was erased
    poked       \* the notifier whose handler runs

vars == <<living, granted, entries, slot, open, interest, batch, next, ref,
          poked>>

registry == <<granted, entries, slot, interest, ref>>

TypeOK ==
    /\ living \subseteq Notifiers
    /\ granted \subseteq Notifiers
    /\ entries \subseteq Fds
    /\ slot \in [Fds -> [NTypes -> Notifiers \cup {Null}]]
    /\ open \subseteq Fds
    /\ interest \in [Fds -> SUBSET NTypes]
    /\ batch \in Seq([fd : Fds, types : SUBSET NTypes])
    /\ next \in NTypes \cup {"start", "done"}
    /\ ref \in Fds \cup {Null}
    /\ next = "start" => ref = Null
    /\ poked \in Notifiers \cup {Null}

EmptySet == [ty \in NTypes |-> Null]

Init ==
    /\ living = {}
    /\ granted = {}
    /\ entries = {}
    /\ slot = [f \in Fds |-> EmptySet]
    /\ open = Fds
    /\ interest = [f \in Fds |-> {}]
    /\ batch = <<>>
    /\ next = "start"
    /\ ref = Null
    /\ poked = Null

Watched(set) == {ty \in NTypes : set[ty] # Null}

InUserCode == batch = <<>> \/ poked # Null

Dispatching == batch # <<>> /\ next \in NTypes \cup {"done"}
-----------------------------------------------------------------------------
(***************************************************************************)
(* The epoll instance.  A closed file leaves the interest list by itself.  *)
(***************************************************************************)
EpollCtl(op, f) ==
    IF f \notin open THEN "EBADF"
    ELSE CASE op = "ADD" /\ f \in Unpollable                       -> "EPERM"
           [] op = "ADD" /\ f \notin Unpollable /\ interest[f] # {} -> "EEXIST"
           [] op # "ADD" /\ interest[f] = {}                       -> "ENOENT"
           [] OTHER                                                -> "ok"

\* m_notifiers[f] creates a missing entry.  A node that was erased while the
\* dispatch refers to it may be the memory the new one is put in.
Touch(f) ==
    /\ entries' = entries \cup {f}
    /\ IF f \notin entries /\ ref = Null /\ Dispatching
       THEN ref' \in {Null, f}
       ELSE UNCHANGED ref

\* Mutant: epollEventFromFdPlusType forgets the types already watched.
WithTypeMutant(f, ty) == {ty}

\* registerFileDescriptor
WithType(f, ty) == Watched(slot[f]) \cup {ty}

RegisterOp(f) == IF Watched(slot[f]) = {} THEN "ADD" ELSE "MOD"

Refused(n) == slot[FdOf[n]][TypeOf[n]] # Null

RegisterNotifier(n) ==
    LET f  == FdOf[n]
        ty == TypeOf[n]
        ok == ~Refused(n) /\ EpollCtl(RegisterOp(f), f) = "ok"
    IN  /\ Touch(f)
        /\ IF ok
           THEN /\ interest' = [interest EXCEPT ![f] = WithType(f, ty)]
                /\ slot' = [slot EXCEPT ![f][ty] = n]
                /\ granted' = granted \cup {n}
           ELSE UNCHANGED <<interest, slot, granted>>

\* unregisterFileDescriptor; EBADF counts as success.
WithoutType(f, ty) == Watched(slot[f]) \ {ty}

UnregisterOp(f, ty) == IF WithoutType(f, ty) = {} THEN "DEL" ELSE "MOD"

\* Mutant: a file that was closed first is an error like any other.
SucceedsMutant(rv) == rv = "ok"

Succeeds(rv) == rv \in {"ok", "EBADF"}

Unregistered(n) == Succeeds(EpollCtl(UnregisterOp(FdOf[n], TypeOf[n]), FdOf[n]))

\* Mutant: the entry goes with the first notifier that leaves it.
ErasesMutant(n) == Unregistered(n)

Erases(n) == Unregistered(n) /\ WithoutType(FdOf[n], TypeOf[n]) = {}

UnregisterNotifier(n) ==
    LET f  == FdOf[n]
        ty == TypeOf[n]
    IN  /\ granted' = granted \ {n}
        /\ interest' = IF EpollCtl(UnregisterOp(f, ty), f) = "ok"
                       THEN [interest EXCEPT ![f] = WithoutType(f, ty)]
                       ELSE interest
        /\ IF Erases(n)
           THEN /\ entries' = entries \ {f}
                /\ slot' = [slot EXCEPT ![f] = EmptySet]
                /\ ref' = IF ref = f THEN Null ELSE ref
           ELSE /\ Touch(f)
                /\ slot' = IF Unregistered(n)
                           THEN [slot EXCEPT ![f][ty] = Null] ELSE slot
-----------------------------------------------------------------------------
(***************************************************************************)
(* Program code, outside waitForEvents or in the handler of a notifier.    *)
(***************************************************************************)
Elsewhere == UNCHANGED <<open, batch, next, poked>>

\* FileDescriptorNotifier's constructor does not look at the result.
Construct(n) ==
    /\ InUserCode
    /\ n \notin living
    /\ FdOf[n] \in open
    /\ \A m \in living : FdOf[m] = FdOf[n] /\ TypeOf[m] = TypeOf[n] => Duplicates
    /\ RegisterNotifier(n)
    /\ living' = living \cup {n}
    /\ Elsewhere

Register(n) ==
    /\ InUserCode
    /\ n \in living
    /\ RegisterNotifier(n)
    /\ UNCHANGED living
    /\ Elsewhere

MayDrop(n) == Dispatching /\ ref = FdOf[n] /\ Erases(n) => HandlersDropCurrent

Unregister(n) ==
    /\ InUserCode
    /\ n \in living
    /\ MayDrop(n)
    /\ UnregisterNotifier(n)
    /\ UNCHANGED living
    /\ Elsewhere

Destroy(n) ==
    /\ InUserCode
    /\ n \in living
    /\ MayDrop(n)
    /\ UnregisterNotifier(n)
    /\ living' = living \ {n}
    /\ Elsewhere

CloseFile(f) ==
    /\ InUserCode
    /\ f \in open
    /\ open' = open \ {f}
    /\ interest' = [interest EXCEPT ![f] = {}]
    /\ UNCHANGED <<living, granted, entries, slot, batch, next, ref, poked>>

OpenFile(f) ==
    /\ InUserCode
    /\ f \notin open
    /\ Watched(slot[f]) # {} => ReuseFds
    /\ open' = open \cup {f}
    /\ UNCHANGED <<living, registry, batch, next, poked>>
-----------------------------------------------------------------------------
(***************************************************************************)
(* waitForEventsImpl.  A hangup or an error counts for all three types.    *)
(***************************************************************************)
Reports ==
    {ev \in [fd : Fds, types : SUBSET NTypes \ {{}}] :
        /\ interest[ev.fd] # {}
        /\ ev.types \subseteq interest[ev.fd] \/ ev.types = NTypes}

\* epoll_wait
Wait ==
    /\ batch = <<>>
    /\ \E n \in 1..MaxBatch : \E evs \in [1..n -> Reports] :
         /\ \A i, j \in 1..n : i # j => evs[i].fd # evs[j].fd
         /\ batch' = evs
    /\ UNCHANGED <<living, registry, open, next, poked>>

\* notifierSet = m_notifiers[fd]
StartEvent ==
    /\ batch # <<>>
    /\ next = "start"
    /\ entries' = entries \cup {Head(batch).fd}
    /\ ref' = Head(batch).fd
    /\ next' = "Read"
    /\ UNCHANGED <<living, granted, slot, open, interest, batch, poked>>

\* What is read through notifierSet; an erased set reads as empty until its
\* memory holds another one.
CurrentSet == IF ref = Null THEN EmptySet ELSE slot[ref]

\* Mutant: a notifier is poked whatever was reported.
ReportedMutant(ty) == TRUE

Reported(ty) == ty \in Head(batch).types

Check(ty) ==
    /\ batch # <<>>
    /\ next = ty
    /\ poked = Null
    /\ poked' = IF Reported(ty) THEN CurrentSet[ty] ELSE Null
    /\ next' = After[ty]
    /\ UNCHANGED <<living, registry, open, batch>>

\* The handler of a NotifierEvent (or the filter that took it) returns.
HandlerReturn ==
    /\ poked # Null
    /\ poked' = Null
    /\ UNCHANGED <<living, registry, open, batch, next>>

\* Mutant: the reference outlives the event.
EndOfEventMutant ==
    /\ batch # <<>>
    /\ next = "done"
    /\ poked = Null
    /\ batch' = Tail(batch)
    /\ next' = "start"
    /\ UNCHANGED <<living, registry, open, poked>>

EndOfEvent ==
    /\ batch # <<>>
    /\ next = "done"
    /\ poked = Null
    /\ batch' = Tail(batch)
    /\ next' = "start"
    /\ ref' = Null
    /\ UNCHANGED <<living, granted, entries, slot, open, interest, poked>>

UserStep ==
    \/ \E n \in Notifiers : Construct(n) \/ Register(n) \/ Unregister(n) \/ Destroy(n)
    \/ \E f \in Fds : CloseFile(f) \/ OpenFile(f)

Next ==
    \/ UserStep
    \/ Wait
    \/ StartEvent
    \/ \E ty \in NTypes : Check(ty)
    \/ HandlerReturn
    \/ EndOfEvent

Spec == Init /\ [][Next]_vars
-----------------------------------------------------------------------------
(***************************************************************************)
(* The kernel watches a file for exactly the types that have a notifier:   *)
(* no add, modify or delete ever fails half way or clears another type.    *)
(***************************************************************************)
InterestMatchesSlots ==
    \A f \in open : interest[f] = Watched(slot[f])

(***************************************************************************)
(* The loop keeps no pointer to a notifier that was destroyed, not even    *)
(* when the file was closed before the notifier ("This way we ensure       *)
(* notifiers are reset / deleted properly").                               *)
(***************************************************************************)
NoDanglingSlot ==
    \A f \in Fds : \A ty \in Watched(slot[f]) : slot[f][ty] \in living

(***************************************************************************)
(* A notifier whose registration succeeded stays registered, whatever      *)
(* happens to other notifiers, until it is unregistered itself.            *)
(***************************************************************************)
GrantedStayRegistered ==
    \A n \in granted : slot[FdOf[n]][TypeOf[n]] = n

(***************************************************************************)
(* m_notifiers and the epoll instance agree, no slot dangles, and whoever  *)
(* was registered stays so: registerNotifier and unregisterNotifier.       *)
(***************************************************************************)
RegistryAgrees == TypeOK /\ InterestMatchesSlots /\ NoDanglingSlot /\ GrantedStayRegistered

(***************************************************************************)
(* A reported event pokes the notifier registered for that descriptor and  *)
(* type, if there is one, and nobody else, although handlers change the    *)
(* map while it is being dispatched.                                       *)
(***************************************************************************)
Addressed(ty) ==
    {n \in granted \cap living :
        FdOf[n] = Head(batch).fd /\ TypeOf[n] = ty /\ ty \in Head(batch).types}

PokesReported ==
    next \in NTypes /\ next' # next =>
      IF Addressed(next) = {} THEN poked' = Null ELSE poked' \in Addressed(next)

PokesTheReported == [][PokesReported]_vars

(***************************************************************************)
(* The part of it that matters most: nobody is poked for an event of       *)
(* another descriptor ("Find which notifiers for this fd should be poked"). *)
(***************************************************************************)
PokesNobodyElse ==
    [][poked' \notin {poked, Null} => FdOf[poked'] = Head(batch).fd]_vars
=============================================================================
