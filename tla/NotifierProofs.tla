--------------------------- MODULE NotifierProofs ---------------------------
(***************************************************************************)
(* The registry of the Linux loop agrees with the epoll instance and with  *)
(* the notifiers that live, for any number of notifiers and descriptors,   *)
(* and also when handlers drop the notifier set that is being dispatched.  *)
(* It takes a program that has one notifier for a descriptor and a type,   *)
(* and that unregisters before a number is reused.                         *)
(***************************************************************************)
EXTENDS LinuxPlatformEventLoop, SequenceTheorems, TLAPS

(***************************************************************************)
(* What RegistryAgrees rests on: a closed file is watched for nothing,     *)
(* a slot holds a notifier of its own descriptor and type, and living      *)
(* notifiers differ in one of the two.                                     *)
(***************************************************************************)
ClosedUnwatched == \A f \in Fds \ open : interest[f] = {}

SlotsFit ==
    \A f \in Fds : \A ty \in NTypes : slot[f][ty] # Null =>
        slot[f][ty] \in living /\ FdOf[slot[f][ty]] = f /\ TypeOf[slot[f][ty]] = ty

OneEach ==
    \A m, n \in living : FdOf[m] = FdOf[n] /\ TypeOf[m] = TypeOf[n] => m = n

RegistryInv ==
    /\ TypeOK
    /\ InterestMatchesSlots /\ ClosedUnwatched
    /\ SlotsFit /\ OneEach /\ GrantedStayRegistered

LEMMA SlotsFitSuffices == TypeOK /\ SlotsFit => NoDanglingSlot
  BY DEF SlotsFit, NoDanglingSlot, Watched

LEMMA TouchType ==
    ASSUME TypeOK, NEW f \in Fds, Touch(f)
    PROVE  /\ entries' \in SUBSET Fds
           /\ ref' \in Fds \cup {Null}
           /\ next = "start" => ref' = Null
<1>1. CASE f \notin entries /\ ref = Null /\ Dispatching
  BY <1>1 DEF Touch, Dispatching, TypeOK, NTypes
<1>2. CASE ~(f \notin entries /\ ref = Null /\ Dispatching)
  BY <1>2 DEF Touch, TypeOK
<1> QED BY <1>1, <1>2

(***************************************************************************)
(* Registering puts n, which lives, into its own slot and adds its type to *)
(* the interest, or changes nothing.                                       *)
(***************************************************************************)
RegistryStep == ClosedUnwatched' /\ InterestMatchesSlots' /\ SlotsFit' /\ GrantedStayRegistered'

LEMMA RegisterType ==
    ASSUME TypeOK, NEW n \in Notifiers, RegisterNotifier(n)
    PROVE  /\ granted' \in SUBSET Notifiers
           /\ slot' \in [Fds -> [NTypes -> Notifiers \cup {Null}]]
           /\ interest' \in [Fds -> SUBSET NTypes]
           /\ entries' \in SUBSET Fds
           /\ ref' \in Fds \cup {Null}
           /\ next = "start" => ref' = Null
<1> DEFINE f == FdOf[n]
           ty == TypeOf[n]
<1>1. f \in Fds /\ ty \in NTypes
  BY NotifiersAssumption
<1>2. Touch(f)
  BY DEF RegisterNotifier
<1>3. /\ entries' \in SUBSET Fds /\ ref' \in Fds \cup {Null}
      /\ next = "start" => ref' = Null
  BY <1>1, <1>2, TouchType
<1>4. CASE UNCHANGED <<interest, slot, granted>>
  BY <1>3, <1>4 DEF TypeOK
<1>5. CASE /\ interest' = [interest EXCEPT ![f] = WithType(f, ty)]
           /\ slot' = [slot EXCEPT ![f][ty] = n]
           /\ granted' = granted \cup {n}
  <2>1. WithType(f, ty) \in SUBSET NTypes
    BY <1>1 DEF WithType, Watched
  <2>2. interest' \in [Fds -> SUBSET NTypes]
    BY <2>1, <1>5 DEF TypeOK
  <2>3. slot' \in [Fds -> [NTypes -> Notifiers \cup {Null}]]
    BY <1>1, <1>5 DEF TypeOK
  <2> QED BY <2>2, <2>3, <1>3, <1>5 DEF TypeOK
<1> QED BY <1>4, <1>5 DEF RegisterNotifier

LEMMA RegisterKeeps ==
    ASSUME RegistryInv, NEW n \in Notifiers, RegisterNotifier(n),
           n \in living', living \subseteq living', open' = open
    PROVE  RegistryStep
<1> DEFINE f == FdOf[n]
           ty == TypeOf[n]
<1>1. f \in Fds /\ ty \in NTypes /\ n # Null
  BY NotifiersAssumption
<1>2. CASE UNCHANGED <<interest, slot, granted>>
  BY <1>2 DEF RegistryInv, RegistryStep, ClosedUnwatched, InterestMatchesSlots, SlotsFit,
              GrantedStayRegistered, Watched
<1>3. CASE /\ ~Refused(n) /\ EpollCtl(RegisterOp(f), f) = "ok"
           /\ interest' = [interest EXCEPT ![f] = WithType(f, ty)]
           /\ slot' = [slot EXCEPT ![f][ty] = n]
           /\ granted' = granted \cup {n}
  <2>1. f \in open
    BY <1>3 DEF EpollCtl
  <2>2. slot[f][ty] = Null
    BY <1>3 DEF Refused
  <2>3. /\ \A g \in Fds \ {f} : slot'[g] = slot[g] /\ interest'[g] = interest[g]
        /\ \A u \in NTypes : slot'[f][u] = IF u = ty THEN n ELSE slot[f][u]
        /\ interest'[f] = WithType(f, ty)
    BY <1>1, <1>3 DEF RegistryInv, TypeOK
  <2>4. ClosedUnwatched'
    BY <2>1, <2>3 DEF ClosedUnwatched, RegistryInv
  <2>5. InterestMatchesSlots'
    <3>1. Watched(slot'[f]) = WithType(f, ty)
      BY <1>1, <2>3 DEF Watched, WithType
    <3>2. \A g \in open \ {f} : g \in Fds /\ interest'[g] = Watched(slot'[g])
      BY <2>3 DEF RegistryInv, InterestMatchesSlots, TypeOK
    <3> QED BY <2>3, <3>1, <3>2 DEF InterestMatchesSlots
  <2>6. SlotsFit'
    BY <1>1, <2>3 DEF SlotsFit, RegistryInv
  <2>7. GrantedStayRegistered'
    <3>1. \A m \in granted : m \in Notifiers /\ m # Null /\ FdOf[m] \in Fds /\ TypeOf[m] \in NTypes
      BY NotifiersAssumption DEF RegistryInv, TypeOK
    <3>2. \A m \in granted : slot'[FdOf[m]][TypeOf[m]] = m
      BY <2>2, <2>3, <3>1 DEF RegistryInv, GrantedStayRegistered
    <3> QED BY <1>1, <1>3, <2>3, <3>2 DEF GrantedStayRegistered
  <2> QED BY <2>4, <2>5, <2>6, <2>7 DEF RegistryStep
<1> QED BY <1>2, <1>3 DEF RegisterNotifier

(***************************************************************************)
(* Unregistering empties the slot of n and takes its type out of the       *)
(* interest, if its file is open, or finds it empty and changes nothing.   *)
(***************************************************************************)
LEMMA UnregisterType ==
    ASSUME TypeOK, NEW n \in Notifiers, UnregisterNotifier(n)
    PROVE  /\ granted' \in SUBSET Notifiers
           /\ slot' \in [Fds -> [NTypes -> Notifiers \cup {Null}]]
           /\ interest' \in [Fds -> SUBSET NTypes]
           /\ entries' \in SUBSET Fds
           /\ ref' \in Fds \cup {Null}
           /\ next = "start" => ref' = Null
<1> DEFINE f == FdOf[n]
           ty == TypeOf[n]
<1>1. f \in Fds /\ ty \in NTypes
  BY NotifiersAssumption
<1>2. granted' \in SUBSET Notifiers
  BY DEF UnregisterNotifier, TypeOK
<1>3. interest' \in [Fds -> SUBSET NTypes]
  <2>1. WithoutType(f, ty) \in SUBSET NTypes
    BY DEF WithoutType, Watched
  <2> QED BY <2>1 DEF UnregisterNotifier, TypeOK
<1>4. CASE Erases(n)
  <2>1. EmptySet \in [NTypes -> Notifiers \cup {Null}]
    BY DEF EmptySet
  <2>2. slot' \in [Fds -> [NTypes -> Notifiers \cup {Null}]]
    BY <1>4, <2>1 DEF UnregisterNotifier, TypeOK
  <2>3. /\ entries' \in SUBSET Fds /\ ref' \in Fds \cup {Null}
        /\ next = "start" => ref' = Null
    BY <1>4 DEF UnregisterNotifier, TypeOK
  <2> QED BY <1>2, <1>3, <2>2, <2>3
<1>5. CASE ~Erases(n)
  <2>1. Touch(f) /\ slot' = IF Unregistered(n) THEN [slot EXCEPT ![f][ty] = Null] ELSE slot
    BY <1>5 DEF UnregisterNotifier
  <2>2. slot' \in [Fds -> [NTypes -> Notifiers \cup {Null}]]
    BY <1>1, <2>1 DEF TypeOK
  <2>3. /\ entries' \in SUBSET Fds /\ ref' \in Fds \cup {Null}
        /\ next = "start" => ref' = Null
    BY <1>1, <2>1, TouchType
  <2> QED BY <1>2, <1>3, <2>2, <2>3
<1> QED BY <1>4, <1>5

LEMMA UnregisterKeeps ==
    ASSUME RegistryInv, NEW n \in Notifiers, UnregisterNotifier(n),
           n \in living, living' = living \/ living' = living \ {n}, open' = open
    PROVE  RegistryStep
<1> DEFINE f == FdOf[n]
           ty == TypeOf[n]
<1>1. f \in Fds /\ ty \in NTypes /\ n # Null
  BY NotifiersAssumption
<1>2. slot[f][ty] \in {n, Null}
  BY <1>1 DEF RegistryInv, SlotsFit, OneEach
<1>3. /\ slot' \in [Fds -> [NTypes -> Notifiers \cup {Null}]]
      /\ interest' \in [Fds -> SUBSET NTypes]
  BY UnregisterType DEF RegistryInv
<1>4. slot'[f][ty] = Null
  <2>1. CASE Unregistered(n)
    BY <1>1, <2>1 DEF UnregisterNotifier, EmptySet, RegistryInv, TypeOK
  <2>2. CASE ~Unregistered(n)
    <3>1. f \in open /\ interest[f] = {}
      <4>1. UnregisterOp(f, ty) # "ADD"
        BY DEF UnregisterOp
      <4>2. EpollCtl(UnregisterOp(f, ty), f) \notin {"ok", "EBADF"}
        BY <2>2 DEF Unregistered, Succeeds
      <4> QED BY <4>1, <4>2 DEF EpollCtl
    <3>2. slot[f][ty] = Null
      BY <1>1, <3>1 DEF RegistryInv, InterestMatchesSlots, Watched
    <3>3. slot' = slot
      BY <2>2 DEF UnregisterNotifier, Erases
    <3> QED BY <3>2, <3>3
  <2> QED BY <2>1, <2>2
<1>5. \A g \in Fds, u \in NTypes : <<g, u>> # <<f, ty>> => slot'[g][u] = slot[g][u]
  <2>1. CASE Erases(n)
    <3>1. \A u \in NTypes \ {ty} : slot[f][u] = Null
      BY <2>1 DEF Erases, WithoutType, Watched
    <3>2. slot' = [slot EXCEPT ![f] = EmptySet]
      BY <2>1 DEF UnregisterNotifier
    <3> QED BY <1>1, <3>1, <3>2 DEF EmptySet, RegistryInv, TypeOK
  <2>2. CASE ~Erases(n)
    BY <1>1, <2>2 DEF UnregisterNotifier, RegistryInv, TypeOK
  <2> QED BY <2>1, <2>2
<1>6. ClosedUnwatched'
  BY <1>1 DEF UnregisterNotifier, EpollCtl, ClosedUnwatched, RegistryInv, TypeOK
<1>7. InterestMatchesSlots'
  <2>1. \A g \in Fds \ {f} : Watched(slot'[g]) = Watched(slot[g]) /\ interest'[g] = interest[g]
    BY <1>5 DEF Watched, UnregisterNotifier, RegistryInv, TypeOK
  <2>2. Watched(slot'[f]) = WithoutType(f, ty)
    BY <1>1, <1>4, <1>5 DEF Watched, WithoutType
  <2>3. ASSUME f \in open PROVE interest'[f] = WithoutType(f, ty)
    <3>1. CASE EpollCtl(UnregisterOp(f, ty), f) = "ok"
      BY <1>1, <3>1 DEF UnregisterNotifier, RegistryInv, TypeOK
    <3>2. CASE EpollCtl(UnregisterOp(f, ty), f) # "ok"
      <4>1. interest[f] = {}
        BY <2>3, <3>2 DEF EpollCtl, UnregisterOp
      <4>2. Watched(slot[f]) = {}
        BY <2>3, <4>1 DEF RegistryInv, InterestMatchesSlots
      <4> QED BY <3>2, <4>1, <4>2 DEF UnregisterNotifier, WithoutType
    <3> QED BY <3>1, <3>2
  <2> QED BY <2>1, <2>2, <2>3 DEF InterestMatchesSlots, RegistryInv, TypeOK
<1>8. SlotsFit'
  BY <1>1, <1>4, <1>5 DEF SlotsFit, RegistryInv
<1>9. GrantedStayRegistered'
  <2>1. \A m \in granted : m \in Notifiers /\ m # Null /\ FdOf[m] \in Fds /\ TypeOf[m] \in NTypes
    BY NotifiersAssumption DEF RegistryInv, TypeOK
  <2>2. \A m \in granted \ {n} : <<FdOf[m], TypeOf[m]>> # <<f, ty>>
    BY <1>2, <2>1 DEF RegistryInv, GrantedStayRegistered
  <2>3. \A m \in granted \ {n} : slot'[FdOf[m]][TypeOf[m]] = m
    BY <1>5, <2>1, <2>2 DEF RegistryInv, GrantedStayRegistered
  <2>4. granted' = granted \ {n}
    BY DEF UnregisterNotifier
  <2> QED BY <2>3, <2>4 DEF GrantedStayRegistered
<1> QED BY <1>6, <1>7, <1>8, <1>9 DEF RegistryStep

LEMMA RegistryInductive ==
    ASSUME ReuseFds = FALSE, Duplicates = FALSE, RegistryInv, [Next]_vars
    PROVE  RegistryInv'
<1> USE DEF RegistryInv
<1>0. TypeOK
  OBVIOUS
<1>1. ASSUME NEW n \in Notifiers, Construct(n) PROVE RegistryInv'
  <2>1. RegisterNotifier(n) /\ n \in living' /\ living \subseteq living' /\ open' = open
    BY <1>1 DEF Construct, Elsewhere
  <2>2. RegistryStep
    BY <2>1, RegisterKeeps
  <2>3. TypeOK'
    BY <1>0, <1>1, <2>1, RegisterType DEF TypeOK, Construct, Elsewhere
  <2>4. OneEach'
    BY <1>1 DEF Construct, OneEach
  <2> QED BY <2>2, <2>3, <2>4 DEF RegistryStep
<1>2. ASSUME NEW n \in Notifiers, Register(n) PROVE RegistryInv'
  <2>1. RegisterNotifier(n) /\ n \in living' /\ living' = living /\ open' = open
    BY <1>2 DEF Register, Elsewhere
  <2>2. RegistryStep
    BY <2>1, RegisterKeeps
  <2>3. TypeOK'
    BY <1>0, <1>2, <2>1, RegisterType DEF TypeOK, Register, Elsewhere
  <2>4. OneEach'
    BY <2>1 DEF OneEach
  <2> QED BY <2>2, <2>3, <2>4 DEF RegistryStep
<1>3. ASSUME NEW n \in Notifiers, Unregister(n) \/ Destroy(n) PROVE RegistryInv'
  <2>1. /\ UnregisterNotifier(n) /\ n \in living
        /\ living' = living \/ living' = living \ {n}
        /\ UNCHANGED <<open, batch, next, poked>>
    BY <1>3 DEF Unregister, Destroy, Elsewhere
  <2>2. RegistryStep
    BY <2>1, UnregisterKeeps
  <2>3. TypeOK'
    BY <1>0, <2>1, UnregisterType DEF TypeOK
  <2>4. OneEach'
    BY <2>1 DEF OneEach
  <2> QED BY <2>2, <2>3, <2>4 DEF RegistryStep
<1>4. ASSUME NEW f \in Fds, CloseFile(f) PROVE RegistryInv'
  BY <1>4 DEF CloseFile, TypeOK, InterestMatchesSlots, ClosedUnwatched, SlotsFit, OneEach,
              GrantedStayRegistered, Watched
<1>5. ASSUME NEW f \in Fds, OpenFile(f) PROVE RegistryInv'
  BY <1>5 DEF OpenFile, registry, TypeOK, InterestMatchesSlots, ClosedUnwatched, SlotsFit,
              OneEach, GrantedStayRegistered, Watched
<1>6. ASSUME UNCHANGED <<living, granted, slot, open, interest>>, TypeOK' PROVE RegistryInv'
  BY <1>6 DEF InterestMatchesSlots, ClosedUnwatched, SlotsFit, OneEach,
              GrantedStayRegistered, Watched
<1>7. CASE Wait
  <2>1. batch' \in Seq([fd : Fds, types : SUBSET NTypes])
    <3>1. PICK k \in 1..MaxBatch : \E evs \in [1..k -> Reports] : batch' = evs
      BY <1>7 DEF Wait
    <3>2. Reports \subseteq [fd : Fds, types : SUBSET NTypes]
      BY DEF Reports
    <3>3. k \in Nat /\ batch' \in [1..k -> [fd : Fds, types : SUBSET NTypes]]
      BY <3>1, <3>2, NotifiersAssumption
    <3>4. \A S : [1..k -> S] \subseteq Seq(S)
      BY <3>3
    <3> QED BY <3>3, <3>4
  <2> QED BY <1>6, <1>7, <2>1 DEF Wait, TypeOK, registry
<1>8. CASE StartEvent
  <2>1. batch \in Seq([fd : Fds, types : SUBSET NTypes]) /\ batch # <<>>
    BY <1>8 DEF StartEvent, TypeOK
  <2>2. Head(batch) \in [fd : Fds, types : SUBSET NTypes]
    BY <2>1, HeadTailProperties
  <2>3. Head(batch).fd \in Fds
    BY <2>2
  <2> QED BY <1>6, <1>8, <2>3 DEF StartEvent, TypeOK, NTypes
<1>9. ASSUME NEW ty \in NTypes, Check(ty) PROVE RegistryInv'
  <2>1. After[ty] \in NTypes \cup {"done"}
    BY DEF After, NTypes
  <2>2. CurrentSet[ty] \in Notifiers \cup {Null}
    BY DEF CurrentSet, EmptySet, TypeOK
  <2>3. next # "start" /\ next' # "start"
    BY <1>9, <2>1 DEF Check, NTypes
  <2> QED BY <1>6, <1>9, <2>1, <2>2, <2>3 DEF Check, TypeOK, registry
<1>10. CASE HandlerReturn
  BY <1>6, <1>10 DEF HandlerReturn, TypeOK, registry
<1>11. CASE EndOfEvent
  <2>1. batch \in Seq([fd : Fds, types : SUBSET NTypes])
    BY DEF TypeOK
  <2>2. batch # <<>> => Tail(batch) \in Seq([fd : Fds, types : SUBSET NTypes])
    BY <2>1, HeadTailProperties
  <2> QED BY <1>6, <1>11, <2>2 DEF EndOfEvent, TypeOK
<1>12. CASE UNCHANGED vars
  BY <1>6, <1>12 DEF vars, TypeOK
<1> HIDE DEF RegistryInv
<1> QED
  BY <1>1, <1>2, <1>3, <1>4, <1>5, <1>7, <1>8, <1>9, <1>10, <1>11, <1>12
  DEF Next, UserStep

(* The registry, the epoll instance and the living notifiers agree, and    *)
(* whoever was registered stays so until it is unregistered.               *)
THEOREM RegistryIsRight ==
    ASSUME ReuseFds = FALSE, Duplicates = FALSE
    PROVE  Spec => []RegistryAgrees
<1>1. Init => RegistryInv
  BY DEF Init, RegistryInv, TypeOK, InterestMatchesSlots, ClosedUnwatched, SlotsFit, OneEach,
         GrantedStayRegistered, Watched, EmptySet
<1>2. RegistryInv /\ [Next]_vars => RegistryInv'
  BY RegistryInductive
<1>3. RegistryInv => RegistryAgrees
  BY SlotsFitSuffices DEF RegistryInv, RegistryAgrees
<1> QED BY <1>1, <1>2, <1>3, PTL DEF Spec
-----------------------------------------------------------------------------
(***************************************************************************)
(* The dispatch.  The reference that is followed for an event is to the    *)
(* set of its descriptor as long as no handler erases that set, and a slot *)
(* holds only notifiers that were granted it.                              *)
(***************************************************************************)
RefIsCurrent == next # "start" => batch # <<>> /\ ref = Head(batch).fd

SlotsGranted ==
    \A f \in Fds : \A ty \in NTypes : slot[f][ty] # Null => slot[f][ty] \in granted

DispatchInv == RegistryInv /\ RefIsCurrent /\ SlotsGranted

LEMMA RegisterGranted ==
    ASSUME DispatchInv, NEW n \in Notifiers, RegisterNotifier(n),
           next' = next, batch' = batch
    PROVE  RefIsCurrent' /\ SlotsGranted'
<1>1. FdOf[n] \in Fds /\ TypeOf[n] \in NTypes
  BY NotifiersAssumption
<1>2. RefIsCurrent'
  <2>1. ASSUME next # "start" PROVE ref' = ref
    <3>1. Head(batch) \in [fd : Fds, types : SUBSET NTypes]
      BY <2>1, HeadTailProperties DEF DispatchInv, RefIsCurrent, RegistryInv, TypeOK
    <3>2. ref # Null
      BY <2>1, <3>1, NotifiersAssumption DEF DispatchInv, RefIsCurrent
    <3> QED BY <3>2 DEF RegisterNotifier, Touch
  <2> QED BY <2>1 DEF DispatchInv, RefIsCurrent
<1>3. SlotsGranted'
  <2>1. CASE UNCHANGED <<slot, granted>>
    BY <2>1 DEF DispatchInv, SlotsGranted
  <2>2. CASE slot' = [slot EXCEPT ![FdOf[n]][TypeOf[n]] = n] /\ granted' = granted \cup {n}
    <3>1. \A f \in Fds, ty \in NTypes : slot'[f][ty] = n \/ slot'[f][ty] = slot[f][ty]
      BY <1>1, <2>2 DEF DispatchInv, RegistryInv, TypeOK
    <3> QED BY <2>2, <3>1 DEF DispatchInv, SlotsGranted
  <2> QED BY <2>1, <2>2 DEF RegisterNotifier
<1> QED BY <1>2, <1>3

LEMMA UnregisterGranted ==
    ASSUME HandlersDropCurrent = FALSE, DispatchInv, RegistryInv',
           NEW n \in Notifiers, n \in living, MayDrop(n), UnregisterNotifier(n),
           next' = next, batch' = batch
    PROVE  RefIsCurrent' /\ SlotsGranted'
<1>1. FdOf[n] \in Fds /\ TypeOf[n] \in NTypes
  BY NotifiersAssumption
<1>2. RefIsCurrent'
  <2>1. ASSUME next # "start" PROVE ref' = ref
    <3>1. Head(batch) \in [fd : Fds, types : SUBSET NTypes] /\ Dispatching
      BY <2>1, HeadTailProperties
      DEF DispatchInv, RefIsCurrent, RegistryInv, TypeOK, Dispatching
    <3>2. ref # Null
      BY <2>1, <3>1, NotifiersAssumption DEF DispatchInv, RefIsCurrent
    <3>3. Erases(n) => ref # FdOf[n]
      BY <3>1 DEF MayDrop
    <3> QED BY <3>2, <3>3 DEF UnregisterNotifier, Touch
  <2> QED BY <2>1 DEF DispatchInv, RefIsCurrent
<1>3. SlotsGranted'
  <2>1. granted' = granted \ {n}
    BY DEF UnregisterNotifier
  <2>2. \A f \in Fds, ty \in NTypes : slot'[f][ty] # Null => slot'[f][ty] = slot[f][ty]
    BY <1>1 DEF UnregisterNotifier, EmptySet, DispatchInv, RegistryInv, TypeOK
  <2>3. ASSUME NEW f \in Fds, NEW ty \in NTypes, slot'[f][ty] = n PROVE FALSE
    <3>1. n # Null /\ slot[f][ty] = n /\ f = FdOf[n] /\ ty = TypeOf[n]
      BY <2>2, <2>3, NotifiersAssumption DEF DispatchInv, RegistryInv, SlotsFit
    <3>2. CASE Unregistered(n)
      BY <1>1, <2>3, <3>1, <3>2
      DEF UnregisterNotifier, EmptySet, DispatchInv, RegistryInv, TypeOK
    <3>3. CASE ~Unregistered(n)
      <4>1. UnregisterOp(f, ty) # "ADD"
        BY DEF UnregisterOp
      <4>2. EpollCtl(UnregisterOp(f, ty), f) \notin {"ok", "EBADF"}
        BY <3>1, <3>3 DEF Unregistered, Succeeds
      <4>3. f \in open /\ interest[f] = {}
        BY <4>1, <4>2 DEF EpollCtl
      <4> QED BY <3>1, <4>3 DEF DispatchInv, RegistryInv, InterestMatchesSlots, Watched
    <3> QED BY <3>2, <3>3
  <2> QED BY <2>1, <2>2, <2>3 DEF DispatchInv, SlotsGranted
<1> QED BY <1>2, <1>3

LEMMA DispatchInductive ==
    ASSUME ReuseFds = FALSE, Duplicates = FALSE, HandlersDropCurrent = FALSE,
           DispatchInv, [Next]_vars
    PROVE  DispatchInv'
<1>1. RegistryInv'
  BY RegistryInductive DEF DispatchInv
<1>2. ASSUME NEW n \in Notifiers, Construct(n) \/ Register(n)
      PROVE  RefIsCurrent' /\ SlotsGranted'
  BY <1>2, RegisterGranted DEF Construct, Register, Elsewhere
<1>3. ASSUME NEW n \in Notifiers, Unregister(n) \/ Destroy(n)
      PROVE  RefIsCurrent' /\ SlotsGranted'
  BY <1>1, <1>3, UnregisterGranted DEF Unregister, Destroy, Elsewhere
<1>4. ASSUME UNCHANGED <<slot, granted>>, RefIsCurrent' PROVE RefIsCurrent' /\ SlotsGranted'
  BY <1>4 DEF DispatchInv, SlotsGranted
<1>5. ASSUME NEW f \in Fds, CloseFile(f) \/ OpenFile(f) PROVE RefIsCurrent' /\ SlotsGranted'
  BY <1>4, <1>5 DEF CloseFile, OpenFile, registry, DispatchInv, RefIsCurrent
<1>6. CASE Wait
  <2>1. RefIsCurrent'
    BY <1>6 DEF Wait, DispatchInv, RefIsCurrent
  <2>2. UNCHANGED <<slot, granted>>
    BY <1>6 DEF Wait, registry
  <2> QED BY <1>1, <1>4, <2>1, <2>2 DEF DispatchInv
<1>7. CASE StartEvent
  <2>1. RefIsCurrent'
    BY <1>7 DEF StartEvent, RefIsCurrent
  <2>2. UNCHANGED <<slot, granted>>
    BY <1>7 DEF StartEvent
  <2> QED BY <1>1, <1>4, <2>1, <2>2 DEF DispatchInv
<1>8. ASSUME NEW ty \in NTypes, Check(ty) PROVE RefIsCurrent' /\ SlotsGranted'
  <2>1. RefIsCurrent'
    BY <1>8 DEF Check, registry, RefIsCurrent, DispatchInv, NTypes
  <2>2. UNCHANGED <<slot, granted>>
    BY <1>8 DEF Check, registry
  <2> QED BY <1>1, <1>4, <2>1, <2>2 DEF DispatchInv
<1>9. CASE HandlerReturn
  <2>1. RefIsCurrent'
    BY <1>9 DEF HandlerReturn, registry, RefIsCurrent, DispatchInv
  <2>2. UNCHANGED <<slot, granted>>
    BY <1>9 DEF HandlerReturn, registry
  <2> QED BY <1>1, <1>4, <2>1, <2>2 DEF DispatchInv
<1>10. CASE EndOfEvent
  <2>1. RefIsCurrent'
    BY <1>10 DEF EndOfEvent, RefIsCurrent
  <2>2. UNCHANGED <<slot, granted>>
    BY <1>10 DEF EndOfEvent
  <2> QED BY <1>1, <1>4, <2>1, <2>2 DEF DispatchInv
<1>11. CASE UNCHANGED vars
  <2>1. RefIsCurrent'
    BY <1>11 DEF vars, RefIsCurrent, DispatchInv
  <2>2. UNCHANGED <<slot, granted>>
    BY <1>11 DEF vars
  <2> QED BY <1>1, <1>4, <2>1, <2>2 DEF DispatchInv
<1> QED
  BY <1>1, <1>2, <1>3, <1>5, <1>6, <1>7, <1>8, <1>9, <1>10, <1>11
  DEF Next, UserStep, DispatchInv

LEMMA ChecksFindTheAddressed ==
    ASSUME DispatchInv, NEW ty \in NTypes, Check(ty)
    PROVE  IF Addressed(ty) = {} THEN poked' = Null ELSE poked' \in Addressed(ty)
<1> DEFINE f == Head(batch).fd
<1>1. Head(batch) \in [fd : Fds, types : SUBSET NTypes]
  BY HeadTailProperties DEF Check, DispatchInv, RegistryInv, TypeOK
<1>2. f \in Fds /\ ref = f /\ f # Null
  BY <1>1, NotifiersAssumption DEF Check, DispatchInv, RefIsCurrent, NTypes
<1>3. poked' = IF ty \in Head(batch).types THEN slot[f][ty] ELSE Null
  BY <1>2 DEF Check, Reported, CurrentSet
<1>4. CASE ty \in Head(batch).types /\ slot[f][ty] # Null
  BY <1>2, <1>3, <1>4 DEF Addressed, DispatchInv, SlotsGranted, RegistryInv, SlotsFit
<1>5. CASE ~(ty \in Head(batch).types /\ slot[f][ty] # Null)
  <2>1. \A n \in granted : n # Null /\ slot[FdOf[n]][TypeOf[n]] = n
    BY NotifiersAssumption DEF DispatchInv, RegistryInv, TypeOK, GrantedStayRegistered
  <2>2. Addressed(ty) = {}
    BY <1>5, <2>1 DEF Addressed
  <2> QED BY <1>3, <1>5, <2>2
<1> QED BY <1>4, <1>5

(* A reported event pokes who is registered for it and nobody else, as     *)
(* long as handlers leave the set that is being dispatched in place (with  *)
(* HandlersDropCurrent the run drop_current shows the contrary).           *)
THEOREM PokesAreRight ==
    ASSUME ReuseFds = FALSE, Duplicates = FALSE, HandlersDropCurrent = FALSE
    PROVE  Spec => PokesTheReported /\ PokesNobodyElse
<1>1. Init => DispatchInv
  BY DEF Init, DispatchInv, RefIsCurrent, SlotsGranted, RegistryInv, TypeOK,
         InterestMatchesSlots, ClosedUnwatched, SlotsFit, OneEach, GrantedStayRegistered,
         Watched, EmptySet
<1>2. DispatchInv /\ [Next]_vars => DispatchInv'
  BY DispatchInductive
<1>3. ASSUME DispatchInv, [Next]_vars, next \in NTypes, next' # next
      PROVE  Check(next)
  <2>1. ~UNCHANGED <<next>> /\ next # "start" /\ next # "done"
    BY <1>3 DEF NTypes
  <2> QED
    BY <1>3, <2>1 DEF Next, UserStep, Construct, Register, Unregister, Destroy, CloseFile,
       OpenFile, Elsewhere, Wait, StartEvent, Check, HandlerReturn, EndOfEvent, vars
<1>4. DispatchInv /\ [Next]_vars => [PokesReported]_vars
  BY <1>3, ChecksFindTheAddressed DEF PokesReported
<1>5. ASSUME DispatchInv, [Next]_vars, poked' \notin {poked, Null}
      PROVE  FdOf[poked'] = Head(batch).fd
  <2>1. PICK ty \in NTypes : Check(ty)
    BY <1>5 DEF Next, UserStep, Construct, Register, Unregister, Destroy, CloseFile, OpenFile,
       Elsewhere, Wait, StartEvent, HandlerReturn, EndOfEvent, vars
  <2>2. poked' \in Addressed(ty)
    BY <1>5, <2>1, ChecksFindTheAddressed
  <2> QED BY <2>2 DEF Addressed
<1> QED BY <1>1, <1>2, <1>4, <1>5, PTL DEF Spec, PokesTheReported, PokesNobodyElse
=============================================================================
