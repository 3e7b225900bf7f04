--------------------------- MODULE EventLoopProofs ---------------------------
(***************************************************************************)
(* Theorems about EventLoop for any number of threads, loops and           *)
(* receivers and any bounds, and about the purge of its queues.            *)
(***************************************************************************)
EXTENDS EventLoop, FiniteSetTheorems, TLAPS

(***************************************************************************)
(* The kept positions are finitely many, at most the length of the deque.  *)
(***************************************************************************)
LEMMA KeptFinite ==
    ASSUME NEW E, NEW q \in Seq(E), NEW r
    PROVE  /\ IsFiniteSet(Kept(q, r))
           /\ Cardinality(Kept(q, r)) \in Nat
           /\ Cardinality(Kept(q, r)) <= Len(q)
<1>1. Kept(q, r) \in SUBSET (1..Len(q))
  BY DEF Kept
<1>2. IsFiniteSet(1..Len(q)) /\ Cardinality(1..Len(q)) = Len(q)
  <2>1. Len(q) \in Nat
    OBVIOUS
  <2>2. IsFiniteSet(1..Len(q))
        /\ Cardinality(1..Len(q)) = IF 1 > Len(q) THEN 0 ELSE Len(q) - 1 + 1
    BY <2>1, FS_Interval
  <2> QED
    BY <2>1, <2>2
<1>3. IsFiniteSet(Kept(q, r)) /\ Cardinality(Kept(q, r)) <= Cardinality(1..Len(q))
  BY <1>1, <1>2, FS_Subset
<1>4. Cardinality(Kept(q, r)) \in Nat
  BY <1>3, FS_CardinalityType
<1> QED
  BY <1>2, <1>3, <1>4

(***************************************************************************)
(* Counting the kept positions up to i: between 1 and their number, more   *)
(* for a later one.                                                        *)
(***************************************************************************)
LEMMA KeptCounts ==
    ASSUME NEW E, NEW q \in Seq(E), NEW r
    PROVE  /\ \A i \in Kept(q, r) :
                 /\ IsFiniteSet(Kept(q, r) \cap (1..i))
                 /\ Cardinality(Kept(q, r) \cap (1..i)) \in 1..Cardinality(Kept(q, r))
           /\ \A i, k \in Kept(q, r) : i < k =>
                 Cardinality(Kept(q, r) \cap (1..i)) < Cardinality(Kept(q, r) \cap (1..k))
<1> DEFINE K == Kept(q, r)
           n == Cardinality(K)
           UpTo(i) == K \cap (1..i)
<1>1. IsFiniteSet(K) /\ n \in Nat
  BY KeptFinite
<1>2. K \subseteq Nat \ {0}
  BY DEF Kept
<1>3. ASSUME NEW i \in K
      PROVE  IsFiniteSet(UpTo(i)) /\ Cardinality(UpTo(i)) \in 1..n
  <2>1. UpTo(i) \in SUBSET K
    OBVIOUS
  <2>2. IsFiniteSet(UpTo(i)) /\ Cardinality(UpTo(i)) <= n
    BY <1>1, <2>1, FS_Subset
  <2>3. Cardinality(UpTo(i)) \in Nat
    BY <2>2, FS_CardinalityType
  <2>4. i \in UpTo(i)
    BY <1>2
  <2>5. Cardinality(UpTo(i)) # 0
    BY <2>2, <2>4, FS_EmptySet
  <2> QED
    BY <2>2, <2>3, <2>5, <1>1
<1>5. ASSUME NEW i \in K, NEW k \in K, i < k
      PROVE  Cardinality(UpTo(i)) < Cardinality(UpTo(k))
  <2>1. UpTo(i) \in SUBSET UpTo(k)
    BY <1>2, <1>5
  <2>2. k \in UpTo(k) /\ k \notin UpTo(i)
    BY <1>2, <1>5
  <2>3. IsFiniteSet(UpTo(k)) /\ Cardinality(UpTo(i)) \in Nat /\ Cardinality(UpTo(k)) \in Nat
    <3>1. /\ IsFiniteSet(UpTo(k))
          /\ Cardinality(UpTo(i)) \in 1..n /\ Cardinality(UpTo(k)) \in 1..n
      BY <1>3
    <3>2. 1..n \subseteq Nat
      BY <1>1
    <3> QED
      BY <3>1, <3>2
  <2>4. /\ Cardinality(UpTo(i)) <= Cardinality(UpTo(k))
        /\ UpTo(i) = UpTo(k) \/ Cardinality(UpTo(i)) # Cardinality(UpTo(k))
    <3>1. IsFiniteSet(UpTo(k))
      BY <2>3
    <3> QED
      BY <2>1, <3>1, FS_Subset
  <2> QED
    BY <2>2, <2>3, <2>4
<1> QED
  BY <1>3, <1>5

(***************************************************************************)
(* There is a j-th kept position for every j up to their number: the count *)
(* is injective, so it reaches every j.                                    *)
(***************************************************************************)
LEMMA NthKeptExists ==
    ASSUME NEW E, NEW q \in Seq(E), NEW r,
           NEW j \in 1..Cardinality(Kept(q, r))
    PROVE  /\ NthKept(q, r, j) \in Kept(q, r)
           /\ Cardinality(Kept(q, r) \cap (1..NthKept(q, r, j))) = j
<1> DEFINE K == Kept(q, r)
           n == Cardinality(K)
           UpTo(i) == K \cap (1..i)
           rank == [i \in K |-> Cardinality(UpTo(i))]
<1>1. IsFiniteSet(K) /\ n \in Nat /\ K \subseteq Nat
  <2>1. K \subseteq 1..Len(q)
    BY DEF Kept
  <2> QED
    BY <2>1, KeptFinite
<1>2. /\ \A i \in K : Cardinality(UpTo(i)) \in 1..n
      /\ \A i, k \in K : i < k => Cardinality(UpTo(i)) < Cardinality(UpTo(k))
  BY KeptCounts
<1>4. rank \in [K -> 1..n]
  BY <1>2
<1>6. \A i, k \in K : rank[i] = rank[k] => i = k
  <2> SUFFICES ASSUME NEW i \in K, NEW k \in K, rank[i] = rank[k], i # k
               PROVE  FALSE
    OBVIOUS
  <2>1. i < k \/ k < i
    BY <1>1
  <2>2. Cardinality(UpTo(i)) \in Nat /\ Cardinality(UpTo(k)) \in Nat
    BY <1>1, <1>2
  <2> QED
    BY <2>1, <2>2, <1>2
<1>7. rank \in Injection(K, 1..n)
  BY <1>4, <1>6 DEF Injection, IsInjective
<1>8. IsFiniteSet(1..n) /\ Cardinality(1..n) = n
  BY <1>1, FS_Interval
<1>9. rank \in Surjection(K, 1..n)
  BY <1>7, <1>8, FS_Injection
<1>10. \E i \in K : Cardinality(UpTo(i)) = j
  BY <1>9 DEF Surjection
<1> QED
  BY <1>10 DEF NthKept

(***************************************************************************)
(* removeAllEventsTargeting returns a deque of the same kind of events,    *)
(* not longer than the old one, in which none has the receiver as its      *)
(* target: exactly the other events, in the order they had.                *)
(***************************************************************************)
THEOREM PurgeCorrect ==
    ASSUME NEW E, NEW q \in Seq(E), NEW r
    PROVE  LET p == RemoveAllEventsTargeting(q, r)
           IN  /\ p \in Seq(E)
               /\ Len(p) \in Nat
               /\ Len(p) <= Len(q)
               /\ \A i \in DOMAIN p :
                     /\ p[i].target # r
                     /\ \E k \in DOMAIN q : p[i] = q[k]
               /\ \E f \in [DOMAIN p -> Kept(q, r)] :
                     /\ \A i \in DOMAIN p : p[i] = q[f[i]]
                     /\ \A i, j \in DOMAIN p : i < j => f[i] < f[j]
                     /\ \A k \in Kept(q, r) : \E i \in DOMAIN p : f[i] = k
<1> DEFINE p == RemoveAllEventsTargeting(q, r)
           n == Cardinality(Kept(q, r))
<1>1. n \in Nat /\ n <= Len(q)
  BY KeptFinite
<1>2. DOMAIN p = 1..n
  BY DEF RemoveAllEventsTargeting
<1>3. ASSUME NEW i \in 1..n
      PROVE  /\ p[i] \in E
             /\ p[i].target # r
             /\ \E k \in DOMAIN q : p[i] = q[k]
  <2>1. NthKept(q, r, i) \in Kept(q, r)
    BY NthKeptExists
  <2>2. p[i] = q[NthKept(q, r, i)]
    BY DEF RemoveAllEventsTargeting
  <2> QED
    BY <2>1, <2>2 DEF Kept
<1>4. p = [i \in 1..n |-> p[i]] /\ p \in Seq(E)
  BY <1>1, <1>2, <1>3 DEF RemoveAllEventsTargeting
<1>5. Len(p) = n
  BY <1>1, <1>2, <1>4
<1>6. \E f \in [1..n -> Kept(q, r)] :
         /\ \A i \in 1..n : p[i] = q[f[i]]
         /\ \A i, j \in 1..n : i < j => f[i] < f[j]
         /\ \A k \in Kept(q, r) : \E i \in 1..n : f[i] = k
  <2> DEFINE f == [i \in 1..n |-> NthKept(q, r, i)]
             rank(k) == Cardinality(Kept(q, r) \cap (1..k))
  <2>1. \A i \in 1..n : f[i] \in Kept(q, r) /\ rank(f[i]) = i
    BY NthKeptExists
  <2>2. /\ \A k \in Kept(q, r) : rank(k) \in 1..n
        /\ \A k, l \in Kept(q, r) : k < l => rank(k) < rank(l)
    BY KeptCounts
  <2>3. Kept(q, r) \subseteq Nat
    BY DEF Kept
  <2>4. f \in [1..n -> Kept(q, r)] /\ \A i \in 1..n : p[i] = q[f[i]]
    BY <2>1 DEF RemoveAllEventsTargeting
  <2> HIDE DEF f, rank
  <2>5. ASSUME NEW k \in Kept(q, r), NEW l \in Kept(q, r)
        PROVE  /\ rank(k) < rank(l) => k < l
               /\ rank(k) = rank(l) => k = l
    <3>1. k \in Nat /\ l \in Nat /\ rank(k) \in Nat /\ rank(l) \in Nat
      BY <1>1, <2>2, <2>3
    <3>2. (k < l => rank(k) < rank(l)) /\ (l < k => rank(l) < rank(k))
      BY <2>2
    <3> QED
      BY <3>1, <3>2
  <2>6. \A i, j \in 1..n : i < j => f[i] < f[j]
    BY <2>1, <2>5
  <2>7. ASSUME NEW k \in Kept(q, r)
        PROVE  \E i \in 1..n : f[i] = k
    <3>1. rank(k) \in 1..n
      BY <2>2
    <3>2. f[rank(k)] \in Kept(q, r) /\ rank(f[rank(k)]) = rank(k)
      BY <2>1, <3>1
    <3> QED
      BY <2>5, <3>1, <3>2
  <2> QED
    BY <2>4, <2>6, <2>7
<1> HIDE DEF p
<1>7. /\ p \in Seq(E) /\ Len(p) \in Nat /\ Len(p) <= Len(q)
      /\ \A i \in DOMAIN p : p[i].target # r /\ \E k \in DOMAIN q : p[i] = q[k]
  BY <1>1, <1>2, <1>3, <1>4, <1>5
<1>8. \E f \in [DOMAIN p -> Kept(q, r)] :
         /\ \A i \in DOMAIN p : p[i] = q[f[i]]
         /\ \A i, j \in DOMAIN p : i < j => f[i] < f[j]
         /\ \A k \in Kept(q, r) : \E i \in DOMAIN p : f[i] = k
  <2>1. PICK f \in [1..n -> Kept(q, r)] :
           /\ \A i \in 1..n : p[i] = q[f[i]]
           /\ \A i, j \in 1..n : i < j => f[i] < f[j]
           /\ \A k \in Kept(q, r) : \E i \in 1..n : f[i] = k
    BY <1>6
  <2>2. /\ f \in [DOMAIN p -> Kept(q, r)]
        /\ \A i \in DOMAIN p : p[i] = q[f[i]]
        /\ \A i, j \in DOMAIN p : i < j => f[i] < f[j]
        /\ \A k \in Kept(q, r) : \E i \in DOMAIN p : f[i] = k
    BY <1>2, <2>1
  <2> QED
    BY <2>2
<1> QED
  BY <1>7, <1>8 DEF p

-----------------------------------------------------------------------------
(***************************************************************************)
(* Control: in its own code a loop's thread owes no wakeUp and is in no    *)
(* destructor; it has taken an event when it is about to deliver one; a    *)
(* round is over before the loop waits; a destroyed loop has no events.    *)
(***************************************************************************)
LibraryPhases ==
    {"looptest", "leaving", "snapshot", "deliver", "waiting"}

PhaseInv ==
    \A l \in Loops :
        /\ pc[l] \in LibraryPhases => Returned(l)
        /\ pc[l] = "popped" => current[l] \in Events
        /\ pc[l] = "waiting" => remaining[l] = 0
        /\ pc[l] = "gone" => queue[l] = <<>>

(***************************************************************************)
(* Why no wakeup is lost.  An edge is given up only when epoll_wait        *)
(* returns, so what arrived after that still has one: the events beyond    *)
(* the snapshot of the round, a quit request not seen by the loop test,    *)
(* an invocation queued since the last evaluation.                         *)
(***************************************************************************)
Woken(l) == kicked[l] \/ Waking(l)

EventsInv ==
    \A l \in Loops :
        pc[l] \in {"deliver", "popped", "handling", "waiting"}
        /\ Len(queue[l]) > remaining[l] => Woken(l)

QuitInv ==
    \A l \in Loops :
        pc[l] \in {"snapshot", "deliver", "popped", "handling", "waiting"}
        /\ mode[l] = "exec" /\ quitRequested[l] => Woken(l)

DeferredInv ==
    \A l \in Loops :
        pc[l] \notin {"dispatching", "evaluating", "gone"}
        /\ deferred[l] > 0 => Woken(l)

WakeInv == TypeOK /\ PhaseInv /\ EventsInv /\ QuitInv /\ DeferredInv

(***************************************************************************)
(* Where the events for a receiver can be, and which thread destroys it.   *)
(***************************************************************************)
EventHomes(r) == IF r = App THEN {Main} ELSE {PostHome[r], DestroyHome[r]}

AtHome(l, e) ==
    /\ l \in EventHomes(e.target)
    /\ e.type = "DeferredDelete" => DestroyHome[e.target] = l

HomeInv ==
    \A l \in Loops :
        /\ \A i \in DOMAIN queue[l] : AtHome(l, queue[l][i])
        /\ current[l] # None => AtHome(l, current[l])

VictimInv ==
    \A t \in Threads :
        /\ stage[t] # "none" =>
             victim[t] \in Objects /\ DestroyHome[victim[t]] = t
        /\ stage[t] = "purgeMain" /\ t \in Loops =>
             \A i \in DOMAIN queue[t] : queue[t][i].target # victim[t]

AppInv == pc[Main] # "gone" => App \in alive

LivingInv == TypeOK /\ PhaseInv /\ HomeInv /\ VictimInv /\ AppInv
             /\ QueuesNameTheLiving
-----------------------------------------------------------------------------
(***************************************************************************)
(* A purge of one loop's queue leaves queues of events, none longer.       *)
(***************************************************************************)
LEMMA PurgedType ==
    ASSUME queue \in [Loops -> Seq(Events)], NEW k \in Loops, NEW r
    PROVE  /\ Purged(k, r) \in [Loops -> Seq(Events)]
           /\ \A l \in Loops : Len(Purged(k, r)[l]) <= Len(queue[l])
           /\ \A l \in Loops : queue[l] = <<>> => Purged(k, r)[l] = <<>>
<1> DEFINE p == RemoveAllEventsTargeting(queue[k], r)
<1>1. p \in Seq(Events) /\ Len(p) \in Nat /\ Len(p) <= Len(queue[k])
  BY PurgeCorrect
<1>2. queue[k] = <<>> => p = <<>>
  BY <1>1
<1> HIDE DEF p
<1>3. Purged(k, r) = [queue EXCEPT ![k] = p]
  BY DEF Purged, p
<1>4. \A l \in Loops : Len(queue[l]) \in Nat
  OBVIOUS
<1> QED
  BY <1>1, <1>2, <1>3, <1>4

\* The program starts with every loop idle and nothing pending.
LEMMA InitType == Init => TypeOK /\ PhaseInv
BY ThreadsAssumption DEF Init, TypeOK, PhaseInv, Phases, Modes, Stages,
   Returned, LibraryPhases

(***************************************************************************)
(* Every step keeps the types and the control invariant.                   *)
(***************************************************************************)
LEMMA TypeStep ==
    ASSUME TypeOK, PhaseInv, [Next]_vars
    PROVE  TypeOK' /\ PhaseInv'
<1> USE ThreadsAssumption, ReceiversAssumption
    DEF TypeOK, PhaseInv, LibraryPhases, Returned
<1>1. ASSUME NEW t \in Threads, NEW l \in Loops, NEW e \in Events,
             InUserCode(t), Enqueue(t, l, e)
      PROVE  TypeOK' /\ PhaseInv'
  BY <1>1 DEF Enqueue, Push, InUserCode, MayUseLoop, LoopOpen
<1>2. ASSUME NEW t \in Threads, UserStep(t)
      PROVE  TypeOK' /\ PhaseInv'
  <2>1. ASSUME NEW r \in Objects, PostEvent(t, r)
        PROVE  TypeOK' /\ PhaseInv'
    BY <2>1, <1>1 DEF PostEvent, Events
  <2>2. ASSUME NEW r \in Objects, DeleteLater(t, r)
        PROVE  TypeOK' /\ PhaseInv'
    BY <2>2, <1>1 DEF DeleteLater, Events
  <2>3. ASSUME NEW r \in Objects, Destroy(t, r)
        PROVE  TypeOK' /\ PhaseInv'
    BY <2>3 DEF Destroy, BeginDestroy, InUserCode, Stages
  <2>4. ASSUME NEW l \in Loops, LoopQuit(t, l)
        PROVE  TypeOK' /\ PhaseInv'
    BY <2>4 DEF LoopQuit, Quit, InUserCode
  <2>5. ASSUME NEW l \in Loops, Defer(t, l)
        PROVE  TypeOK' /\ PhaseInv'
    BY <2>5 DEF Defer, InUserCode
  <2>6. ASSUME AppQuit(t)
        PROVE  TypeOK' /\ PhaseInv'
    BY <2>6, <1>1 DEF AppQuit, Events
  <2> QED
    BY <1>2, <2>1, <2>2, <2>3, <2>4, <2>5, <2>6 DEF UserStep
<1>3. ASSUME NEW t \in Threads, WakeUp(t)
      PROVE  TypeOK' /\ PhaseInv'
  BY <1>3 DEF WakeUp
<1>4. ASSUME NEW t \in Threads, PurgeOwn(t)
      PROVE  TypeOK' /\ PhaseInv'
  <2>1. /\ queue' \in [Loops -> Seq(Events)]
        /\ \A l \in Loops : queue[l] = <<>> => queue'[l] = <<>>
    <3>1. queue' = IF t \in Loops THEN Purged(t, victim[t]) ELSE queue
      BY <1>4 DEF PurgeOwn
    <3>2. CASE t \in Loops
      <4>1. queue' = Purged(t, victim[t])
        BY <3>1, <3>2
      <4> QED
        BY <3>2, <4>1, PurgedType
    <3>3. CASE t \notin Loops
      BY <3>1, <3>3
    <3> QED
      BY <3>2, <3>3
  <2>2. t \in Loops => pc[t] \notin LibraryPhases
    BY <1>4 DEF PurgeOwn
  <2>3. /\ stage' \in [Threads -> Stages]
        /\ victim' \in [Threads -> Objects \cup {None}]
        /\ alive' \in SUBSET Receivers
        /\ \A u \in Threads \ {t} : stage'[u] = stage[u]
    <3>1. CASE t = Main \/ ~LoopOpen(Main)
      <4>1. /\ stage' = [stage EXCEPT ![t] = "none"]
            /\ victim' = [victim EXCEPT ![t] = None]
            /\ alive' = alive \ {victim[t]}
        BY <1>4, <3>1 DEF PurgeOwn
      <4> QED
        BY <4>1 DEF Stages
    <3>2. CASE ~(t = Main \/ ~LoopOpen(Main))
      <4>1. stage' = [stage EXCEPT ![t] = "purgeMain"] /\ victim' = victim /\ alive' = alive
        BY <1>4, <3>2 DEF PurgeOwn
      <4> QED
        BY <4>1 DEF Stages
    <3> QED
      BY <3>1, <3>2
  <2>4. UNCHANGED <<quitRequested, kicked, deferred, pc, mode, remaining,
                    current, toWake>>
    BY <1>4 DEF PurgeOwn
  <2> QED
    BY <2>1, <2>2, <2>3, <2>4
<1>5. ASSUME NEW t \in Threads, PurgeMain(t)
      PROVE  TypeOK' /\ PhaseInv'
  <2>1. /\ queue' \in [Loops -> Seq(Events)]
        /\ \A l \in Loops : queue[l] = <<>> => queue'[l] = <<>>
    BY <1>5, PurgedType DEF PurgeMain
  <2> QED
    BY <1>5, <2>1 DEF PurgeMain, Stages
<1>6. ASSUME NEW l \in Loops, EnterOrLeave(l)
      PROVE  TypeOK' /\ PhaseInv'
  <2>1. ASSUME NEW m \in Modes, NEW phase \in {"looptest", "snapshot"},
               Enter(l, m, phase)
        PROVE  TypeOK' /\ PhaseInv'
    BY <2>1 DEF Enter, Goto, Phases
  <2>2. ASSUME CloseLoop(l)
        PROVE  TypeOK' /\ PhaseInv'
    BY <2>2 DEF CloseLoop, Close, Goto, Phases
  <2> QED
    BY <1>6, <2>1, <2>2 DEF EnterOrLeave, Exec, ProcessEvents, CloseApp, Modes
<1>7. ASSUME NEW l \in Loops, LibraryStep(l)
      PROVE  TypeOK' /\ PhaseInv'
  <2>1. ASSUME LoopTest(l)
        PROVE  TypeOK' /\ PhaseInv'
    BY <2>1 DEF LoopTest, Goto, Phases
  <2>2. ASSUME ExecReturn(l)
        PROVE  TypeOK' /\ PhaseInv'
    BY <2>2 DEF ExecReturn, Goto, Phases
  <2>3. ASSUME Snapshot(l)
        PROVE  TypeOK' /\ PhaseInv'
    BY <2>3 DEF Snapshot, Goto, Phases
  <2>4. ASSUME TakeEvent(l)
        PROVE  TypeOK' /\ PhaseInv'
    BY <2>4 DEF TakeEvent, Goto, Phases, Front, PopFront
  <2>5. ASSUME EndOfRound(l)
        PROVE  TypeOK' /\ PhaseInv'
    BY <2>5 DEF EndOfRound, Goto, Phases
  <2>6. ASSUME NEW edge \in BOOLEAN, StopWaiting(l, edge)
        PROVE  TypeOK' /\ PhaseInv'
    BY <2>6 DEF StopWaiting, Goto, Phases
  <2> QED
    BY <1>7, <2>1, <2>2, <2>3, <2>4, <2>5, <2>6
    DEF LibraryStep, WakeByKick, WakeByTimeout
<1>8. ASSUME NEW l \in Loops, WakeByOther(l)
      PROVE  TypeOK' /\ PhaseInv'
  BY <1>8 DEF WakeByOther, StopWaiting, Goto, Phases
<1>9. ASSUME NEW l \in Loops, UserCodeReturns(l)
      PROVE  TypeOK' /\ PhaseInv'
  <2>1. ASSUME HandlerReturn(l)
        PROVE  TypeOK' /\ PhaseInv'
    BY <2>1 DEF HandlerReturn, Goto, Phases
  <2>2. ASSUME NotifiersReturn(l)
        PROVE  TypeOK' /\ PhaseInv'
    BY <2>2 DEF NotifiersReturn, Goto, Phases
  <2>3. ASSUME EvaluationReturns(l)
        PROVE  TypeOK' /\ PhaseInv'
    <3>1. CASE Close(l)
      BY <2>3, <3>1 DEF EvaluationReturns, Close, Goto, Phases, Modes
    <3>2. ASSUME NEW phase \in {"looptest", "idle"},
                 UNCHANGED <<queue, alive>>, Goto(l, phase)
          PROVE  TypeOK' /\ PhaseInv'
      <4>1. /\ deferred' = [deferred EXCEPT ![l] = 0]
            /\ mode' = [mode EXCEPT ![l] = "exec"]
            /\ Returned(l)
            /\ UNCHANGED <<quitRequested, kicked, remaining, current, toWake,
                           stage, victim>>
        BY <2>3 DEF EvaluationReturns
      <4> QED
        BY <3>2, <4>1 DEF Goto, Phases, Modes
    <3> QED
      BY <2>3, <3>1, <3>2 DEF EvaluationReturns
  <2>4. ASSUME FiltersAccept(l)
        PROVE  TypeOK' /\ PhaseInv'
    BY <2>4 DEF FiltersAccept, Goto, Phases
  <2>5. ASSUME DeliverEvent(l)
        PROVE  TypeOK' /\ PhaseInv'
    <3>1. CASE HandleUser(l)
      BY <2>5, <3>1 DEF DeliverEvent, HandleUser, Goto, Phases
    <3>2. CASE HandleQuit(l)
      BY <2>5, <3>2 DEF DeliverEvent, HandleQuit, Quit, Goto, Phases
    <3>3. CASE HandleDeferredDelete(l)
      <4>1. current[l].target \in Objects
        BY <2>5, <3>3 DEF DeliverEvent, HandleDeferredDelete, Events
      <4> QED
        BY <2>5, <3>3, <4>1
        DEF DeliverEvent, HandleDeferredDelete, BeginDestroy, Goto, Phases, Stages
    <3> QED
      BY <2>5, <3>1, <3>2, <3>3 DEF DeliverEvent
  <2> QED
    BY <1>9, <2>1, <2>2, <2>3, <2>4, <2>5 DEF UserCodeReturns
<1>10. CASE UNCHANGED vars
  BY <1>10 DEF vars
<1> QED
  BY <1>2, <1>3, <1>4, <1>5, <1>6, <1>7, <1>8, <1>9, <1>10 DEF Next

(***************************************************************************)
(* Type correctness of the event loops.                                    *)
(***************************************************************************)
THEOREM TypeCorrect == Spec => []TypeOK
<1>1. Init => TypeOK /\ PhaseInv
  BY InitType
<1>2. TypeOK /\ PhaseInv /\ [Next]_vars => (TypeOK /\ PhaseInv)'
  BY TypeStep
<1> QED
  BY <1>1, <1>2, PTL DEF Spec
-----------------------------------------------------------------------------
(***************************************************************************)
(* A loop that a thread comes to owe a wakeUp is woken, and so is every    *)
(* loop that was: only a return of epoll_wait takes a kick back.           *)
(***************************************************************************)
LEMMA Owing ==
    ASSUME TypeOK, NEW t \in Threads, NEW l \in Loops, toWake[t] = None,
           toWake' = [toWake EXCEPT ![t] = l], kicked' = kicked
    PROVE  Woken(l)' /\ \A k \in Loops : Woken(k) => Woken(k)'
BY ThreadsAssumption DEF Woken, Waking, TypeOK

\* The eventfd write a loop was waiting for does not make it wait again.
LEMMA Kicking ==
    ASSUME TypeOK, NEW t \in Threads, WakeUp(t)
    PROVE  \A k \in Loops : Woken(k) => Woken(k)'
BY DEF Woken, Waking, TypeOK, WakeUp

\* Whether a loop is woken depends on its eventfd and the posters alone.
LEMMA Unmoved ==
    ASSUME UNCHANGED <<kicked, toWake>>
    PROVE  \A k \in Loops : Woken(k)' = Woken(k)
BY DEF Woken, Waking

\* Every step keeps the three reasons why a waiting loop has been woken.
LEMMA WakeStep ==
    ASSUME WakeInv, [Next]_vars
    PROVE  EventsInv' /\ QuitInv' /\ DeferredInv'
<1> DEFINE G == EventsInv' /\ QuitInv' /\ DeferredInv'
<1> USE ThreadsAssumption
    DEF WakeInv, TypeOK, PhaseInv, LibraryPhases, Returned, EventsInv, QuitInv,
        DeferredInv
<1>1. ASSUME NEW t \in Threads, NEW l \in Loops, NEW e \in Events,
             InUserCode(t), Enqueue(t, l, e)
      PROVE  G
  <2>1. Woken(l)' /\ \A k \in Loops : Woken(k) => Woken(k)'
    BY <1>1, Owing DEF InUserCode, Enqueue
  <2>2. \A k \in Loops \ {l} : queue'[k] = queue[k]
    BY <1>1 DEF Enqueue
  <2> QED
    BY <1>1, <2>1, <2>2 DEF Enqueue
<1>2. ASSUME NEW t \in Threads, UserStep(t)
      PROVE  G
  <2>1. ASSUME NEW r \in Objects, PostEvent(t, r)
        PROVE  G
    BY <2>1, <1>1, ReceiversAssumption DEF PostEvent, Events
  <2>2. ASSUME NEW r \in Objects, DeleteLater(t, r)
        PROVE  G
    BY <2>2, <1>1 DEF DeleteLater, Events
  <2>3. ASSUME NEW r \in Objects, Destroy(t, r)
        PROVE  G
    BY <2>3, Unmoved DEF Destroy
  <2>4. ASSUME NEW l \in Loops, LoopQuit(t, l)
        PROVE  G
    <3>1. Woken(l)' /\ \A k \in Loops : Woken(k) => Woken(k)'
      BY <2>4, Owing DEF LoopQuit, Quit, InUserCode
    <3> QED
      BY <2>4, <3>1 DEF LoopQuit, Quit
  <2>5. ASSUME NEW l \in Loops, Defer(t, l)
        PROVE  G
    <3>1. Woken(l)' /\ \A k \in Loops : Woken(k) => Woken(k)'
      BY <2>5, Owing DEF Defer, InUserCode
    <3> QED
      BY <2>5, <3>1 DEF Defer
  <2>6. ASSUME AppQuit(t)
        PROVE  G
    BY <2>6, <1>1 DEF AppQuit, Events
  <2> QED
    BY <1>2, <2>1, <2>2, <2>3, <2>4, <2>5, <2>6 DEF UserStep
<1>3. ASSUME NEW t \in Threads, WakeUp(t)
      PROVE  G
  BY <1>3, Kicking DEF WakeUp
<1>4. ASSUME NEW t \in Threads, PurgeOwn(t)
      PROVE  G
  <2>1. \A l \in Loops : Len(queue'[l]) <= Len(queue[l])
    BY <1>4, PurgedType DEF PurgeOwn
  <2>2. queue' \in [Loops -> Seq(Events)]
    BY <1>4, PurgedType DEF PurgeOwn
  <2>3. \A l \in Loops : Len(queue'[l]) \in Nat /\ Len(queue[l]) \in Nat
    BY <2>2
  <2>4. \A k \in Loops : Woken(k)' = Woken(k)
    BY <1>4, Unmoved DEF PurgeOwn
  <2> QED
    BY <1>4, <2>1, <2>3, <2>4 DEF PurgeOwn
<1>5. ASSUME NEW t \in Threads, PurgeMain(t)
      PROVE  G
  <2>1. \A l \in Loops : Len(queue'[l]) <= Len(queue[l])
    BY <1>5, PurgedType DEF PurgeMain
  <2>2. queue' \in [Loops -> Seq(Events)]
    BY <1>5, PurgedType DEF PurgeMain
  <2>3. \A l \in Loops : Len(queue'[l]) \in Nat /\ Len(queue[l]) \in Nat
    BY <2>2
  <2>4. \A k \in Loops : Woken(k)' = Woken(k)
    BY <1>5, Unmoved DEF PurgeMain
  <2> QED
    BY <1>5, <2>1, <2>3, <2>4 DEF PurgeMain
<1>6. ASSUME NEW l \in Loops, EnterOrLeave(l)
      PROVE  G
  <2>1. ASSUME Enter(l, "exec", "looptest")
        PROVE  G
    BY <2>1, Unmoved DEF Enter, Goto
  <2>2. ASSUME NEW m \in {"once", "final"}, Enter(l, m, "snapshot")
        PROVE  G
    BY <2>2, Unmoved DEF Enter, Goto
  <2>3. ASSUME CloseLoop(l)
        PROVE  G
    BY <2>3, Unmoved DEF CloseLoop, Close, Goto
  <2> QED
    BY <1>6, <2>1, <2>2, <2>3 DEF EnterOrLeave, Exec, ProcessEvents, CloseApp
<1>7. ASSUME NEW l \in Loops, NEW edge \in BOOLEAN, StopWaiting(l, edge)
      PROVE  G
  <2>1. \A k \in Loops \ {l} : Woken(k) => Woken(k)'
    BY <1>7 DEF StopWaiting, Woken, Waking
  <2> QED
    BY <1>7, <2>1 DEF StopWaiting, Goto
<1>8. ASSUME NEW l \in Loops, LibraryStep(l)
      PROVE  G
  <2>1. ASSUME LoopTest(l)
        PROVE  G
    BY <2>1, Unmoved DEF LoopTest, Goto
  <2>2. ASSUME ExecReturn(l)
        PROVE  G
    BY <2>2, Unmoved DEF ExecReturn, Goto
  <2>3. ASSUME Snapshot(l)
        PROVE  G
    BY <2>3, Unmoved DEF Snapshot, Goto
  <2>4. ASSUME TakeEvent(l)
        PROVE  G
    BY <2>4, Unmoved DEF TakeEvent, Goto, PopFront, Front
  <2>5. ASSUME EndOfRound(l)
        PROVE  G
    BY <2>5, Unmoved DEF EndOfRound, Goto
  <2> QED
    BY <1>8, <1>7, <2>1, <2>2, <2>3, <2>4, <2>5
    DEF LibraryStep, WakeByKick, WakeByTimeout
<1>9. ASSUME NEW l \in Loops, WakeByOther(l)
      PROVE  G
  BY <1>9, <1>7 DEF WakeByOther
<1>10. ASSUME NEW l \in Loops, UserCodeReturns(l)
       PROVE  G
  <2>1. ASSUME HandlerReturn(l)
        PROVE  G
    BY <2>1, Unmoved DEF HandlerReturn, Goto
  <2>2. ASSUME NotifiersReturn(l)
        PROVE  G
    BY <2>2, Unmoved DEF NotifiersReturn, Goto
  <2>3. ASSUME EvaluationReturns(l)
        PROVE  G
    <3>1. CASE Close(l)
      BY <2>3, <3>1, Unmoved DEF EvaluationReturns, Close, Goto
    <3>2. ASSUME NEW phase \in {"looptest", "idle"},
                 UNCHANGED <<queue, alive>>, Goto(l, phase)
          PROVE  G
      <4>1. /\ deferred' = [deferred EXCEPT ![l] = 0]
            /\ mode' = [mode EXCEPT ![l] = "exec"]
            /\ UNCHANGED <<quitRequested, kicked, remaining, toWake>>
        BY <2>3 DEF EvaluationReturns
      <4> QED
        BY <3>2, <4>1, Unmoved DEF Goto
    <3> QED
      BY <2>3, <3>1, <3>2 DEF EvaluationReturns
  <2>4. ASSUME FiltersAccept(l)
        PROVE  G
    BY <2>4, Unmoved DEF FiltersAccept, Goto
  <2>5. ASSUME DeliverEvent(l)
        PROVE  G
    <3>1. CASE HandleQuit(l)
      <4>1. Woken(Main)' /\ \A k \in Loops : Woken(k) => Woken(k)'
        BY <2>5, <3>1, Owing DEF DeliverEvent, HandleQuit, Quit
      <4> QED
        BY <2>5, <3>1, <4>1 DEF DeliverEvent, HandleQuit, Quit, Goto
    <3>2. CASE HandleUser(l) \/ HandleDeferredDelete(l)
      <4>1. UNCHANGED <<quitRequested, toWake>>
        BY <3>2 DEF HandleUser, HandleDeferredDelete
      <4> QED
        BY <2>5, <4>1, Unmoved DEF DeliverEvent, Goto
    <3> QED
      BY <2>5, <3>1, <3>2 DEF DeliverEvent
  <2> QED
    BY <1>10, <2>1, <2>2, <2>3, <2>4, <2>5 DEF UserCodeReturns
<1>11. CASE UNCHANGED vars
  BY <1>11, Unmoved DEF vars
<1> QED
  BY <1>2, <1>3, <1>4, <1>5, <1>6, <1>8, <1>9, <1>10, <1>11 DEF Next

(***************************************************************************)
(* A blocked loop with something to do has been kicked or is about to be.  *)
(***************************************************************************)
THEOREM NoWakeupIsLost == Spec => []NoLostWakeup
<1>1. Init => WakeInv
  BY InitType DEF WakeInv, Init, EventsInv, QuitInv, DeferredInv
<1>2. WakeInv /\ [Next]_vars => WakeInv'
  BY TypeStep, WakeStep DEF WakeInv
<1>3. WakeInv => NoLostWakeup
  <2> SUFFICES ASSUME WakeInv, NEW l \in Loops, pc[l] = "waiting",
                      \/ queue[l] # <<>>
                      \/ deferred[l] > 0
                      \/ mode[l] = "exec" /\ quitRequested[l]
               PROVE  Woken(l)
    BY DEF NoLostWakeup, Woken
  <2>1. CASE queue[l] # <<>>
    <3>1. Len(queue[l]) > 0 /\ remaining[l] = 0
      BY <2>1 DEF WakeInv, TypeOK, PhaseInv
    <3> QED
      BY <3>1 DEF WakeInv, EventsInv
  <2>2. CASE deferred[l] > 0
    BY <2>2 DEF WakeInv, DeferredInv
  <2>3. CASE mode[l] = "exec" /\ quitRequested[l]
    BY <2>3 DEF WakeInv, QuitInv
  <2> QED
    BY <2>1, <2>2, <2>3
<1> QED
  BY <1>1, <1>2, <1>3, PTL DEF Spec
-----------------------------------------------------------------------------
(***************************************************************************)
(* A purge of one loop's queue removes the receiver's events from it and   *)
(* brings no event into any queue.                                         *)
(***************************************************************************)
LEMMA PurgedEvents ==
    ASSUME queue \in [Loops -> Seq(Events)], NEW k \in Loops, NEW r
    PROVE  /\ \A i \in DOMAIN Purged(k, r)[k] : Purged(k, r)[k][i].target # r
           /\ \A l \in Loops : \A i \in DOMAIN Purged(k, r)[l] :
                 \E j \in DOMAIN queue[l] : Purged(k, r)[l][i] = queue[l][j]
<1> DEFINE p == RemoveAllEventsTargeting(queue[k], r)
<1>1. \A i \in DOMAIN p : p[i].target # r /\ \E j \in DOMAIN queue[k] : p[i] = queue[k][j]
  BY PurgeCorrect
<1> HIDE DEF p
<1>2. Purged(k, r) = [queue EXCEPT ![k] = p]
  BY DEF Purged, p
<1> QED
  BY <1>1, <1>2

(***************************************************************************)
(* What both kinds of steps that destroy events leave true: queues whose   *)
(* events were there before keep every invariant about their events.       *)
(***************************************************************************)
Shrinks ==
    /\ queue' \in [Loops -> Seq(Events)]
    /\ \A l \in Loops : \A i \in DOMAIN queue'[l] :
          \E j \in DOMAIN queue[l] : queue'[l][i] = queue[l][j]

\* What holds of every event of a queue still holds of a part of it.
LEMMA ShrinkKeeps ==
    ASSUME Shrinks
    PROVE  /\ (\A l \in Loops : \A i \in DOMAIN queue[l] : AtHome(l, queue[l][i]))
              => \A l \in Loops : \A i \in DOMAIN queue'[l] : AtHome(l, queue'[l][i])
           /\ \A l \in Loops, r \in Receivers :
                (\A i \in DOMAIN queue[l] : queue[l][i].target # r)
                => \A i \in DOMAIN queue'[l] : queue'[l][i].target # r
           /\ \A l \in Loops, S \in SUBSET Receivers :
                (\A i \in DOMAIN queue[l] : queue[l][i].target \in S)
                => \A i \in DOMAIN queue'[l] : queue'[l][i].target \in S
BY DEF Shrinks

\* A queue that was purged of a receiver does not name it again by shrinking.
LEMMA ShrinkVictims ==
    ASSUME Shrinks, VictimInv, NEW u \in Threads, stage[u] = "purgeMain", u \in Loops
    PROVE  \A i \in DOMAIN queue'[u] : queue'[u][i].target # victim[u]
<1>1. \A i \in DOMAIN queue[u] : queue[u][i].target # victim[u]
  BY DEF VictimInv
<1> QED
  BY <1>1 DEF Shrinks

\* Posting an event for a receiver that exists, at its home, keeps the
\* invariants of receivers.
LEMMA EnqueueLiving ==
    ASSUME LivingInv, NEW t \in Threads, NEW l \in Loops, NEW e \in Events,
           InUserCode(t), Enqueue(t, l, e), AtHome(l, e), e.target \in alive,
           \A u \in Threads \ {t} : victim[u] # e.target
    PROVE  HomeInv' /\ VictimInv' /\ AppInv' /\ QueuesNameTheLiving'
<1> USE DEF LivingInv, TypeOK
<1>1. queue' = [queue EXCEPT ![l] = Append(@, e)]
      /\ UNCHANGED <<pc, current, stage, victim, alive>>
  BY DEF Enqueue, Push
<1>2. \A k \in Loops \ {l} : queue'[k] = queue[k]
  BY <1>1
<1>3. \A i \in DOMAIN queue'[l] :
         queue'[l][i] = e \/ \E j \in DOMAIN queue[l] : queue'[l][i] = queue[l][j]
  BY <1>1
<1>4. HomeInv'
  BY <1>1, <1>2, <1>3 DEF HomeInv, AtHome
<1>5. \A u \in Threads : stage[u] = "purgeMain" => victim[u] # e.target
  BY DEF InUserCode
<1>6. VictimInv'
  BY <1>1, <1>2, <1>3, <1>5 DEF VictimInv
<1>7. QueuesNameTheLiving'
  BY <1>1, <1>2, <1>3 DEF QueuesNameTheLiving
<1> QED
  BY <1>1, <1>4, <1>6, <1>7 DEF AppInv

(***************************************************************************)
(* The purge of the destroying thread's queue.                             *)
(***************************************************************************)
LEMMA PurgeOwnLiving ==
    ASSUME LivingInv, PurgeReaches, NEW t \in Threads, PurgeOwn(t)
    PROVE  HomeInv' /\ VictimInv' /\ AppInv' /\ QueuesNameTheLiving'
<1> USE ThreadsAssumption DEF LivingInv, TypeOK
<1> DEFINE v == victim[t]
<1>1. v \in Objects /\ DestroyHome[v] = t /\ v # App /\ v \in Receivers
  BY DEF PurgeOwn, VictimInv, Objects
<1>2. Shrinks
  <2>1. queue' = IF t \in Loops THEN Purged(t, v) ELSE queue
    BY DEF PurgeOwn
  <2>2. CASE t \in Loops
    <3>1. queue' = Purged(t, v)
      BY <2>1, <2>2
    <3> QED
      BY <2>2, <3>1, PurgedType, PurgedEvents DEF Shrinks
  <2>3. CASE t \notin Loops
    BY <2>1, <2>3 DEF Shrinks
  <2> QED
    BY <2>2, <2>3
<1>3. t \in Loops => \A i \in DOMAIN queue'[t] : queue'[t][i].target # v
  BY PurgedEvents DEF PurgeOwn
<1>4. UNCHANGED <<pc, current>>
  BY DEF PurgeOwn
<1>5. HomeInv'
  BY <1>2, <1>4, ShrinkKeeps DEF HomeInv, AtHome
<1>6. AppInv'
  BY <1>1, <1>4 DEF AppInv, PurgeOwn
<1>7. \A u \in Threads \ {t} : stage'[u] = stage[u] /\ victim'[u] = victim[u]
  BY DEF PurgeOwn
<1>8. \A u \in Threads \ {t} : stage[u] = "purgeMain" /\ u \in Loops =>
         \A i \in DOMAIN queue'[u] : queue'[u][i].target # victim[u]
  BY <1>2, ShrinkVictims
<1>9. CASE t = Main \/ ~LoopOpen(Main)
  <2>1. /\ stage' = [stage EXCEPT ![t] = "none"]
        /\ alive' = alive \ {v}
    BY <1>9 DEF PurgeOwn
  <2>2. VictimInv'
    BY <2>1, <1>7, <1>8 DEF VictimInv
  <2>3. ASSUME NEW l \in Loops, NEW i \in DOMAIN queue'[l]
        PROVE  queue'[l][i].target # v
    <3>1. CASE l = t
      BY <3>1, <1>3
    <3>2. CASE l # t
      <4>1. SUFFICES ASSUME queue'[l][i].target = v
                     PROVE  FALSE
        OBVIOUS
      <4>2. AtHome(l, queue'[l][i])
        BY <1>5 DEF HomeInv
      <4>3. l = Main
        BY <3>2, <4>1, <4>2, <1>1 DEF AtHome, EventHomes, PurgeReaches
      <4>4. queue[Main] = <<>>
        BY <1>9, <3>2, <4>3 DEF PhaseInv, LoopOpen
      <4> QED
        BY <1>2, <4>3, <4>4 DEF Shrinks
    <3> QED
      BY <3>1, <3>2
  <2>4. QueuesNameTheLiving'
    BY <1>2, <2>1, <2>3, ShrinkKeeps DEF QueuesNameTheLiving
  <2> QED
    BY <1>5, <1>6, <2>2, <2>4
<1>10. CASE ~(t = Main \/ ~LoopOpen(Main))
  <2>1. /\ stage' = [stage EXCEPT ![t] = "purgeMain"]
        /\ UNCHANGED <<victim, alive>>
    BY <1>10 DEF PurgeOwn
  <2>2. VictimInv'
    BY <2>1, <1>1, <1>3, <1>7, <1>8 DEF VictimInv
  <2>3. QueuesNameTheLiving'
    BY <1>2, <2>1, ShrinkKeeps DEF QueuesNameTheLiving
  <2> QED
    BY <1>5, <1>6, <2>2, <2>3
<1> QED
  BY <1>9, <1>10

(***************************************************************************)
(* The purge of the application's queue, after which the receiver is gone. *)
(***************************************************************************)
LEMMA PurgeMainLiving ==
    ASSUME LivingInv, PurgeReaches, NEW t \in Threads, PurgeMain(t)
    PROVE  HomeInv' /\ VictimInv' /\ AppInv' /\ QueuesNameTheLiving'
<1> USE ThreadsAssumption DEF LivingInv, TypeOK
<1> DEFINE v == victim[t]
<1>1. v \in Objects /\ DestroyHome[v] = t /\ v # App /\ v \in Receivers
  BY DEF PurgeMain, VictimInv, Objects
<1>2. Shrinks
  <2>1. queue' = Purged(Main, v) /\ Main \in Loops
    BY DEF PurgeMain
  <2> QED
    BY <2>1, PurgedType, PurgedEvents DEF Shrinks
<1>3. \A i \in DOMAIN queue'[Main] : queue'[Main][i].target # v
  BY PurgedEvents DEF PurgeMain
<1>4. /\ UNCHANGED <<pc, current>>
      /\ stage' = [stage EXCEPT ![t] = "none"]
      /\ alive' = alive \ {v}
      /\ \A u \in Threads \ {t} : victim'[u] = victim[u]
  BY DEF PurgeMain
<1>5. HomeInv'
  BY <1>2, <1>4, ShrinkKeeps DEF HomeInv, AtHome
<1>6. AppInv'
  BY <1>1, <1>4 DEF AppInv
<1>7. \A u \in Threads : stage[u] = "purgeMain" /\ u \in Loops =>
         \A i \in DOMAIN queue'[u] : queue'[u][i].target # victim[u]
  BY <1>2, ShrinkVictims
<1>8. VictimInv'
  BY <1>4, <1>7 DEF VictimInv
<1>9. ASSUME NEW l \in Loops, NEW i \in DOMAIN queue'[l]
      PROVE  queue'[l][i].target # v
  <2>1. CASE l = Main
    BY <2>1, <1>3
  <2>2. CASE l # Main /\ l = t
    BY <2>2, <1>7 DEF PurgeMain
  <2>3. CASE l # Main /\ l # t
    <3>1. AtHome(l, queue'[l][i])
      BY <1>5 DEF HomeInv
    <3> QED
      BY <2>3, <3>1, <1>1 DEF AtHome, EventHomes, PurgeReaches
  <2> QED
    BY <2>1, <2>2, <2>3
<1>10. QueuesNameTheLiving'
  BY <1>2, <1>4, <1>9, ShrinkKeeps DEF QueuesNameTheLiving
<1> QED
  BY <1>5, <1>6, <1>8, <1>10

\* Every step keeps the invariants of receivers and of the events for them.
LEMMA LivingStep ==
    ASSUME LivingInv, PurgeReaches, [Next]_vars
    PROVE  HomeInv' /\ VictimInv' /\ AppInv' /\ QueuesNameTheLiving'
<1> DEFINE G == HomeInv' /\ VictimInv' /\ AppInv' /\ QueuesNameTheLiving'
<1> USE ThreadsAssumption, ReceiversAssumption DEF LivingInv, TypeOK
<1>1. ASSUME NEW t \in Threads, UserStep(t)
      PROVE  G
  <2>1. ASSUME NEW r \in Objects, PostEvent(t, r)
        PROVE  G
    <3> DEFINE e == [target |-> r, type |-> "User"]
    <3>1. e \in Events /\ AtHome(PostHome[r], e) /\ PostHome[r] \in Loops
      BY DEF Events, AtHome, EventHomes, Objects
    <3>2. InUserCode(t) /\ MayUse(t, r) /\ Enqueue(t, PostHome[r], e)
      BY <2>1 DEF PostEvent
    <3> QED
      BY <3>1, <3>2, EnqueueLiving DEF MayUse
  <2>2. ASSUME NEW r \in Objects, DeleteLater(t, r)
        PROVE  G
    <3> DEFINE e == [target |-> r, type |-> "DeferredDelete"]
    <3>1. t \in Loops /\ DestroyHome[r] = t
      BY <2>2 DEF DeleteLater
    <3>2. e \in Events /\ AtHome(t, e)
      BY <3>1 DEF Events, AtHome, EventHomes, Objects
    <3>3. InUserCode(t) /\ MayUse(t, r) /\ Enqueue(t, t, e)
      BY <2>2 DEF DeleteLater
    <3> QED
      BY <3>1, <3>2, <3>3, EnqueueLiving DEF MayUse
  <2>3. ASSUME NEW r \in Objects, Destroy(t, r)
        PROVE  G
    <3>1. /\ stage' = [stage EXCEPT ![t] = "destroyed"]
          /\ victim' = [victim EXCEPT ![t] = r]
          /\ DestroyHome[r] = t
          /\ UNCHANGED <<queue, current, pc, alive>>
      BY <2>3 DEF Destroy, BeginDestroy
    <3> QED
      BY <3>1 DEF HomeInv, VictimInv, AppInv, QueuesNameTheLiving
  <2>4. ASSUME NEW l \in Loops, LoopQuit(t, l) \/ Defer(t, l)
        PROVE  G
    BY <2>4 DEF LoopQuit, Defer, HomeInv, VictimInv, AppInv, QueuesNameTheLiving
  <2>5. ASSUME AppQuit(t)
        PROVE  G
    <3> DEFINE e == [target |-> App, type |-> "Quit"]
    <3>1. e \in Events /\ AtHome(Main, e)
      BY DEF Events, AtHome, EventHomes
    <3>2. InUserCode(t) /\ Enqueue(t, Main, e)
      BY <2>5 DEF AppQuit
    <3>3. App \in alive
      BY <3>2 DEF Enqueue, MayUseLoop, LoopOpen, AppInv
    <3>4. \A u \in Threads : victim[u] # App
      BY DEF Objects
    <3> QED
      BY <3>1, <3>2, <3>3, <3>4, EnqueueLiving
  <2> QED
    BY <1>1, <2>1, <2>2, <2>3, <2>4, <2>5 DEF UserStep
<1>2. ASSUME NEW t \in Threads, WakeUp(t)
      PROVE  G
  BY <1>2 DEF WakeUp, HomeInv, VictimInv, AppInv, QueuesNameTheLiving
<1>3. ASSUME NEW t \in Threads, PurgeOwn(t) \/ PurgeMain(t)
      PROVE  G
  BY <1>3, PurgeOwnLiving, PurgeMainLiving
<1>4. ASSUME NEW l \in Loops, UNCHANGED <<queue, stage, victim, alive>>,
             NEW phase \in Phases \ {"gone"}, Goto(l, phase),
             pc[l] # "gone", current' \in {current, [current EXCEPT ![l] = None]}
      PROVE  G
  <2>1. HomeInv'
    BY <1>4 DEF HomeInv
  <2>2. AppInv'
    BY <1>4 DEF AppInv, Goto
  <2> QED
    BY <1>4, <2>1, <2>2 DEF VictimInv, QueuesNameTheLiving
<1>5. ASSUME NEW l \in Loops, Close(l), UNCHANGED <<current, stage, victim>>
      PROVE  G
  <2>1. /\ queue' = [queue EXCEPT ![l] = <<>>]
        /\ pc' = [pc EXCEPT ![l] = "gone"]
        /\ alive' = IF l = Main THEN alive \ {App} ELSE alive
    BY <1>5 DEF Close, Goto
  <2>2. HomeInv' /\ VictimInv' /\ AppInv'
    BY <1>5, <2>1 DEF HomeInv, VictimInv, AppInv
  <2>3. QueuesNameTheLiving'
    <3> SUFFICES ASSUME NEW k \in Loops, NEW i \in DOMAIN queue'[k]
                 PROVE  queue'[k][i].target \in alive'
      BY DEF QueuesNameTheLiving
    <3>1. k # l /\ queue'[k] = queue[k] /\ i \in DOMAIN queue[k]
      BY <2>1
    <3>2. queue[k][i].target \in alive
      BY <3>1 DEF QueuesNameTheLiving
    <3>3. AtHome(k, queue[k][i])
      BY <3>1 DEF HomeInv
    <3> QED
      BY <2>1, <3>1, <3>2, <3>3 DEF AtHome, EventHomes
  <2> QED
    BY <2>2, <2>3
<1>6. ASSUME NEW l \in Loops, EnterOrLeave(l)
      PROVE  G
  <2>1. CASE CloseLoop(l)
    BY <2>1, <1>5 DEF CloseLoop
  <2>2. ASSUME NEW m, NEW phase \in {"looptest", "snapshot"}, Enter(l, m, phase)
        PROVE  G
    BY <2>2, <1>4 DEF Enter, Phases
  <2> QED
    BY <1>6, <2>1, <2>2 DEF EnterOrLeave, Exec, ProcessEvents, CloseApp
<1>7. ASSUME NEW l \in Loops, LibraryStep(l) \/ WakeByOther(l)
      PROVE  G
  <2>1. CASE LoopTest(l)
    BY <2>1, <1>4 DEF LoopTest, Phases
  <2>2. CASE ExecReturn(l)
    BY <2>2, <1>4 DEF ExecReturn, Phases
  <2>3. CASE Snapshot(l)
    BY <2>3, <1>4 DEF Snapshot, Phases
  <2>4. CASE EndOfRound(l)
    BY <2>4, <1>4 DEF EndOfRound, Phases
  <2>5. CASE TakeEvent(l)
    <3>1. /\ queue[l] # <<>>
          /\ queue' = [queue EXCEPT ![l] = Tail(@)]
          /\ current' = [current EXCEPT ![l] = Head(queue[l])]
          /\ pc' = [pc EXCEPT ![l] = "popped"]
          /\ pc[l] = "deliver"
          /\ UNCHANGED <<stage, victim, alive>>
      BY <2>5 DEF TakeEvent, Goto, Front, PopFront
    <3>2. Shrinks
      <4>1. queue[l] \in Seq(Events) /\ \A k \in Loops \ {l} : queue'[k] = queue[k]
        BY <3>1
      <4>2. /\ Tail(queue[l]) \in Seq(Events)
            /\ \A i \in DOMAIN Tail(queue[l]) :
                  i + 1 \in DOMAIN queue[l] /\ Tail(queue[l])[i] = queue[l][i + 1]
        BY <3>1, <4>1
      <4>3. queue' \in [Loops -> Seq(Events)] /\ queue'[l] = Tail(queue[l])
        BY <3>1, <4>2
      <4>4. ASSUME NEW k \in Loops, NEW i \in DOMAIN queue'[k]
            PROVE  \E j \in DOMAIN queue[k] : queue'[k][i] = queue[k][j]
        <5>1. CASE k = l
          <6>1. i \in DOMAIN Tail(queue[l]) /\ queue'[k][i] = Tail(queue[l])[i]
            BY <4>3, <5>1
          <6> QED
            BY <4>2, <5>1, <6>1
        <5>2. CASE k # l
          BY <4>1, <5>2
        <5> QED
          BY <5>1, <5>2
      <4> QED
        BY <4>3, <4>4 DEF Shrinks
    <3>3. AtHome(l, Head(queue[l]))
      BY <3>1 DEF HomeInv
    <3>4. HomeInv'
      BY <3>1, <3>2, <3>3, ShrinkKeeps DEF HomeInv
    <3>5. VictimInv'
      BY <3>1, <3>2, ShrinkVictims DEF VictimInv
    <3>6. AppInv' /\ QueuesNameTheLiving'
      BY <3>1, <3>2, ShrinkKeeps DEF AppInv, QueuesNameTheLiving
    <3> QED
      BY <3>4, <3>5, <3>6
  <2>6. ASSUME NEW edge, StopWaiting(l, edge)
        PROVE  G
    BY <2>6, <1>4 DEF StopWaiting, Phases
  <2> QED
    BY <1>7, <2>1, <2>2, <2>3, <2>4, <2>5, <2>6
    DEF LibraryStep, WakeByKick, WakeByTimeout, WakeByOther
<1>8. ASSUME NEW l \in Loops, UserCodeReturns(l)
      PROVE  G
  <2>1. CASE HandlerReturn(l)
    BY <2>1, <1>4 DEF HandlerReturn, Phases
  <2>2. CASE NotifiersReturn(l)
    BY <2>2, <1>4 DEF NotifiersReturn, Phases
  <2>3. CASE EvaluationReturns(l)
    <3>1. pc[l] = "evaluating" /\ UNCHANGED <<current, stage, victim>>
      BY <2>3 DEF EvaluationReturns
    <3>2. CASE Close(l)
      BY <3>1, <3>2, <1>5
    <3>3. ASSUME NEW phase \in {"looptest", "idle"},
                 UNCHANGED <<queue, alive>>, Goto(l, phase)
          PROVE  G
      BY <3>1, <3>3, <1>4 DEF Phases
    <3> QED
      BY <2>3, <3>2, <3>3 DEF EvaluationReturns
  <2>4. CASE FiltersAccept(l)
    BY <2>4, <1>4 DEF FiltersAccept, Phases
  <2>5. CASE DeliverEvent(l)
    <3>1. pc[l] = "popped" /\ Goto(l, "handling")
          /\ UNCHANGED <<queue, current, alive>>
      BY <2>5 DEF DeliverEvent
    <3>2. CASE HandleDeferredDelete(l)
      <4>1. /\ stage' = [stage EXCEPT ![l] = "destroyed"]
            /\ victim' = [victim EXCEPT ![l] = current[l].target]
            /\ current[l].type = "DeferredDelete"
        BY <3>2 DEF HandleDeferredDelete, BeginDestroy
      <4>2. current[l] \in Events
        BY <3>1 DEF PhaseInv
      <4>3. current[l].target \in Objects
        BY <4>1, <4>2 DEF Events
      <4>4. DestroyHome[current[l].target] = l
        BY <4>1, <4>2 DEF HomeInv, AtHome
      <4> QED
        BY <3>1, <4>1, <4>3, <4>4
        DEF HomeInv, VictimInv, AppInv, QueuesNameTheLiving, Goto
    <3>3. CASE HandleUser(l) \/ HandleQuit(l)
      <4>1. UNCHANGED <<stage, victim>>
        BY <3>3 DEF HandleUser, HandleQuit
      <4> QED
        BY <3>1, <4>1, <1>4 DEF Phases
    <3> QED
      BY <2>5, <3>2, <3>3 DEF DeliverEvent
  <2> QED
    BY <1>8, <2>1, <2>2, <2>3, <2>4, <2>5 DEF UserCodeReturns
<1>9. CASE UNCHANGED vars
  BY <1>9 DEF vars, HomeInv, VictimInv, AppInv, QueuesNameTheLiving
<1> QED
  BY <1>1, <1>2, <1>3, <1>6, <1>7, <1>8, <1>9 DEF Next

\* The strengthened invariant behind QueuesNameTheLiving, when purges reach.
LEMMA LivingInductive ==
    ASSUME PurgeReaches
    PROVE  Spec => []LivingInv
<1>1. Init => LivingInv
  BY InitType, ReceiversAssumption
  DEF Init, LivingInv, HomeInv, VictimInv, AppInv, QueuesNameTheLiving
<1>2. LivingInv /\ [Next]_vars => LivingInv'
  BY TypeStep, LivingStep DEF LivingInv
<1> QED
  BY <1>1, <1>2, PTL DEF Spec

(***************************************************************************)
(* If a receiver's events are posted to the loop of the thread that        *)
(* destroys it or to the application's, no queue ever names a receiver     *)
(* whose destructor has returned.                                          *)
(***************************************************************************)
THEOREM QueuesAreSafe ==
    ASSUME PurgeReaches
    PROVE  Spec => []QueuesNameTheLiving
<1>1. LivingInv => QueuesNameTheLiving
  BY DEF LivingInv
<1> QED
  BY <1>1, LivingInductive, PTL
-----------------------------------------------------------------------------
(***************************************************************************)
(* While the filters are shown an event its target exists, and is not the  *)
(* receiver that the loop's own thread is destroying, if it is destroying  *)
(* one: a slot of "destroyed" of another receiver may be running.          *)
(***************************************************************************)
PoppedInv ==
    \A l \in Loops :
        pc[l] = "popped" =>
           /\ current[l].target \in alive
           /\ stage[l] # "none" => victim[l] # current[l].target

(***************************************************************************)
(* With every receiver destroyed on the thread its events go to, no other  *)
(* thread can destroy the target of the event a loop has just taken; and   *)
(* with filters that leave it alone, this thread does not either.          *)
(***************************************************************************)
LEMMA PoppedStep ==
    ASSUME LivingInv, ThreadAffine, FiltersSpareTarget, PoppedInv, [Next]_vars
    PROVE  PoppedInv'
<1> USE ThreadsAssumption, ReceiversAssumption DEF LivingInv, TypeOK
<1>1. ASSUME NEW l \in Loops, pc[l] = "popped"
      PROVE  /\ current[l].target \in alive
             /\ l \in EventHomes(current[l].target)
             /\ current[l].target # App => l = DestroyHome[current[l].target]
  <2>1. current[l] \in Events
    BY <1>1 DEF PhaseInv
  <2>2. l \in EventHomes(current[l].target)
    BY <2>1 DEF HomeInv, AtHome
  <2>3. current[l].target # App => current[l].target \in Objects
    BY <2>1 DEF Events
  <2> QED
    BY <1>1, <2>1, <2>2, <2>3 DEF PoppedInv, EventHomes, ThreadAffine
<1>2. ASSUME NEW t \in Threads, PurgeOwn(t) \/ PurgeMain(t)
      PROVE  PoppedInv'
  <2> SUFFICES ASSUME NEW l \in Loops, pc[l] = "popped"
               PROVE  /\ current[l].target \in alive'
                      /\ stage'[l] # "none" => victim'[l] # current[l].target
    BY <1>2 DEF PoppedInv, PurgeOwn, PurgeMain
  <2>1. /\ alive' \in {alive, alive \ {victim[t]}}
        /\ \/ stage' = [stage EXCEPT ![t] = "none"]
           \/ stage' = [stage EXCEPT ![t] = "purgeMain"] /\ victim' = victim
        /\ \A u \in Threads \ {t} : victim'[u] = victim[u]
        /\ stage[t] # "none"
    BY <1>2 DEF PurgeOwn, PurgeMain
  <2>2. victim[t] \in Objects /\ DestroyHome[victim[t]] = t
    BY <2>1 DEF VictimInv
  <2>3. current[l].target # victim[t]
    <3>1. CASE l = t
      BY <2>1, <3>1 DEF PoppedInv
    <3>2. CASE l # t
      BY <1>1, <2>2, <3>2 DEF Objects
    <3> QED
      BY <3>1, <3>2
  <2>4. current[l].target \in alive'
    BY <1>1, <2>1, <2>3
  <2>5. stage'[l] # "none" => stage[l] # "none" /\ victim'[l] = victim[l]
    BY <2>1
  <2> QED
    BY <2>4, <2>5 DEF PoppedInv
<1>3. ASSUME NEW l \in Loops, Close(l), pc[l] # "popped",
             UNCHANGED <<current, stage, victim>>
      PROVE  PoppedInv'
  <2> SUFFICES ASSUME NEW k \in Loops, pc'[k] = "popped"
               PROVE  /\ current[k].target \in alive'
                      /\ stage[k] # "none" => victim[k] # current[k].target
    BY <1>3 DEF PoppedInv
  <2>1. k # l /\ pc[k] = "popped"
    BY <1>3 DEF Close, Goto
  <2>2. current[k].target = App => k = Main
    BY <1>1, <2>1 DEF EventHomes
  <2> QED
    BY <1>1, <1>3, <2>1, <2>2 DEF Close, PoppedInv
<1>4. ASSUME UNCHANGED <<current, alive, stage, victim>>,
             pc' = pc \/ \E l \in Loops, p \in Phases \ {"popped"} : Goto(l, p)
      PROVE  PoppedInv'
  BY <1>4 DEF PoppedInv, Goto
<1>5. ASSUME NEW l \in Loops, NEW p \in Phases \ {"popped"}, Goto(l, p), alive' = alive,
             \A k \in Loops \ {l} : /\ current'[k] = current[k]
                                    /\ stage'[k] = stage[k]
                                    /\ victim'[k] = victim[k]
      PROVE  PoppedInv'
  BY <1>5 DEF PoppedInv, Goto
<1>6. ASSUME NEW t \in Threads, UserStep(t)
      PROVE  PoppedInv'
  <2>1. ASSUME NEW r \in Objects, Destroy(t, r)
        PROVE  PoppedInv'
    <3>1. /\ stage' = [stage EXCEPT ![t] = "destroyed"]
          /\ victim' = [victim EXCEPT ![t] = r]
          /\ UNCHANGED <<pc, current, alive>>
          /\ t \in Loops => ~(pc[t] = "popped" /\ current[t].target = r)
      BY <2>1 DEF Destroy, BeginDestroy
    <3> QED
      BY <3>1 DEF PoppedInv
  <2> QED
    BY <1>6, <1>4, <2>1 DEF UserStep, PostEvent, DeleteLater, Enqueue,
       LoopQuit, Defer, AppQuit
<1>7. ASSUME NEW t \in Threads, WakeUp(t)
      PROVE  PoppedInv'
  BY <1>7, <1>4 DEF WakeUp
<1>8. ASSUME NEW l \in Loops, EnterOrLeave(l)
      PROVE  PoppedInv'
  BY <1>8, <1>3, <1>4
  DEF EnterOrLeave, Exec, ProcessEvents, CloseApp, CloseLoop, Enter, Phases
<1>9. ASSUME NEW l \in Loops, LibraryStep(l) \/ WakeByOther(l)
      PROVE  PoppedInv'
  <2>1. CASE TakeEvent(l)
    <3>1. Head(queue[l]).target \in alive
      BY <2>1 DEF TakeEvent, QueuesNameTheLiving
    <3>2. stage[l] = "none"
      BY <2>1 DEF TakeEvent, PhaseInv, LibraryPhases, Returned
    <3> QED
      BY <2>1, <3>1, <3>2 DEF TakeEvent, Front, Goto, PoppedInv
  <2>2. CASE LoopTest(l) \/ ExecReturn(l) \/ Snapshot(l) \/ EndOfRound(l)
    BY <2>2, <1>4 DEF LoopTest, ExecReturn, Snapshot, EndOfRound, Phases
  <2>3. ASSUME NEW edge, StopWaiting(l, edge)
        PROVE  PoppedInv'
    BY <2>3, <1>4 DEF StopWaiting, Phases
  <2> QED
    BY <1>9, <2>1, <2>2, <2>3
    DEF LibraryStep, WakeByKick, WakeByTimeout, WakeByOther
<1>10. ASSUME NEW l \in Loops, UserCodeReturns(l)
       PROVE  PoppedInv'
  <2>1. CASE HandlerReturn(l)
    BY <2>1, <1>5 DEF HandlerReturn, Phases
  <2>2. CASE NotifiersReturn(l)
    BY <2>2, <1>4 DEF NotifiersReturn, Phases
  <2>3. CASE EvaluationReturns(l)
    BY <2>3, <1>3, <1>4 DEF EvaluationReturns, Phases
  <2>4. CASE FiltersAccept(l)
    BY <2>4, <1>5 DEF FiltersAccept, Phases
  <2>5. CASE DeliverEvent(l)
    <3>1. \A k \in Loops \ {l} : stage'[k] = stage[k] /\ victim'[k] = victim[k]
      BY <2>5 DEF DeliverEvent, HandleUser, HandleQuit, HandleDeferredDelete,
         BeginDestroy
    <3> QED
      BY <2>5, <3>1, <1>5 DEF DeliverEvent, Phases
  <2> QED
    BY <1>10, <2>1, <2>2, <2>3, <2>4, <2>5 DEF UserCodeReturns
<1>11. CASE UNCHANGED vars
  BY <1>11, <1>4 DEF vars
<1> QED
  BY <1>6, <1>7, <1>2, <1>8, <1>9, <1>10, <1>11 DEF Next

(***************************************************************************)
(* Events are only delivered to receivers that exist, if every receiver is *)
(* destroyed by the thread that owns the loop its events are posted to and *)
(* no filter destroys the target it is shown.  Other receivers may be      *)
(* destroyed by the filters, with slots of "destroyed" that post and quit. *)
(***************************************************************************)
THEOREM DeliveryIsSafe ==
    ASSUME ThreadAffine, FiltersSpareTarget
    PROVE  Spec => DeliverToTheLiving
<1>1. PurgeReaches
  BY DEF ThreadAffine, PurgeReaches
<1>2. Spec => []LivingInv
  BY <1>1, LivingInductive
<1>3. Init => PoppedInv
  BY DEF Init, PoppedInv
<1>4. LivingInv /\ PoppedInv /\ [Next]_vars => PoppedInv'
  BY PoppedStep
<1>5. ASSUME PoppedInv
      PROVE  \A l \in Loops :
                pc[l] = "popped" /\ pc'[l] = "handling" => current[l].target \in alive
  BY <1>5 DEF PoppedInv
<1> QED
  BY <1>2, <1>3, <1>4, <1>5, PTL DEF Spec, DeliverToTheLiving
-----------------------------------------------------------------------------
(***************************************************************************)
(* The event loops implement the mailboxes of Mailbox: every step of the   *)
(* program is a step of the mailboxes or changes none of them.             *)
(***************************************************************************)

\* A mailbox is closed when its loop is gone and running when exec is.
LEMMA StateOf ==
    ASSUME NEW l \in Loops
    PROVE  /\ MailboxState[l] \in {"stopped", "running", "closed"}
           /\ MailboxState[l] = "closed" <=> pc[l] = "gone"
           /\ MailboxState[l] = "running" <=> Running(l)
           /\ MailboxState = [k \in Loops |-> MailboxState[k]]
BY DEF MailboxState, Running

(***************************************************************************)
(* A step that changes no queue and touches the control of one open loop.  *)
(***************************************************************************)
LEMMA ControlStep ==
    ASSUME NEW l \in Loops, queue' = queue, pc[l] # "gone", pc'[l] # "gone",
           \A k \in Loops \ {l} :
              pc'[k] = pc[k] /\ mode'[k] = mode[k]
              /\ quitRequested'[k] = quitRequested[k]
    PROVE  Promise!Next
<1>1. \A k \in Loops \ {l} : MailboxState'[k] = MailboxState[k]
  BY DEF MailboxState, Running
<1>2. MailboxState' = [k \in Loops |-> MailboxState'[k]]
  BY DEF MailboxState
<1>3. MailboxState' = [MailboxState EXCEPT ![l] = MailboxState'[l]]
  BY <1>1, <1>2, StateOf
<1>4. MailboxState'[l] \in {"stopped", "running"}
  BY DEF MailboxState
<1>5. Promise!StartOrStop(l)
  BY <1>3, <1>4, StateOf DEF Promise!StartOrStop
<1> QED
  BY <1>5 DEF Promise!Next

(***************************************************************************)
(* A step that leaves the state of every mailbox as it was.                *)
(***************************************************************************)
LEMMA SameState ==
    ASSUME \A k \in Loops : /\ mode'[k] = mode[k]
                            /\ quitRequested'[k] = quitRequested[k]
                            /\ pc'[k] = pc[k]
    PROVE  MailboxState' = MailboxState
BY DEF MailboxState, Running

\* The push of postEvent is a Post of the mailbox.
LEMMA PostStep ==
    ASSUME NEW t \in Threads, NEW l \in Loops, NEW e \in Events, Enqueue(t, l, e)
    PROVE  Promise!Next
<1>1. MailboxState' = MailboxState
  BY SameState DEF Enqueue
<1>2. Promise!Post(l, e)
  BY StateOf DEF Promise!Post, Enqueue, Push, MayUseLoop, LoopOpen
<1> QED
  BY <1>1, <1>2 DEF Promise!Next

\* The destruction of a loop closes its mailbox.
LEMMA CloseStep ==
    ASSUME NEW l \in Loops, Close(l), TypeOK,
           \A k \in Loops \ {l} : mode'[k] = mode[k], UNCHANGED quitRequested
    PROVE  Promise!Next
<1>1. \A k \in Loops \ {l} : MailboxState'[k] = MailboxState[k]
  BY DEF MailboxState, Running, Close, Goto, TypeOK
<1>2. MailboxState' = [k \in Loops |-> MailboxState'[k]]
  BY DEF MailboxState
<1>3. MailboxState'[l] = "closed"
  BY DEF MailboxState, Close, Goto, TypeOK
<1>4. MailboxState' = [MailboxState EXCEPT ![l] = "closed"]
  BY <1>1, <1>2, <1>3, StateOf
<1>5. Promise!Close(l)
  BY <1>4 DEF Promise!Close, Close
<1> QED
  BY <1>5 DEF Promise!Next

\* Every step of the program is a step of the mailboxes or none.
LEMMA MailboxStep ==
    ASSUME LivingInv, [Next]_vars
    PROVE  [Promise!Next]_<<queue, MailboxState>>
<1> DEFINE G == Promise!Next \/ UNCHANGED <<queue, MailboxState>>
<1> USE ThreadsAssumption, ReceiversAssumption DEF LivingInv, TypeOK
<1>1. ASSUME NEW t \in Threads, UserStep(t)
      PROVE  G
  <2>1. ASSUME NEW r \in Objects, PostEvent(t, r)
        PROVE  G
    BY <2>1, PostStep DEF PostEvent, Events
  <2>2. ASSUME NEW r \in Objects, DeleteLater(t, r)
        PROVE  G
    BY <2>2, PostStep DEF DeleteLater, Events
  <2>3. ASSUME AppQuit(t)
        PROVE  G
    BY <2>3, PostStep DEF AppQuit, Events
  <2>4. ASSUME NEW l \in Loops, Defer(t, l)
        PROVE  G
    BY <2>4, SameState DEF Defer
  <2>5. ASSUME NEW l \in Loops, LoopQuit(t, l)
        PROVE  G
    BY <2>5, ControlStep DEF LoopQuit, Quit, MayUseLoop, LoopOpen
  <2>6. ASSUME NEW r \in Objects, Destroy(t, r)
        PROVE  G
    BY <2>6, SameState DEF Destroy
  <2> QED
    BY <1>1, <2>1, <2>2, <2>3, <2>4, <2>5, <2>6 DEF UserStep
<1>2. ASSUME NEW t \in Threads, WakeUp(t)
      PROVE  G
  BY <1>2, SameState DEF WakeUp
<1>3. ASSUME NEW t \in Threads, PurgeOwn(t) \/ PurgeMain(t)
      PROVE  G
  <2>1. MailboxState' = MailboxState
    BY <1>3, SameState DEF PurgeOwn, PurgeMain
  <2>2. victim[t] \in Objects
    BY <1>3 DEF PurgeOwn, PurgeMain, VictimInv
  <2>3. queue' = queue \/ \E l \in Loops : queue' = Purged(l, victim[t])
    BY <1>3 DEF PurgeOwn, PurgeMain
  <2>4. \A l \in Loops : queue' = Purged(l, victim[t]) => Promise!Discard(l, victim[t])
    BY DEF Promise!Discard, Purged
  <2> QED
    BY <2>1, <2>2, <2>3, <2>4 DEF Promise!Next
<1>4. ASSUME NEW l \in Loops, EnterOrLeave(l)
      PROVE  G
  <2>1. CASE CloseLoop(l)
    BY <2>1, CloseStep DEF CloseLoop
  <2>2. ASSUME NEW m, NEW p \in {"looptest", "snapshot"}, Enter(l, m, p)
        PROVE  G
    BY <2>2, ControlStep DEF Enter, Goto
  <2> QED
    BY <1>4, <2>1, <2>2 DEF EnterOrLeave, Exec, ProcessEvents, CloseApp
<1>5. ASSUME NEW l \in Loops, LibraryStep(l) \/ WakeByOther(l)
      PROVE  G
  <2>1. CASE LoopTest(l)
    BY <2>1, ControlStep DEF LoopTest, Goto
  <2>2. CASE ExecReturn(l)
    BY <2>2, ControlStep DEF ExecReturn, Goto
  <2>3. CASE Snapshot(l)
    BY <2>3, ControlStep DEF Snapshot, Goto
  <2>4. CASE EndOfRound(l)
    BY <2>4, ControlStep DEF EndOfRound, Goto
  <2>5. CASE TakeEvent(l)
    <3>1. pc[l] = "deliver" /\ pc' = [pc EXCEPT ![l] = "popped"]
          /\ UNCHANGED <<mode, quitRequested>>
      BY <2>5 DEF TakeEvent, Goto
    <3>2. MailboxState' = MailboxState
      BY <3>1 DEF MailboxState, Running
    <3>3. Promise!Take(l)
      BY <2>5, <3>1, StateOf DEF Promise!Take, TakeEvent, PopFront
    <3> QED
      BY <3>2, <3>3 DEF Promise!Next
  <2>6. ASSUME NEW edge, StopWaiting(l, edge)
        PROVE  G
    BY <2>6, ControlStep DEF StopWaiting, Goto
  <2> QED
    BY <1>5, <2>1, <2>2, <2>3, <2>4, <2>5, <2>6
    DEF LibraryStep, WakeByKick, WakeByTimeout, WakeByOther
<1>6. ASSUME NEW l \in Loops, UserCodeReturns(l)
      PROVE  G
  <2>1. CASE HandlerReturn(l)
    BY <2>1, ControlStep DEF HandlerReturn, Goto
  <2>2. CASE NotifiersReturn(l)
    BY <2>2, ControlStep DEF NotifiersReturn, Goto
  <2>3. CASE EvaluationReturns(l)
    <3>1. /\ pc[l] = "evaluating" /\ UNCHANGED quitRequested
          /\ \A k \in Loops \ {l} : mode'[k] = mode[k]
      BY <2>3 DEF EvaluationReturns
    <3>2. CASE Close(l)
      BY <3>1, <3>2, CloseStep
    <3>3. ASSUME NEW p \in {"looptest", "idle"}, UNCHANGED queue, Goto(l, p)
          PROVE  G
      BY <3>1, <3>3, ControlStep DEF Goto
    <3> QED
      BY <2>3, <3>2, <3>3 DEF EvaluationReturns
  <2>4. CASE FiltersAccept(l)
    BY <2>4, ControlStep DEF FiltersAccept, Goto
  <2>5. CASE DeliverEvent(l)
    <3>1. /\ pc[l] = "popped" /\ pc' = [pc EXCEPT ![l] = "handling"]
          /\ UNCHANGED <<queue, mode>>
      BY <2>5 DEF DeliverEvent, Goto
    <3>2. CASE HandleQuit(l)
      <4>1. current[l] \in Events /\ current[l] # None
        BY <3>1 DEF PhaseInv
      <4>2. l = Main
        BY <3>2, <4>1 DEF HomeInv, AtHome, EventHomes, HandleQuit, Events
      <4> QED
        BY <3>1, <3>2, <4>2, ControlStep DEF HandleQuit, Quit
    <3>3. CASE HandleUser(l) \/ HandleDeferredDelete(l)
      BY <3>1, <3>3, ControlStep DEF HandleUser, HandleDeferredDelete
    <3> QED
      BY <2>5, <3>2, <3>3 DEF DeliverEvent
  <2> QED
    BY <1>6, <2>1, <2>2, <2>3, <2>4, <2>5 DEF UserCodeReturns
<1>7. CASE UNCHANGED vars
  BY <1>7, SameState DEF vars
<1> QED
  BY <1>1, <1>2, <1>3, <1>4, <1>5, <1>6, <1>7 DEF Next

(***************************************************************************)
(* Posted events leave a loop in the order in which they were posted, none *)
(* lost and none twice, but for the events of a destroyed receiver or of a *)
(* destroyed loop.                                                         *)
(***************************************************************************)
THEOREM OrderIsKept ==
    ASSUME PurgeReaches
    PROVE  Spec => KeepsOrder
<1>1. Init => Promise!Init
  BY DEF Init, Promise!Init, MailboxState, Running
<1>2. LivingInv /\ [Next]_vars => [Promise!Next]_<<queue, MailboxState>>
  BY MailboxStep
<1>3. Spec => []LivingInv
  BY LivingInductive
<1> QED
  BY <1>1, <1>2, <1>3, PTL DEF Spec, KeepsOrder, Promise!SafeSpec
=============================================================================
