--------------------------- MODULE LibraryProofs ---------------------------
(***************************************************************************)
(* What the parts of the library that run on one thread keep, for any      *)
(* objects, filters, containers, mappers and bytes, and any order of the   *)
(* program's calls and of the slots that make them.                        *)
(*                                                                         *)
(* First the tree of objects, which agrees with the parent pointers for    *)
(* any slots that add, take and destroy objects in the middle of addChild, *)
(* takeChild and ~Object.                                                  *)
(***************************************************************************)
EXTENDS Library, SequenceTheorems, WellFoundedInduction, TLAPS

(***************************************************************************)
(* Erasing a place keeps the other places, in their order.                 *)
(***************************************************************************)
LEMMA RemoveAtPlaces ==
    ASSUME NEW E, NEW s \in Seq(E), NEW i \in 1..Len(s)
    PROVE  /\ RemoveAt(s, i) \in Seq(E)
           /\ Len(RemoveAt(s, i)) = Len(s) - 1
           /\ \A k \in 1..(Len(s) - 1) :
                 RemoveAt(s, i)[k] = IF k < i THEN s[k] ELSE s[k + 1]
<1> DEFINE a == SubSeq(s, 1, i - 1)
           b == SubSeq(s, i + 1, Len(s))
<1>1. Len(s) \in Nat /\ \A k \in 1..Len(s) : s[k] \in E
  BY LenProperties
<1>2. a \in Seq(E) /\ Len(a) = i - 1 /\ \A k \in 1..(i - 1) : a[k] = s[k]
  BY <1>1, SubSeqProperties
<1>3. b \in Seq(E) /\ Len(b) = Len(s) - i /\ \A k \in 1..(Len(s) - i) : b[k] = s[k + i]
  BY <1>1, SubSeqProperties
<1>4. RemoveAt(s, i) = a \o b
  BY DEF RemoveAt
<1> HIDE DEF a, b
<1>5. Len(a) + Len(b) = Len(s) - 1
  BY <1>1, <1>2, <1>3
<1>6. /\ a \o b \in Seq(E) /\ Len(a \o b) = Len(s) - 1
      /\ \A k \in 1..(Len(s) - 1) : (a \o b)[k] = IF k <= Len(a) THEN a[k] ELSE b[k - Len(a)]
  <2>1. /\ a \o b \in Seq(E) /\ Len(a \o b) = Len(a) + Len(b)
        /\ \A k \in 1..(Len(a) + Len(b)) :
              (a \o b)[k] = IF k <= Len(a) THEN a[k] ELSE b[k - Len(a)]
    BY <1>2, <1>3, ConcatProperties
  <2> QED BY <1>5, <2>1
<1>7. ASSUME NEW k \in 1..(Len(s) - 1)
      PROVE  (a \o b)[k] = IF k < i THEN s[k] ELSE s[k + 1]
  <2>1. CASE k < i
    BY <1>1, <1>2, <1>6, <2>1
  <2>2. CASE ~(k < i)
    <3>1. k - (i - 1) \in 1..(Len(s) - i) /\ k - (i - 1) + i = k + 1 /\ ~(k <= Len(a))
      BY <1>1, <1>2, <2>2
    <3> QED BY <1>1, <1>2, <1>3, <1>6, <2>2, <3>1
  <2> QED BY <2>1, <2>2
<1> QED BY <1>4, <1>6, <1>7

LEMMA FrontPlaces ==
    ASSUME NEW E, NEW s \in Seq(E), s # <<>>
    PROVE  /\ Front(s) \in Seq(E) /\ Len(Front(s)) = Len(s) - 1
           /\ \A k \in 1..(Len(s) - 1) : Front(s)[k] = s[k]
           /\ Last(s) \in E /\ Len(s) \in Nat \ {0}
<1>1. Len(s) \in Nat \ {0} /\ \A k \in 1..Len(s) : s[k] \in E
  BY LenProperties, EmptySeq
<1>2. /\ SubSeq(s, 1, Len(s) - 1) \in Seq(E) /\ Len(SubSeq(s, 1, Len(s) - 1)) = Len(s) - 1
      /\ \A k \in 1..(Len(s) - 1) : SubSeq(s, 1, Len(s) - 1)[k] = s[k]
  <2>1. 1 \in Int /\ Len(s) - 1 \in Int /\ \A k \in 1..(Len(s) - 1) : s[k] \in E
    BY <1>1
  <2>2. /\ SubSeq(s, 1, Len(s) - 1) \in Seq(E)
        /\ Len(SubSeq(s, 1, Len(s) - 1))
              = IF 1 <= Len(s) - 1 THEN Len(s) - 1 - 1 + 1 ELSE 0
        /\ \A k \in 1..(Len(s) - 1 - 1 + 1) : SubSeq(s, 1, Len(s) - 1)[k] = s[1 + k - 1]
    BY <2>1, SubSeqProperties
  <2>3. Len(s) - 1 - 1 + 1 = Len(s) - 1
    BY <1>1
  <2> QED BY <1>1, <2>2, <2>3
<1> QED BY <1>1, <1>2 DEF Front, Last

-----------------------------------------------------------------------------
(***************************************************************************)
(* What a call, a signal and a return do to the stack.                     *)
(***************************************************************************)
Same(k) == stack'[k] = stack[k]

LEMMA Pushed ==
    ASSUME TypeOK, Len(stack) < MaxDepth,
           NEW call \in Calls, NEW signal \in Signals, NEW o \in Objects,
           NEW c \in Objects \cup {None}, NEW i \in Nat, Called(call, signal, o, c, i),
           c = None => call = "~Object"
    PROVE  /\ stack' \in Seq(Frames) /\ Len(stack') <= MaxDepth
           /\ Len(stack) \in Nat /\ Len(stack') = Len(stack) + 1
           /\ \A k \in 1..Len(stack) : Same(k)
           /\ stack'[Len(stack) + 1]
                 = [call |-> call, emits |-> signal, of |-> o, child |-> c, at |-> i]
<1> DEFINE f == [call |-> call, emits |-> signal, of |-> o, child |-> c, at |-> i]
<1>1. f \in Frames /\ stack \in Seq(Frames)
  BY DEF Frames, TypeOK
<1>2. stack' = Append(stack, f)
  BY DEF Called
<1> HIDE DEF f
<1>3. Len(stack) \in Nat
  BY <1>1, LenProperties
<1>4. /\ stack' \in Seq(Frames) /\ Len(stack') = Len(stack) + 1
      /\ \A k \in 1..Len(stack) : Same(k)
      /\ stack'[Len(stack) + 1] = f
  BY <1>1, <1>2, AppendProperties DEF Same
<1> QED BY <1>3, <1>4, ObjectsAssumption DEF f

LEMMA Emitted ==
    ASSUME TypeOK, stack # <<>>, NEW signal \in Signals \cup {None},
           NEW c \in Objects \cup {None}, Emits(signal, c), c = None => Top.call = "~Object"
    PROVE  /\ stack' \in Seq(Frames) /\ Len(stack') <= MaxDepth
           /\ Len(stack) \in Nat \ {0} /\ Len(stack') = Len(stack)
           /\ \A k \in 1..(Len(stack) - 1) : Same(k)
           /\ stack'[Len(stack)] = [Top EXCEPT !.emits = signal, !.child = c]
<1> DEFINE n == Len(stack)
           f == [Top EXCEPT !.emits = signal, !.child = c]
<1>1. n \in Nat \ {0} /\ stack \in Seq(Frames) /\ Top \in Frames
  BY FrontPlaces DEF TypeOK, Top
<1>2. f \in Frames
  BY <1>1 DEF Frames
<1>3. stack' = [stack EXCEPT ![n] = f]
  BY DEF Emits, Top, Last
<1> HIDE DEF n, f
<1>4. /\ [stack EXCEPT ![n] = f] \in Seq(Frames) /\ Len([stack EXCEPT ![n] = f]) = n
      /\ \A k \in 1..n : [stack EXCEPT ![n] = f][k] = IF k = n THEN f ELSE stack[k]
  BY <1>1, <1>2, ExceptSeq DEF n
<1>5. stack'[n] = f /\ \A k \in 1..(n - 1) : Same(k)
  BY <1>1, <1>3, <1>4 DEF Same
<1> QED BY <1>1, <1>3, <1>4, <1>5 DEF n, f, TypeOK

LEMMA Returned ==
    ASSUME TypeOK, stack # <<>>, Returns
    PROVE  /\ stack' \in Seq(Frames) /\ Len(stack') <= MaxDepth
           /\ Len(stack) \in Nat \ {0} /\ Len(stack') = Len(stack) - 1
           /\ \A k \in 1..(Len(stack) - 1) : Same(k)
<1>1. stack \in Seq(Frames) /\ Len(stack) <= MaxDepth /\ stack' = Front(stack)
  BY DEF TypeOK, Returns
<1>2. /\ Front(stack) \in Seq(Frames) /\ Len(Front(stack)) = Len(stack) - 1
      /\ \A k \in 1..(Len(stack) - 1) : Front(stack)[k] = stack[k]
      /\ Len(stack) \in Nat \ {0}
  BY <1>1, FrontPlaces
<1> QED BY <1>1, <1>2, ObjectsAssumption DEF Same

-----------------------------------------------------------------------------
(***************************************************************************)
(* What TreeAgrees rests on.  Only the frame that erases or pops touches   *)
(* the vector it holds a place in, and that place stays as it left it; the *)
(* places that were moved from are those; and a destructor works below a   *)
(* set of objects that nobody beneath it on the stack holds a place in.    *)
(***************************************************************************)
Erasing(f) == f.call = "takeChild" /\ f.emits = "parentChanged"

Popping(f) == f.call = "~Object" /\ f.emits = "childRemoved"

Adding(f) == f.call = "addChild" /\ f.emits = "parentChanged"

Working(f) == HoldsPlace(f) \/ Adding(f)

Places(p) == 1..Len(children[p])

Depths == 1..Len(stack)

HoldsRight(f) ==
    /\ Erasing(f) => f.at \in Places(f.of) /\ children[f.of][f.at] = None
    /\ Popping(f) => Places(f.of) # {} /\ children[f.of][Len(children[f.of])] = f.child

PlacesHeld == \A i \in Depths, f \in Frames : f = stack[i] => HoldsRight(f)

NoneIsHeld ==
    \A p \in Objects : \A k \in Places(p) : children[p][k] = None =>
        \E i \in Depths : Erasing(stack[i]) /\ stack[i].of = p /\ stack[i].at = k

PlacesAlone ==
    \A i, j \in Depths : j < i /\ HoldsPlace(stack[j]) => stack[i].of # stack[j].of

Closed(S) == \A p \in S : ChildrenOf(p) \subseteq S

Undisturbed ==
    \A i \in Depths : stack[i].call = "~Object" =>
        \E S \in SUBSET Objects :
            /\ stack[i].of \in S /\ Closed(S)
            /\ \A j \in 1..(i - 1) : Working(stack[j]) => stack[j].of \notin S

OwnedPlaces ==
    \A p \in Objects : \A i \in Places(p) : children[p][i] # None =>
        /\ children[p][i] \in alive
        /\ parent[children[p][i]] = p
        /\ \A j \in Places(p) : children[p][j] = children[p][i] => i = j

DyingOnce ==
    \A i, j \in Depths :
        stack[i].call = "~Object" /\ stack[j].call = "~Object" /\ stack[i].of = stack[j].of => i = j

DyingUnowned ==
    \A i \in Depths : stack[i].call = "~Object" =>
        \A p \in Objects : stack[i].of \notin ChildrenOf(p)

TreeInv ==
    /\ TypeOK /\ ParentsOwn /\ OwnedPlaces
    /\ PlacesHeld /\ NoneIsHeld /\ PlacesAlone /\ Undisturbed /\ DyingOnce /\ DyingUnowned

(***************************************************************************)
(* The types, spelt out for vectors and for the stack.                     *)
(***************************************************************************)
LEMMA Vectors ==
    ASSUME TypeOK
    PROVE  /\ \A p \in Objects :
                 /\ Len(children[p]) \in Nat /\ DOMAIN children[p] = Places(p)
                 /\ \A k \in Places(p) : children[p][k] \in Objects \cup {None}
           /\ Len(stack) \in Nat /\ DOMAIN stack = Depths
           /\ \A i \in Depths : stack[i] \in Frames
  BY LenProperties DEF TypeOK, Places, Depths

(***************************************************************************)
(* When the children of no other object than p change, the places held in  *)
(* other vectors stay as they are.                                         *)
(***************************************************************************)
LEMMA HeldElsewhere ==
    ASSUME NEW p, \A q \in Objects \ {p} : children'[q] = children[q] /\ Places(q)' = Places(q),
           NEW f \in Frames, f.of # p, HoldsRight(f)
    PROVE  HoldsRight(f)'
<1>1. f.of \in Objects \ {p}
  BY DEF Frames
<1>2. children'[f.of] = children[f.of] /\ Places(f.of)' = Places(f.of)
  BY <1>1
<1>3. Erasing(f)' = Erasing(f) /\ Popping(f)' = Popping(f)
  BY DEF Erasing, Popping
<1> QED BY <1>2, <1>3 DEF HoldsRight

(***************************************************************************)
(* A call that is made on top of the others leaves them as they are.       *)
(***************************************************************************)
LEMMA CallsStay ==
    ASSUME Len(stack) \in Nat, Len(stack') = Len(stack) + 1, \A k \in 1..Len(stack) : Same(k),
           NEW x, NEW p, DestroyedBy(x, p)
    PROVE  DestroyedBy(x, p)'
<1>1. PICK i \in 2..Len(stack) : /\ stack[i].call = "~Object" /\ stack[i].of = x
                                 /\ stack[i - 1].call = "~Object" /\ stack[i - 1].of = p
  BY DEF DestroyedBy
<1>2. i \in 2..Len(stack') /\ Same(i) /\ Same(i - 1)
  OBVIOUS
<1> QED BY <1>1, <1>2 DEF DestroyedBy, Same

LEMMA SignalsStay ==
    ASSUME Len(stack') = Len(stack), Len(stack) \in Nat,
           \A k \in Depths : stack'[k].call = stack[k].call /\ stack'[k].of = stack[k].of,
           NEW x, NEW p, DestroyedBy(x, p)
    PROVE  DestroyedBy(x, p)'
<1>1. PICK i \in 2..Len(stack) : /\ stack[i].call = "~Object" /\ stack[i].of = x
                                 /\ stack[i - 1].call = "~Object" /\ stack[i - 1].of = p
  BY DEF DestroyedBy
<1>2. i \in 2..Len(stack') /\ i \in Depths /\ i - 1 \in Depths
  BY DEF Depths
<1> QED BY <1>1, <1>2 DEF DestroyedBy

(***************************************************************************)
(* A return ends no destruction of x but that of the object on top.        *)
(***************************************************************************)
LEMMA ReturnsStay ==
    ASSUME Len(stack) \in Nat \ {0}, Len(stack') = Len(stack) - 1,
           \A k \in 1..(Len(stack) - 1) : Same(k),
           NEW x, NEW p, DestroyedBy(x, p),
           stack[Len(stack)].call # "~Object" \/ stack[Len(stack)].of # x
    PROVE  DestroyedBy(x, p)'
<1>1. PICK i \in 2..Len(stack) : /\ stack[i].call = "~Object" /\ stack[i].of = x
                                 /\ stack[i - 1].call = "~Object" /\ stack[i - 1].of = p
  BY DEF DestroyedBy
<1>2. i # Len(stack)
  BY <1>1
<1>3. i \in 2..Len(stack') /\ Same(i) /\ Same(i - 1)
  BY <1>2
<1> QED BY <1>1, <1>3 DEF DestroyedBy, Same

LEMMA Children ==
    ASSUME TypeOK, NEW p \in Objects, NEW c \in Objects
    PROVE  c \in ChildrenOf(p) <=> \E k \in Places(p) : children[p][k] = c
  BY Vectors, ObjectsAssumption DEF ChildrenOf, ToSet

LEMMA SubtreeClosed ==
    ASSUME TypeOK, NEW o \in Objects
    PROVE  Subtree(o) \in SUBSET Objects /\ o \in Subtree(o) /\ Closed(Subtree(o))
<1>1. \A p \in Objects : ChildrenOf(p) \subseteq Objects
  BY Vectors DEF ChildrenOf, ToSet
<1> QED BY <1>1 DEF Subtree, Closed

(***************************************************************************)
(* The same for the next state.                                            *)
(***************************************************************************)
LEMMA VectorsNext ==
    ASSUME TypeOK'
    PROVE  /\ \A p \in Objects :
                 /\ Len(children'[p]) \in Nat /\ DOMAIN (children'[p]) = Places(p)'
                 /\ \A k \in Places(p)' : children'[p][k] \in Objects \cup {None}
           /\ Len(stack') \in Nat /\ DOMAIN stack' = Depths'
           /\ \A i \in Depths' : stack'[i] \in Frames
  BY LenProperties DEF TypeOK, Places, Depths

LEMMA ChildrenNext ==
    ASSUME TypeOK', NEW p \in Objects, NEW c \in Objects
    PROVE  c \in ChildrenOf(p)' <=> \E k \in Places(p)' : children'[p][k] = c
  BY VectorsNext, ObjectsAssumption DEF ChildrenOf, ToSet

(***************************************************************************)
(* addChild: the vector of p has one more place.                           *)
(***************************************************************************)
LEMMA AddChildPlaces ==
    ASSUME TypeOK, NEW p \in Objects, NEW c \in Objects,
           children' = [children EXCEPT ![p] = Append(@, c)]
    PROVE  /\ children' \in [Objects -> Seq(Objects \cup {None})]
           /\ \A q \in Objects \ {p} : children'[q] = children[q] /\ Places(q)' = Places(q)
           /\ Places(p)' = Places(p) \cup {Len(children[p]) + 1}
           /\ Len(children[p]) + 1 \notin Places(p)
           /\ \A k \in Places(p) : children'[p][k] = children[p][k]
           /\ children'[p][Len(children[p]) + 1] = c
<1>1. children[p] \in Seq(Objects \cup {None}) /\ children \in [Objects -> Seq(Objects \cup {None})]
  BY DEF TypeOK
<1>2. children'[p] = Append(children[p], c) /\ \A q \in Objects \ {p} : children'[q] = children[q]
  BY <1>1
<1>3. /\ Append(children[p], c) \in Seq(Objects \cup {None})
      /\ Len(Append(children[p], c)) = Len(children[p]) + 1
      /\ \A k \in 1..Len(children[p]) : Append(children[p], c)[k] = children[p][k]
      /\ Append(children[p], c)[Len(children[p]) + 1] = c
  BY <1>1, AppendProperties
<1> QED BY <1>1, <1>2, <1>3, Vectors DEF Places

LEMMA AddChildKeeps ==
    ASSUME TreeInv, NEW p \in Objects, NEW c \in Objects, AddChild(p, c)
    PROVE  /\ TreeInv'
           /\ \A q, x \in Objects : x \in ChildrenOf(q)' <=> x \in ChildrenOf(q) \/ (q = p /\ x = c)
<1> DEFINE n == Len(stack)
           l == Len(children[p]) + 1
           f == [call |-> "addChild", emits |-> "parentChanged", of |-> p, child |-> c, at |-> 0]
<1>1. TypeOK /\ n < MaxDepth /\ p \in alive /\ parent[c] = None /\ c # None
      /\ alive' = alive /\ parent' = [parent EXCEPT ![c] = p] /\ told' = told
      /\ Called("addChild", "parentChanged", p, c, 0)
  BY ObjectsAssumption DEF TreeInv, AddChild, MayCall
<1>2. /\ stack' \in Seq(Frames) /\ Len(stack') <= MaxDepth
      /\ n \in Nat /\ Len(stack') = n + 1
      /\ \A k \in 1..n : stack'[k] = stack[k]
      /\ stack'[n + 1] = f
  BY <1>1, Pushed DEF Calls, Signals, Same
<1>3. /\ children' \in [Objects -> Seq(Objects \cup {None})]
      /\ \A q \in Objects \ {p} : children'[q] = children[q] /\ Places(q)' = Places(q)
      /\ Places(p)' = Places(p) \cup {l} /\ l \notin Places(p)
      /\ \A k \in Places(p) : children'[p][k] = children[p][k]
      /\ children'[p][l] = c
  BY <1>1, AddChildPlaces DEF AddChild
<1> HIDE DEF l
<1>4. TypeOK'
  BY <1>1, <1>2, <1>3 DEF TypeOK
<1>5. /\ ~Busy(c) /\ c \in alive /\ \A q \in Objects : c \notin ChildrenOf(q)
      /\ \A x \in Subtree(c) : ~Busy(x)
  BY <1>1, SubtreeClosed DEF AddChild, Owns
<1>6. /\ \A i \in Depths : stack[i].of # c
      /\ \A i \in Depths : stack[i].of = p => ~HoldsPlace(stack[i])
      /\ \A i \in Depths : stack[i].of \notin Subtree(c)
  BY <1>1, <1>5, Vectors DEF AddChild, Untouched, Busy
<1>7. ASSUME NEW q \in Objects, NEW x \in Objects
      PROVE  x \in ChildrenOf(q)' <=> x \in ChildrenOf(q) \/ (q = p /\ x = c)
  <2>1. x \in ChildrenOf(q)' <=> \E k \in Places(q)' : children'[q][k] = x
    BY <1>4, ChildrenNext
  <2>2. x \in ChildrenOf(q) <=> \E k \in Places(q) : children[q][k] = x
    BY <1>1, Children
  <2>3. CASE q = p
    BY <1>3, <2>1, <2>2, <2>3
  <2>4. CASE q # p
    BY <1>3, <2>1, <2>2, <2>4
  <2> QED BY <2>3, <2>4
<1> HIDE DEF f
<1>f. f.call = "addChild" /\ f.emits = "parentChanged" /\ f.of = p /\ ~HoldsPlace(f) /\ ~Erasing(f)
      /\ ~Popping(f)
  BY DEF f, HoldsPlace, Erasing, Popping
<1>p. ParentsOwn'
  <2> SUFFICES ASSUME NEW x \in alive, NEW q, parent'[x] = q, q # None
               PROVE  q \in alive /\ (x \in ChildrenOf(q)' \/ DestroyedBy(x, q)')
    BY <1>1 DEF ParentsOwn
  <2>0. x \in Objects /\ q \in Objects
    BY <1>1, <1>4 DEF TypeOK
  <2>1. CASE x = c
    BY <1>1, <1>7, <2>0, <2>1 DEF TypeOK
  <2>2. CASE x # c
    <3>1. parent[x] = q
      BY <1>1, <2>0, <2>2 DEF TypeOK
    <3>2. q \in alive /\ (x \in ChildrenOf(q) \/ DestroyedBy(x, q))
      BY <3>1 DEF TreeInv, ParentsOwn
    <3> QED BY <1>2, <1>7, <2>0, <3>2, CallsStay DEF Same
  <2> QED BY <2>1, <2>2
<1>o. OwnedPlaces'
  <2> SUFFICES ASSUME NEW q \in Objects, NEW i \in Places(q)', children'[q][i] # None
               PROVE  /\ children'[q][i] \in alive
                      /\ parent'[children'[q][i]] = q
                      /\ \A j \in Places(q)' : children'[q][j] = children'[q][i] => i = j
    BY <1>1 DEF OwnedPlaces
  <2>1. \A o \in Objects : \A k \in Places(o) : children[o][k] # c
    BY <1>1, <1>5, Children
  <2>2. CASE q # p
    <3>1. children'[q] = children[q] /\ i \in Places(q) /\ Places(q)' = Places(q)
      BY <1>3, <2>2
    <3>2. /\ children[q][i] \in alive /\ parent[children[q][i]] = q /\ children[q][i] # c
          /\ \A j \in Places(q) : children[q][j] = children[q][i] => i = j
      BY <2>1, <3>1 DEF TreeInv, OwnedPlaces
    <3>3. parent'[children[q][i]] = q
      BY <1>1, <3>2 DEF TypeOK
    <3> QED BY <3>1, <3>2, <3>3
  <2>3. CASE q = p /\ i = l
    <3>1. children'[p][i] = c /\ parent'[c] = p
      BY <1>1, <1>3, <2>3 DEF TypeOK
    <3>2. \A j \in Places(p)' : children'[p][j] = c => i = j
      BY <1>3, <2>1, <2>3
    <3> QED BY <1>5, <2>3, <3>1, <3>2
  <2>4. CASE q = p /\ i # l
    <3>1. i \in Places(p) /\ children'[p][i] = children[p][i]
      BY <1>3, <2>4
    <3>2. /\ children[p][i] \in alive /\ parent[children[p][i]] = p /\ children[p][i] # c
          /\ \A j \in Places(p) : children[p][j] = children[p][i] => i = j
      BY <1>1, <2>1, <2>4, <3>1 DEF TreeInv, OwnedPlaces
    <3>3. parent'[children[p][i]] = p
      BY <1>1, <3>2 DEF TypeOK
    <3> QED BY <1>3, <2>4, <3>1, <3>2, <3>3
  <2> QED BY <2>2, <2>3, <2>4
<1>h. PlacesHeld'
  <2> SUFFICES ASSUME NEW i \in 1..(n + 1), NEW g \in Frames, g = stack'[i]
               PROVE  HoldsRight(g)'
    BY <1>2 DEF PlacesHeld, Depths
  <2>1. CASE i = n + 1
    BY <1>2, <1>f, <2>1 DEF HoldsRight, Erasing, Popping
  <2>2. CASE i # n + 1
    <3>1. i \in Depths /\ g = stack[i] /\ HoldsRight(g)
      BY <1>2, <2>2 DEF TreeInv, PlacesHeld, Depths
    <3>2. CASE g.of = p
      BY <1>6, <3>1, <3>2 DEF HoldsPlace, Erasing, Popping, HoldsRight
    <3>3. CASE g.of # p
      BY <1>3, <3>1, <3>3, HeldElsewhere
    <3> QED BY <3>2, <3>3
  <2> QED BY <2>1, <2>2
<1>n. NoneIsHeld'
  <2> SUFFICES ASSUME NEW q \in Objects, NEW k \in Places(q)', children'[q][k] = None
               PROVE  \E i \in 1..n : Erasing(stack[i]) /\ stack[i].of = q /\ stack[i].at = k
    BY <1>2 DEF NoneIsHeld, Depths
  <2>1. k \in Places(q) /\ children[q][k] = None
    BY <1>1, <1>3
  <2> QED BY <2>1 DEF TreeInv, NoneIsHeld, Depths
<1>a. PlacesAlone'
  <2> SUFFICES ASSUME NEW i \in 1..(n + 1), NEW j \in 1..(n + 1), j < i, HoldsPlace(stack'[j])
               PROVE  stack'[i].of # stack'[j].of
    BY <1>2 DEF PlacesAlone, Depths, HoldsPlace
  <2>1. j \in Depths /\ stack'[j] = stack[j]
    BY <1>2 DEF Depths
  <2>2. CASE i = n + 1
    BY <1>2, <1>6, <1>f, <2>1, <2>2 DEF Depths
  <2>3. CASE i # n + 1
    BY <1>2, <2>1, <2>3 DEF TreeInv, PlacesAlone, Depths
  <2> QED BY <2>2, <2>3
<1>u. Undisturbed'
  <2> SUFFICES ASSUME NEW i \in Depths, stack[i].call = "~Object"
               PROVE  \E S \in SUBSET Objects :
                        /\ stack[i].of \in S /\ Closed(S)'
                        /\ \A j \in 1..(i - 1) : Working(stack[j]) => stack[j].of \notin S
    BY <1>2, <1>f DEF Undisturbed, Depths
  <2>1. PICK S \in SUBSET Objects :
           /\ stack[i].of \in S /\ Closed(S)
           /\ \A j \in 1..(i - 1) : Working(stack[j]) => stack[j].of \notin S
    BY DEF TreeInv, Undisturbed
  <2>2. Subtree(c) \in SUBSET Objects /\ c \in Subtree(c) /\ Closed(Subtree(c))
    BY <1>1, SubtreeClosed
  <2>3. PICK T \in SUBSET Objects : T = S \cup Subtree(c)
    BY <2>1, <2>2
  <2>4. Closed(T)'
    <3>1. \A q \in Objects : ChildrenOf(q)' \subseteq Objects
      BY <1>4, VectorsNext DEF ChildrenOf, ToSet
    <3>2. ASSUME NEW q \in T, NEW x \in ChildrenOf(q)'
          PROVE  x \in T
      <4>1. q \in Objects /\ x \in Objects
        BY <2>3, <3>1, <3>2
      <4>2. x \in ChildrenOf(q) \/ x = c
        BY <1>7, <3>2, <4>1
      <4> QED BY <2>1, <2>2, <2>3, <4>2 DEF Closed
    <3> QED BY <3>2 DEF Closed
  <2>5. \A j \in 1..(i - 1) : Working(stack[j]) => stack[j].of \notin T
    BY <1>2, <1>6, <2>1, <2>3 DEF Depths
  <2> QED BY <2>1, <2>3, <2>4, <2>5
<1>d. DyingOnce'
  BY <1>2, <1>f DEF TreeInv, DyingOnce, Depths
<1>w. DyingUnowned'
  BY <1>1, <1>2, <1>6, <1>7, <1>f, Vectors DEF TreeInv, DyingUnowned, Depths, Frames
<1> QED BY <1>4, <1>7, <1>p, <1>o, <1>h, <1>n, <1>a, <1>u, <1>d, <1>w DEF TreeInv

-----------------------------------------------------------------------------
(***************************************************************************)
(* Steps that leave the tree alone and only call, signal or return.        *)
(***************************************************************************)
LEMMA SameTree ==
    ASSUME UNCHANGED children
    PROVE  /\ \A p : ChildrenOf(p)' = ChildrenOf(p) /\ Places(p)' = Places(p)
           /\ \A S : Closed(S)' <=> Closed(S)
           /\ \A f : HoldsRight(f)' <=> HoldsRight(f)
  BY DEF ChildrenOf, Places, Closed, HoldsRight, Erasing, Popping

LEMMA SignalKeeps ==
    ASSUME TreeInv, stack # <<>>, ~Erasing(Top),
           NEW signal \in Signals \cup {None}, NEW c \in Objects \cup {None}, Emits(signal, c),
           c = None => Top.call = "~Object",
           UNCHANGED <<alive, parent, children>>, told' \in [Objects -> SUBSET Objects],
           HoldsRight([Top EXCEPT !.emits = signal, !.child = c]),
           ~Erasing([Top EXCEPT !.emits = signal, !.child = c])
    PROVE  TreeInv'
<1> DEFINE n == Len(stack)
           g == [Top EXCEPT !.emits = signal, !.child = c]
<1>1. TypeOK /\ Top = stack[n] /\ alive' = alive /\ parent' = parent /\ children' = children
  BY DEF TreeInv, Top, Last
<1>2. /\ stack' \in Seq(Frames) /\ Len(stack') <= MaxDepth
      /\ n \in Nat \ {0} /\ Len(stack') = n
      /\ \A k \in 1..(n - 1) : stack'[k] = stack[k]
      /\ stack'[n] = g
  BY <1>1, Emitted DEF Same
<1>3. TypeOK'
  BY <1>1, <1>2 DEF TypeOK
<1>4. /\ \A p : ChildrenOf(p)' = ChildrenOf(p) /\ Places(p)' = Places(p)
      /\ \A S : Closed(S)' <=> Closed(S)
      /\ \A f : HoldsRight(f)' <=> HoldsRight(f)
  BY <1>1, SameTree
<1>5. g.call = Top.call /\ g.of = Top.of /\ g.at = Top.at /\ ~Erasing(g) /\ HoldsRight(g)
  BY <1>1, <1>2, Vectors DEF Depths, Frames
<1> HIDE DEF g
<1>6. \A k \in Depths : stack'[k].call = stack[k].call /\ stack'[k].of = stack[k].of
  BY <1>1, <1>2, <1>5 DEF Depths
<1>7. Depths' = Depths /\ Depths = 1..n
  BY <1>2 DEF Depths
<1>p. ParentsOwn'
  <2> SUFFICES ASSUME NEW x \in alive, NEW q, parent[x] = q, q # None
               PROVE  q \in alive /\ (x \in ChildrenOf(q)' \/ DestroyedBy(x, q)')
    BY <1>1 DEF ParentsOwn
  <2>1. q \in alive /\ (x \in ChildrenOf(q) \/ DestroyedBy(x, q))
    BY DEF TreeInv, ParentsOwn
  <2> QED BY <1>2, <1>4, <1>6, <2>1, SignalsStay
<1>o. OwnedPlaces'
  BY <1>1, <1>4 DEF TreeInv, OwnedPlaces
<1>h. PlacesHeld'
  <2> SUFFICES ASSUME NEW i \in Depths, NEW f \in Frames, f = stack'[i]
               PROVE  HoldsRight(f)
    BY <1>4, <1>7 DEF PlacesHeld
  <2>1. CASE i = n
    BY <1>2, <1>5, <2>1
  <2>2. CASE i # n
    <3>1. f = stack[i]
      BY <1>2, <1>7, <2>2
    <3> QED BY <3>1 DEF TreeInv, PlacesHeld
  <2> QED BY <2>1, <2>2
<1>n. NoneIsHeld'
  <2> SUFFICES ASSUME NEW p \in Objects, NEW k \in Places(p), children[p][k] = None
               PROVE  \E i \in Depths : Erasing(stack'[i]) /\ stack'[i].of = p /\ stack'[i].at = k
    BY <1>1, <1>4, <1>7 DEF NoneIsHeld, Erasing
  <2>1. PICK i \in Depths : Erasing(stack[i]) /\ stack[i].of = p /\ stack[i].at = k
    BY DEF TreeInv, NoneIsHeld
  <2>2. i # n
    BY <1>1, <2>1
  <2> QED BY <1>2, <1>7, <2>1, <2>2
<1>a. PlacesAlone'
  <2> SUFFICES ASSUME NEW i \in Depths, NEW j \in Depths, j < i, HoldsPlace(stack'[j])
               PROVE  stack'[i].of # stack'[j].of
    BY <1>7 DEF PlacesAlone, HoldsPlace
  <2>1. stack'[j] = stack[j]
    BY <1>2, <1>7
  <2> QED BY <1>6, <2>1 DEF TreeInv, PlacesAlone
<1>u. Undisturbed'
  <2> SUFFICES ASSUME NEW i \in Depths, stack[i].call = "~Object"
               PROVE  \E S \in SUBSET Objects :
                        /\ stack[i].of \in S /\ Closed(S)
                        /\ \A j \in 1..(i - 1) : Working(stack'[j]) => stack'[j].of \notin S
    BY <1>4, <1>6, <1>7 DEF Undisturbed, Working, HoldsPlace, Adding
  <2>1. PICK S \in SUBSET Objects :
           /\ stack[i].of \in S /\ Closed(S)
           /\ \A j \in 1..(i - 1) : Working(stack[j]) => stack[j].of \notin S
    BY DEF TreeInv, Undisturbed
  <2>2. \A j \in 1..(i - 1) : stack'[j] = stack[j]
    BY <1>2, <1>7
  <2> QED BY <2>1, <2>2
<1>d. DyingOnce'
  BY <1>6, <1>7 DEF TreeInv, DyingOnce
<1>w. DyingUnowned'
  BY <1>4, <1>6, <1>7 DEF TreeInv, DyingUnowned
<1> QED BY <1>3, <1>p, <1>o, <1>h, <1>n, <1>a, <1>u, <1>d, <1>w DEF TreeInv

LEMMA AddChildGoesOnKeeps ==
    ASSUME TreeInv, AddChildGoesOn
    PROVE  TreeInv'
<1>1. TypeOK /\ stack # <<>> /\ Top \in Frames /\ Top.call = "addChild" /\ Top.emits = "parentChanged"
  BY FrontPlaces DEF TreeInv, TypeOK, AddChildGoesOn, GoesOn, Top
<1>2. PICK g \in Frames : g = [Top EXCEPT !.emits = "childAdded", !.child = Top.child]
  BY <1>1 DEF Frames, Signals
<1>3. ~Erasing(Top) /\ ~Erasing(g) /\ HoldsRight(g)
  BY <1>1, <1>2 DEF Erasing, Popping, HoldsRight, Frames
<1>4. told' \in [Objects -> SUBSET Objects] /\ Top.child \in Objects
  BY <1>1 DEF AddChildGoesOn, Announce, TypeOK, Frames
<1> QED BY <1>1, <1>2, <1>3, <1>4, SignalKeeps DEF AddChildGoesOn, Frames, Signals
LEMMA RemoveLastChildKeeps ==
    ASSUME TreeInv, RemoveLastChild
    PROVE  TreeInv'
<1>1. TypeOK /\ stack # <<>> /\ Top \in Frames /\ Top.call = "~Object" /\ children[Top.of] # <<>>
  BY FrontPlaces DEF TreeInv, TypeOK, RemoveLastChild, GoesOn, Top
<1>2. PICK c : c = Last(children[Top.of])
  OBVIOUS
<1>3. /\ c \in Objects \cup {None} /\ Len(children[Top.of]) \in Nat \ {0}
      /\ c = children[Top.of][Len(children[Top.of])]
  BY <1>1, <1>2, FrontPlaces DEF TypeOK, Frames, Last
<1>4. PICK g \in Frames : g = [Top EXCEPT !.emits = "childRemoved", !.child = c]
  BY <1>1, <1>3 DEF Frames, Signals
<1>e. g.call = "~Object" /\ g.emits = "childRemoved" /\ g.of = Top.of /\ g.child = c
  BY <1>1, <1>4 DEF Frames
<1>p. Len(children[g.of]) \in Places(g.of) /\ children[g.of][Len(children[g.of])] = g.child
  BY <1>3, <1>e DEF Places
<1>5. ~Erasing(Top) /\ ~Erasing(g) /\ HoldsRight(g)
  <2>1. ~Erasing(Top) /\ ~Erasing(g)
    BY <1>1, <1>e DEF Erasing
  <2> QED BY <1>p, <2>1 DEF HoldsRight
<1>6. told' \in [Objects -> SUBSET Objects]
  BY <1>1 DEF RemoveLastChild, Withdraw, TypeOK, Frames
<1> QED BY <1>1, <1>2, <1>3, <1>4, <1>5, <1>6, SignalKeeps DEF RemoveLastChild, Signals

(***************************************************************************)
(* A call returns; ~Object returns when no child is left.                  *)
(***************************************************************************)
LEMMA ReturnKeeps ==
    ASSUME TreeInv, stack # <<>>, ~Erasing(Top), Returns, UNCHANGED <<parent, children, told>>,
           \/ Top.call # "~Object" /\ alive' = alive
           \/ /\ Top.call = "~Object" /\ alive' = alive \ {Top.of}
              /\ children[Top.of] = <<>>
    PROVE  TreeInv'
<1> DEFINE n == Len(stack)
<1>1. TypeOK /\ Top = stack[n] /\ parent' = parent /\ children' = children
  BY DEF TreeInv, Top, Last
<1>2. /\ stack' \in Seq(Frames) /\ Len(stack') <= MaxDepth
      /\ n \in Nat \ {0} /\ Len(stack') = n - 1
      /\ \A k \in 1..(n - 1) : stack'[k] = stack[k]
  BY <1>1, Returned DEF Same
<1>3. TypeOK'
  BY <1>1, <1>2 DEF TypeOK
<1>4. /\ \A p : ChildrenOf(p)' = ChildrenOf(p) /\ Places(p)' = Places(p)
      /\ \A S : Closed(S)' <=> Closed(S)
      /\ \A f : HoldsRight(f)' <=> HoldsRight(f)
  BY <1>1, SameTree
<1>5. Depths' = 1..(n - 1) /\ Depths = 1..n /\ \A k \in Depths' : k \in Depths
  BY <1>2 DEF Depths
<1>6. Top.call = "~Object" => ChildrenOf(Top.of) = {}
  BY DEF ChildrenOf, ToSet
<1>p. ParentsOwn'
  <2> SUFFICES ASSUME NEW x \in alive', NEW q, parent[x] = q, q # None
               PROVE  q \in alive' /\ (x \in ChildrenOf(q)' \/ DestroyedBy(x, q)')
    BY <1>1 DEF ParentsOwn
  <2>1. q \in alive /\ x \in alive /\ (x \in ChildrenOf(q) \/ DestroyedBy(x, q))
    BY DEF TreeInv, ParentsOwn
  <2>2. stack[n].call # "~Object" \/ stack[n].of # x
    BY <1>1
  <2>3. q \in alive'
    <3>1. SUFFICES ASSUME Top.call = "~Object", q = Top.of PROVE FALSE
      BY <2>1
    <3>2. PICK i \in 2..n : stack[i - 1].call = "~Object" /\ stack[i - 1].of = q
      BY <1>6, <2>1, <3>1 DEF DestroyedBy
    <3>3. i - 1 \in Depths /\ n \in Depths /\ i - 1 # n
      BY <1>2, <1>5, <3>2
    <3> QED BY <1>1, <3>1, <3>2, <3>3 DEF TreeInv, DyingOnce
  <2> QED BY <1>2, <1>4, <2>1, <2>2, <2>3, ReturnsStay DEF Same
<1>o. OwnedPlaces'
  <2> SUFFICES ASSUME NEW p \in Objects, NEW i \in Places(p), children[p][i] # None
               PROVE  /\ children[p][i] \in alive'
                      /\ parent[children[p][i]] = p
                      /\ \A j \in Places(p) : children[p][j] = children[p][i] => i = j
    BY <1>1, <1>4 DEF OwnedPlaces
  <2>1. /\ children[p][i] \in alive
        /\ parent[children[p][i]] = p
        /\ \A j \in Places(p) : children[p][j] = children[p][i] => i = j
    BY DEF TreeInv, OwnedPlaces
  <2>2. children[p][i] \in ChildrenOf(p)
    BY <1>1, <2>1, Children DEF TypeOK
  <2>3. Top.call = "~Object" => children[p][i] # Top.of
    BY <1>1, <1>2, <1>5, <2>2 DEF TreeInv, DyingUnowned
  <2> QED BY <2>1, <2>3
<1>h. PlacesHeld'
  BY <1>2, <1>4, <1>5 DEF TreeInv, PlacesHeld
<1>n. NoneIsHeld'
  <2> SUFFICES ASSUME NEW p \in Objects, NEW k \in Places(p), children[p][k] = None
               PROVE  \E i \in 1..(n - 1) :
                         Erasing(stack'[i]) /\ stack'[i].of = p /\ stack'[i].at = k
    BY <1>1, <1>4, <1>5 DEF NoneIsHeld, Erasing
  <2>1. PICK i \in Depths : Erasing(stack[i]) /\ stack[i].of = p /\ stack[i].at = k
    BY DEF TreeInv, NoneIsHeld
  <2>2. i \in 1..(n - 1)
    BY <1>1, <1>2, <1>5, <2>1
  <2> QED BY <1>2, <2>1, <2>2
<1>a. PlacesAlone'
  BY <1>2, <1>5 DEF TreeInv, PlacesAlone, HoldsPlace
<1>u. Undisturbed'
  <2> SUFFICES ASSUME NEW i \in 1..(n - 1), stack'[i].call = "~Object"
               PROVE  \E S \in SUBSET Objects :
                        /\ stack'[i].of \in S /\ Closed(S)'
                        /\ \A j \in 1..(i - 1) : Working(stack'[j]) => stack'[j].of \notin S
    BY <1>5 DEF Undisturbed, Working, HoldsPlace, Adding
  <2>0. stack'[i] = stack[i]
    BY <1>2
  <2>1. PICK S \in SUBSET Objects :
           /\ stack[i].of \in S /\ Closed(S)
           /\ \A j \in 1..(i - 1) : Working(stack[j]) => stack[j].of \notin S
    BY <1>2, <1>5, <2>0 DEF TreeInv, Undisturbed
  <2>2. \A j \in 1..(i - 1) : stack'[j] = stack[j]
    BY <1>2
  <2> QED BY <1>4, <2>0, <2>1, <2>2
<1>d. DyingOnce'
  BY <1>2, <1>5 DEF TreeInv, DyingOnce
<1>w. DyingUnowned'
  BY <1>2, <1>4, <1>5 DEF TreeInv, DyingUnowned
<1> QED BY <1>3, <1>p, <1>o, <1>h, <1>n, <1>a, <1>u, <1>d, <1>w DEF TreeInv

-----------------------------------------------------------------------------
(***************************************************************************)
(* ~Object of an object that the program owns.                             *)
(***************************************************************************)
LEMMA DestroyKeeps ==
    ASSUME TreeInv, NEW o \in Objects, Destroy(o)
    PROVE  TreeInv'
<1> DEFINE n == Len(stack)
           f == [call |-> "~Object", emits |-> "destroyed", of |-> o, child |-> None, at |-> 0]
<1>1. TypeOK /\ n < MaxDepth /\ Owns(o) /\ Called("~Object", "destroyed", o, None, 0)
      /\ alive' = alive /\ parent' = parent /\ children' = children /\ told' = told
  BY DEF TreeInv, Destroy, MayCall
<1>2. /\ stack' \in Seq(Frames) /\ Len(stack') <= MaxDepth
      /\ n \in Nat /\ Len(stack') = n + 1
      /\ \A k \in 1..n : stack'[k] = stack[k]
      /\ stack'[n + 1] = f
  <2>1. None \in Objects \cup {None} /\ 0 \in Nat /\ "~Object" \in Calls /\ "destroyed" \in Signals
    BY DEF Calls, Signals
  <2> QED BY <1>1, <2>1, Pushed DEF Same
<1>3. TypeOK'
  BY <1>1, <1>2 DEF TypeOK
<1>4. /\ \A p : ChildrenOf(p)' = ChildrenOf(p) /\ Places(p)' = Places(p)
      /\ \A S : Closed(S)' <=> Closed(S)
      /\ \A g : HoldsRight(g)' <=> HoldsRight(g)
  BY <1>1, SameTree
<1>5. Depths' = 1..(n + 1) /\ Depths = 1..n
  BY <1>2 DEF Depths
<1>6. Subtree(o) \in SUBSET Objects /\ o \in Subtree(o) /\ Closed(Subtree(o))
  BY <1>1, SubtreeClosed
<1>7. /\ \A q \in Objects : o \notin ChildrenOf(q)
      /\ \A i \in Depths : stack[i].of \notin Subtree(o)
  BY <1>1, Vectors DEF Owns, Busy
<1>f. f.call = "~Object" /\ f.of = o /\ ~Erasing(f) /\ ~Popping(f)
  BY DEF Erasing, Popping
<1> HIDE DEF f
<1>p. ParentsOwn'
  <2> SUFFICES ASSUME NEW x \in alive, NEW q, parent[x] = q, q # None
               PROVE  q \in alive /\ (x \in ChildrenOf(q)' \/ DestroyedBy(x, q)')
    BY <1>1 DEF ParentsOwn
  <2>1. q \in alive /\ (x \in ChildrenOf(q) \/ DestroyedBy(x, q))
    BY DEF TreeInv, ParentsOwn
  <2> QED BY <1>2, <1>4, <2>1, CallsStay DEF Same
<1>o. OwnedPlaces'
  BY <1>1, <1>4 DEF TreeInv, OwnedPlaces
<1>h. PlacesHeld'
  <2> SUFFICES ASSUME NEW i \in 1..(n + 1), NEW g \in Frames, g = stack'[i]
               PROVE  HoldsRight(g)
    BY <1>4, <1>5 DEF PlacesHeld
  <2>1. CASE i = n + 1
    BY <1>2, <1>f, <2>1 DEF HoldsRight
  <2>2. CASE i # n + 1
    BY <1>2, <1>5, <2>2 DEF TreeInv, PlacesHeld
  <2> QED BY <2>1, <2>2
<1>n. NoneIsHeld'
  <2> SUFFICES ASSUME NEW p \in Objects, NEW k \in Places(p), children[p][k] = None
               PROVE  \E i \in 1..(n + 1) :
                         Erasing(stack'[i]) /\ stack'[i].of = p /\ stack'[i].at = k
    BY <1>1, <1>4, <1>5 DEF NoneIsHeld, Erasing
  <2>1. PICK i \in Depths : Erasing(stack[i]) /\ stack[i].of = p /\ stack[i].at = k
    BY DEF TreeInv, NoneIsHeld
  <2> QED BY <1>2, <1>5, <2>1
<1>a. PlacesAlone'
  <2> SUFFICES ASSUME NEW i \in 1..(n + 1), NEW j \in 1..(n + 1), j < i, HoldsPlace(stack'[j])
               PROVE  stack'[i].of # stack'[j].of
    BY <1>5 DEF PlacesAlone, HoldsPlace
  <2>1. j \in Depths /\ stack'[j] = stack[j]
    BY <1>2, <1>5
  <2>2. CASE i = n + 1
    BY <1>2, <1>6, <1>7, <1>f, <2>1, <2>2
  <2>3. CASE i # n + 1
    BY <1>2, <1>5, <2>1, <2>3 DEF TreeInv, PlacesAlone
  <2> QED BY <2>2, <2>3
<1>u. Undisturbed'
  <2> SUFFICES ASSUME NEW i \in 1..(n + 1), stack'[i].call = "~Object"
               PROVE  \E S \in SUBSET Objects :
                        /\ stack'[i].of \in S /\ Closed(S)
                        /\ \A j \in 1..(i - 1) : Working(stack'[j]) => stack'[j].of \notin S
    BY <1>4, <1>5 DEF Undisturbed, Working, HoldsPlace, Adding
  <2>1. \A j \in 1..(i - 1) : j \in Depths /\ stack'[j] = stack[j]
    BY <1>2, <1>5
  <2>2. CASE i = n + 1
    <3>1. PICK S \in SUBSET Objects : S = Subtree(o)
      BY <1>6
    <3> QED BY <1>2, <1>6, <1>7, <1>f, <2>1, <2>2, <3>1
  <2>3. CASE i # n + 1
    <3>1. i \in Depths /\ stack'[i] = stack[i]
      BY <1>2, <1>5, <2>3
    <3>2. PICK S \in SUBSET Objects :
             /\ stack[i].of \in S /\ Closed(S)
             /\ \A j \in 1..(i - 1) : Working(stack[j]) => stack[j].of \notin S
      BY <3>1 DEF TreeInv, Undisturbed
    <3> QED BY <2>1, <3>1, <3>2
  <2> QED BY <2>2, <2>3
<1>d. DyingOnce'
  BY <1>2, <1>5, <1>6, <1>7, <1>f DEF TreeInv, DyingOnce
<1>w. DyingUnowned'
  BY <1>2, <1>4, <1>5, <1>7, <1>f DEF TreeInv, DyingUnowned
<1> QED BY <1>3, <1>p, <1>o, <1>h, <1>n, <1>a, <1>u, <1>d, <1>w DEF TreeInv

-----------------------------------------------------------------------------
(***************************************************************************)
(* takeChild: the place of c is moved from, and the new call holds it.     *)
(***************************************************************************)
LEMMA TakeChildKeeps ==
    ASSUME TreeInv, NEW p \in Objects, NEW c \in Objects, TakeChild(p, c)
    PROVE  /\ TreeInv'
           /\ \A q, x \in Objects :
                 /\ x \in ChildrenOf(q)' => x \in ChildrenOf(q)
                 /\ x \in ChildrenOf(q) /\ x # c => x \in ChildrenOf(q)'
<1> DEFINE n == Len(stack)
<1>1. PICK l \in DOMAIN children[p] :
         /\ children[p][l] = c
         /\ children' = [children EXCEPT ![p][l] = None]
         /\ Called("takeChild", "parentChanged", p, c, l)
  BY DEF TakeChild
<1> DEFINE f == [call |-> "takeChild", emits |-> "parentChanged", of |-> p, child |-> c, at |-> l]
<1>2. /\ TypeOK /\ n < MaxDepth /\ c # None /\ l \in Places(p) /\ l \in Nat
      /\ alive' = alive /\ parent' = [parent EXCEPT ![c] = None] /\ told' = told
  BY <1>1, Vectors, ObjectsAssumption DEF TreeInv, TakeChild, MayCall, Places
<1>3. /\ stack' \in Seq(Frames) /\ Len(stack') <= MaxDepth
      /\ n \in Nat /\ Len(stack') = n + 1
      /\ \A k \in 1..n : stack'[k] = stack[k]
      /\ stack'[n + 1] = f
  <2>1. "takeChild" \in Calls /\ "parentChanged" \in Signals /\ c \in Objects \cup {None}
    BY DEF Calls, Signals
  <2> QED BY <1>1, <1>2, <2>1, Pushed DEF Same
<1>4. /\ children' \in [Objects -> Seq(Objects \cup {None})]
      /\ \A q \in Objects : Places(q)' = Places(q)
      /\ \A q \in Objects \ {p} : children'[q] = children[q]
      /\ children'[p][l] = None
      /\ \A k \in Places(p) : k # l => children'[p][k] = children[p][k]
  <2>1. children[p] \in Seq(Objects \cup {None}) /\ children \in [Objects -> Seq(Objects \cup {None})]
    BY <1>2 DEF TypeOK
  <2>2. /\ children'[p] = [children[p] EXCEPT ![l] = None]
        /\ \A q \in Objects \ {p} : children'[q] = children[q]
    BY <1>1, <2>1
  <2>3. /\ [children[p] EXCEPT ![l] = None] \in Seq(Objects \cup {None})
        /\ Len([children[p] EXCEPT ![l] = None]) = Len(children[p])
        /\ \A k \in 1..Len(children[p]) :
              [children[p] EXCEPT ![l] = None][k] = IF k = l THEN None ELSE children[p][k]
    <3>1. l \in 1..Len(children[p]) /\ None \in Objects \cup {None}
      BY <1>2 DEF Places
    <3> QED BY <2>1, <3>1, ExceptSeq
  <2> QED BY <1>1, <1>2, <2>1, <2>2, <2>3 DEF Places
<1>5. TypeOK'
  BY <1>2, <1>3, <1>4 DEF TypeOK
<1>6. Depths' = 1..(n + 1) /\ Depths = 1..n
  BY <1>3 DEF Depths
<1>7. \A i \in Depths : stack[i].of = p => ~HoldsPlace(stack[i])
  BY <1>2, Vectors DEF TakeChild, Untouched
<1>8. ASSUME NEW q \in Objects, NEW x \in Objects
      PROVE  /\ x \in ChildrenOf(q)' => x \in ChildrenOf(q)
             /\ x \in ChildrenOf(q) /\ x # c => x \in ChildrenOf(q)'
  <2>1. x \in ChildrenOf(q)' <=> \E k \in Places(q)' : children'[q][k] = x
    BY <1>5, ChildrenNext
  <2>2. x \in ChildrenOf(q) <=> \E k \in Places(q) : children[q][k] = x
    BY <1>2, Children
  <2>3. x # None
    BY ObjectsAssumption
  <2>4. CASE q = p
    BY <1>1, <1>4, <2>1, <2>2, <2>3, <2>4
  <2>5. CASE q # p
    BY <1>4, <2>1, <2>2, <2>5
  <2> QED BY <2>4, <2>5
<1>9. \A S \in SUBSET Objects : Closed(S) => Closed(S)'
  <2>1. \A q \in Objects : ChildrenOf(q)' \subseteq Objects
    BY <1>5, VectorsNext DEF ChildrenOf, ToSet
  <2> QED BY <1>8, <2>1 DEF Closed
<1>f. /\ f.call = "takeChild" /\ f.emits = "parentChanged" /\ f.of = p /\ f.at = l
      /\ Erasing(f) /\ ~Popping(f)
  BY DEF Erasing, Popping
<1> HIDE DEF f
<1>p. ParentsOwn'
  <2> SUFFICES ASSUME NEW x \in alive, NEW q, parent'[x] = q, q # None
               PROVE  q \in alive /\ (x \in ChildrenOf(q)' \/ DestroyedBy(x, q)')
    BY <1>2 DEF ParentsOwn
  <2>1. x \in Objects /\ q \in Objects /\ x # c /\ parent[x] = q
    BY <1>2, <1>5 DEF TypeOK
  <2>2. q \in alive /\ (x \in ChildrenOf(q) \/ DestroyedBy(x, q))
    BY <2>1 DEF TreeInv, ParentsOwn
  <2> QED BY <1>3, <1>8, <2>1, <2>2, CallsStay DEF Same
<1>o. OwnedPlaces'
  <2> SUFFICES ASSUME NEW q \in Objects, NEW i \in Places(q)', children'[q][i] # None
               PROVE  /\ children'[q][i] \in alive'
                      /\ parent'[children'[q][i]] = q
                      /\ \A j \in Places(q)' : children'[q][j] = children'[q][i] => i = j
    BY DEF OwnedPlaces
  <2>0. i \in Places(q) /\ Places(q)' = Places(q) /\ alive' = alive
    BY <1>2, <1>4
  <2>1. children'[q][i] = children[q][i] /\ (q = p => i # l)
    BY <1>4, <2>0
  <2>2. /\ children[q][i] \in alive /\ parent[children[q][i]] = q
        /\ \A j \in Places(q) : children[q][j] = children[q][i] => i = j
    BY <2>0, <2>1 DEF TreeInv, OwnedPlaces
  <2>3. parent[c] = p /\ \A j \in Places(p) : children[p][j] = c => l = j
    BY <1>1, <1>2 DEF TreeInv, OwnedPlaces
  <2>4. children[q][i] # c
    BY <2>0, <2>1, <2>2, <2>3
  <2>5. parent'[children[q][i]] = q
    BY <1>2, <2>2, <2>4 DEF TypeOK
  <2>6. \A j \in Places(q) : children'[q][j] = children[q][i] => children[q][j] = children[q][i]
    BY <1>4, <2>1
  <2> QED BY <2>0, <2>1, <2>2, <2>5, <2>6
<1>h. PlacesHeld'
  <2> SUFFICES ASSUME NEW i \in 1..(n + 1), NEW g \in Frames, g = stack'[i]
               PROVE  HoldsRight(g)'
    BY <1>6 DEF PlacesHeld
  <2>1. CASE i = n + 1
    <3>1. g = f
      BY <1>3, <2>1
    <3>2. l \in Places(p)' /\ children'[p][l] = None
      BY <1>2, <1>4
    <3> QED BY <1>f, <3>1, <3>2 DEF HoldsRight, Erasing, Popping
  <2>2. CASE i # n + 1
    <3>1. i \in Depths /\ g = stack[i] /\ HoldsRight(g)
      BY <1>3, <1>6, <2>2 DEF TreeInv, PlacesHeld
    <3>2. CASE g.of = p
      BY <1>7, <3>1, <3>2 DEF HoldsPlace, Erasing, Popping, HoldsRight
    <3>3. CASE g.of # p
      BY <1>4, <3>1, <3>3, HeldElsewhere
    <3> QED BY <3>2, <3>3
  <2> QED BY <2>1, <2>2
<1>n. NoneIsHeld'
  <2> SUFFICES ASSUME NEW q \in Objects, NEW k \in Places(q), children'[q][k] = None
               PROVE  \E i \in 1..(n + 1) :
                         Erasing(stack'[i]) /\ stack'[i].of = q /\ stack'[i].at = k
    BY <1>4, <1>6 DEF NoneIsHeld, Erasing
  <2>1. CASE q = p /\ k = l
    BY <1>3, <1>f, <2>1
  <2>2. CASE ~(q = p /\ k = l)
    <3>1. children[q][k] = None
      BY <1>4, <2>2
    <3>2. PICK i \in Depths : Erasing(stack[i]) /\ stack[i].of = q /\ stack[i].at = k
      BY <3>1 DEF TreeInv, NoneIsHeld
    <3> QED BY <1>3, <1>6, <3>2
  <2> QED BY <2>1, <2>2
<1>a. PlacesAlone'
  <2> SUFFICES ASSUME NEW i \in 1..(n + 1), NEW j \in 1..(n + 1), j < i, HoldsPlace(stack'[j])
               PROVE  stack'[i].of # stack'[j].of
    BY <1>6 DEF PlacesAlone, HoldsPlace
  <2>1. j \in Depths /\ stack'[j] = stack[j]
    BY <1>3, <1>6
  <2>2. CASE i = n + 1
    BY <1>3, <1>7, <1>f, <2>1, <2>2
  <2>3. CASE i # n + 1
    BY <1>3, <1>6, <2>1, <2>3 DEF TreeInv, PlacesAlone
  <2> QED BY <2>2, <2>3
<1>u. Undisturbed'
  <2> SUFFICES ASSUME NEW i \in 1..(n + 1), stack'[i].call = "~Object"
               PROVE  \E S \in SUBSET Objects :
                        /\ stack'[i].of \in S /\ Closed(S)'
                        /\ \A j \in 1..(i - 1) : Working(stack'[j]) => stack'[j].of \notin S
    BY <1>6 DEF Undisturbed, Working, HoldsPlace, Adding
  <2>1. i \in Depths /\ stack'[i] = stack[i] /\ \A j \in 1..(i - 1) : stack'[j] = stack[j]
    BY <1>3, <1>6, <1>f
  <2>2. PICK S \in SUBSET Objects :
           /\ stack[i].of \in S /\ Closed(S)
           /\ \A j \in 1..(i - 1) : Working(stack[j]) => stack[j].of \notin S
    BY <2>1 DEF TreeInv, Undisturbed
  <2> QED BY <1>9, <2>1, <2>2
<1>d. DyingOnce'
  BY <1>3, <1>6, <1>f DEF TreeInv, DyingOnce
<1>w. DyingUnowned'
  <2> SUFFICES ASSUME NEW i \in 1..(n + 1), stack'[i].call = "~Object", NEW q \in Objects
               PROVE  stack'[i].of \notin ChildrenOf(q)'
    BY <1>6 DEF DyingUnowned
  <2>1. i \in Depths /\ stack'[i] = stack[i]
    BY <1>3, <1>6, <1>f
  <2>2. stack[i].of \in Objects /\ stack[i].of \notin ChildrenOf(q)
    BY <1>2, <2>1, Vectors DEF TreeInv, DyingUnowned, Frames
  <2> QED BY <1>8, <2>1, <2>2
<1> QED BY <1>5, <1>8, <1>p, <1>o, <1>h, <1>n, <1>a, <1>u, <1>d, <1>w DEF TreeInv

(***************************************************************************)
(* takeChild goes on: the place it holds is erased, and no other call      *)
(* holds one in the same vector.                                           *)
(***************************************************************************)
LEMMA TakeChildGoesOnKeeps ==
    ASSUME TreeInv, TakeChildGoesOn
    PROVE  TreeInv' /\ \A q, x \in Objects : x \in ChildrenOf(q)' <=> x \in ChildrenOf(q)
<1> DEFINE n == Len(stack)
<1>1. /\ TypeOK /\ stack # <<>> /\ Top = stack[n] /\ n \in Nat \ {0} /\ n \in Depths
      /\ Top \in Frames /\ Erasing(Top) /\ ~Popping(Top)
  BY FrontPlaces DEF TreeInv, TypeOK, TakeChildGoesOn, GoesOn, Top, Last, Depths, Erasing, Popping
<1>2. PICK p, l, c : p = Top.of /\ l = Top.at /\ c = Top.child
  OBVIOUS
<1>3. p \in Objects /\ l \in Places(p) /\ children[p][l] = None /\ c \in Objects
  <2>1. HoldsRight(Top)
    BY <1>1 DEF TreeInv, PlacesHeld
  <2> QED BY <1>1, <1>2, <2>1 DEF HoldsRight, Erasing, Frames
<1>4. /\ alive' = alive /\ parent' = parent
      /\ children' = [children EXCEPT ![p] = RemoveAt(@, l)]
      /\ told' \in [Objects -> SUBSET Objects] /\ Emits("childRemoved", c)
  BY <1>1, <1>2, <1>3 DEF TakeChildGoesOn, Withdraw, TypeOK
<1>5. PICK g : g = [Top EXCEPT !.emits = "childRemoved", !.child = c]
  OBVIOUS
<1>6. /\ stack' \in Seq(Frames) /\ Len(stack') <= MaxDepth /\ Len(stack') = n
      /\ \A k \in 1..(n - 1) : stack'[k] = stack[k]
      /\ stack'[n] = g
  <2>1. "childRemoved" \in Signals \cup {None} /\ c \in Objects \cup {None} /\ c # None
    BY <1>3, ObjectsAssumption DEF Signals
  <2> QED BY <1>1, <1>4, <1>5, <2>1, Emitted DEF Same
<1>7. /\ g.call = Top.call /\ g.of = p /\ ~Erasing(g) /\ ~Popping(g) /\ ~HoldsPlace(g)
      /\ Top.call = "takeChild"
  BY <1>1, <1>2, <1>5 DEF Frames, Erasing, Popping, HoldsPlace
<1>8. Depths' = 1..n /\ Depths = 1..n
      /\ \A k \in Depths : stack'[k].call = stack[k].call /\ stack'[k].of = stack[k].of
  BY <1>1, <1>2, <1>6, <1>7 DEF Depths
<1> DEFINE m == Len(children[p])
           old(k) == IF k < l THEN k ELSE k + 1
<1>9. /\ children' \in [Objects -> Seq(Objects \cup {None})]
      /\ \A q \in Objects \ {p} : children'[q] = children[q] /\ Places(q)' = Places(q)
      /\ Places(p)' = 1..(m - 1) /\ m \in Nat /\ l \in 1..m
      /\ \A k \in 1..(m - 1) : children'[p][k] = children[p][old(k)]
  <2>1. /\ children[p] \in Seq(Objects \cup {None}) /\ l \in 1..Len(children[p])
        /\ children \in [Objects -> Seq(Objects \cup {None})] /\ Len(children[p]) \in Nat
    BY <1>1, <1>3, LenProperties DEF TypeOK, Places
  <2>2. /\ RemoveAt(children[p], l) \in Seq(Objects \cup {None})
        /\ Len(RemoveAt(children[p], l)) = Len(children[p]) - 1
        /\ \A k \in 1..(Len(children[p]) - 1) :
               RemoveAt(children[p], l)[k] = IF k < l THEN children[p][k] ELSE children[p][k + 1]
    BY <2>1, RemoveAtPlaces
  <2>3. children'[p] = RemoveAt(children[p], l) /\ \A q \in Objects \ {p} : children'[q] = children[q]
    BY <1>3, <1>4, <2>1
  <2> QED BY <1>3, <1>4, <2>1, <2>2, <2>3 DEF Places
<1>10. /\ \A k \in 1..(m - 1) : old(k) \in Places(p) /\ old(k) # l
       /\ \A k \in Places(p) : k # l => \E j \in 1..(m - 1) : old(j) = k
       /\ \A j, k \in 1..(m - 1) : old(j) = old(k) => j = k
  <2>1. \A k \in 1..(m - 1) : old(k) \in 1..m /\ old(k) # l
    BY <1>9
  <2>2. ASSUME NEW k \in 1..m, k # l PROVE \E j \in 1..(m - 1) : old(j) = k
    <3>1. CASE k < l
      <4>1. k \in 1..(m - 1) /\ old(k) = k
        BY <1>9, <3>1
      <4> QED BY <4>1
    <3>2. CASE ~(k < l)
      <4>1. k - 1 \in 1..(m - 1) /\ old(k - 1) = k
        BY <1>9, <2>2, <3>2
      <4> QED BY <4>1
    <3> QED BY <3>1, <3>2
  <2>3. \A j, k \in 1..(m - 1) : old(j) = old(k) => j = k
    BY <1>9
  <2> QED BY <2>1, <2>2, <2>3 DEF Places
<1> HIDE DEF old, m
<1>11. TypeOK'
  BY <1>1, <1>4, <1>6, <1>9 DEF TypeOK
<1>12. \A j \in Depths : j # n /\ HoldsPlace(stack[j]) => stack[j].of # p
  BY <1>1, <1>2, <1>8 DEF TreeInv, PlacesAlone
<1>13. ASSUME NEW q \in Objects, NEW x \in Objects
       PROVE  x \in ChildrenOf(q)' <=> x \in ChildrenOf(q)
  <2>1. x \in ChildrenOf(q)' <=> \E k \in Places(q)' : children'[q][k] = x
    BY <1>11, ChildrenNext
  <2>2. x \in ChildrenOf(q) <=> \E k \in Places(q) : children[q][k] = x
    BY <1>1, Children
  <2>3. x # None
    BY ObjectsAssumption
  <2>4. CASE q = p
    <3>1. ASSUME NEW k \in Places(p)', children'[p][k] = x PROVE x \in ChildrenOf(q)
      BY <1>9, <1>10, <2>2, <2>4, <3>1
    <3>2. ASSUME NEW k \in Places(p), children[p][k] = x PROVE x \in ChildrenOf(q)'
      <4>1. PICK j \in 1..(m - 1) : old(j) = k
        BY <1>3, <1>10, <2>3, <3>2
      <4>2. j \in Places(p)' /\ children'[p][j] = x
        BY <1>9, <3>2, <4>1
      <4> QED BY <2>1, <2>4, <4>2
    <3> QED BY <2>1, <2>2, <2>4, <3>1, <3>2
  <2>5. CASE q # p
    BY <1>9, <2>1, <2>2, <2>5
  <2> QED BY <2>4, <2>5
<1>14. \A S \in SUBSET Objects : Closed(S) => Closed(S)'
  <2>1. \A q \in Objects : ChildrenOf(q)' \subseteq Objects
    BY <1>11, VectorsNext DEF ChildrenOf, ToSet
  <2> QED BY <1>13, <2>1 DEF Closed
<1>p. ParentsOwn'
  <2> SUFFICES ASSUME NEW x \in alive, NEW q, parent[x] = q, q # None
               PROVE  q \in alive /\ (x \in ChildrenOf(q)' \/ DestroyedBy(x, q)')
    BY <1>4 DEF ParentsOwn
  <2>1. x \in Objects /\ q \in Objects
    BY <1>1 DEF TypeOK
  <2>2. q \in alive /\ (x \in ChildrenOf(q) \/ DestroyedBy(x, q))
    BY DEF TreeInv, ParentsOwn
  <2> QED BY <1>1, <1>6, <1>8, <1>13, <2>1, <2>2, SignalsStay
<1>o. OwnedPlaces'
  <2> SUFFICES ASSUME NEW q \in Objects, NEW i \in Places(q)', children'[q][i] # None
               PROVE  /\ children'[q][i] \in alive
                      /\ parent[children'[q][i]] = q
                      /\ \A j \in Places(q)' : children'[q][j] = children'[q][i] => i = j
    BY <1>4 DEF OwnedPlaces
  <2>1. CASE q = p
    <3>1. i \in 1..(m - 1) /\ children'[p][i] = children[p][old(i)] /\ old(i) \in Places(p)
      BY <1>9, <1>10, <2>1
    <3>2. /\ children[p][old(i)] \in alive /\ parent[children[p][old(i)]] = p
          /\ \A j \in Places(p) : children[p][j] = children[p][old(i)] => old(i) = j
      BY <1>3, <2>1, <3>1 DEF TreeInv, OwnedPlaces
    <3>3. ASSUME NEW j \in 1..(m - 1), children'[p][j] = children'[p][i] PROVE i = j
      BY <1>9, <1>10, <3>1, <3>2, <3>3
    <3> QED BY <1>9, <2>1, <3>1, <3>2, <3>3
  <2>2. CASE q # p
    <3>1. children'[q] = children[q] /\ Places(q)' = Places(q)
      BY <1>9, <2>2
    <3> QED BY <3>1 DEF TreeInv, OwnedPlaces
  <2> QED BY <2>1, <2>2
<1>h. PlacesHeld'
  <2> SUFFICES ASSUME NEW i \in 1..n, NEW f \in Frames, f = stack'[i]
               PROVE  HoldsRight(f)'
    BY <1>8 DEF PlacesHeld
  <2>1. CASE i = n
    BY <1>6, <1>7, <2>1 DEF HoldsRight, Erasing, Popping
  <2>2. CASE i # n
    <3>1. i \in Depths /\ f = stack[i] /\ HoldsRight(f)
      BY <1>6, <1>8, <2>2 DEF TreeInv, PlacesHeld
    <3>2. CASE f.of = p
      BY <1>12, <2>2, <3>1, <3>2 DEF HoldsPlace, Erasing, Popping, HoldsRight
    <3>3. CASE f.of # p
      BY <1>9, <3>1, <3>3, HeldElsewhere
    <3> QED BY <3>2, <3>3
  <2> QED BY <2>1, <2>2
<1>n. NoneIsHeld'
  <2> SUFFICES ASSUME NEW q \in Objects, NEW k \in Places(q)', children'[q][k] = None
               PROVE  \E i \in 1..n : Erasing(stack'[i]) /\ stack'[i].of = q /\ stack'[i].at = k
    BY <1>8 DEF NoneIsHeld, Erasing
  <2>1. CASE q = p
    <3>1. old(k) \in Places(p) /\ children[p][old(k)] = None /\ old(k) # l
      BY <1>9, <1>10, <2>1
    <3>2. PICK i \in Depths : Erasing(stack[i]) /\ stack[i].of = p /\ stack[i].at = old(k)
      BY <1>3, <3>1 DEF TreeInv, NoneIsHeld
    <3>3. i # n
      BY <1>1, <1>2, <3>1, <3>2
    <3> QED BY <1>12, <3>2, <3>3 DEF Erasing, HoldsPlace
  <2>2. CASE q # p
    <3>1. k \in Places(q) /\ children[q][k] = None
      BY <1>9, <2>2
    <3>2. PICK i \in Depths : Erasing(stack[i]) /\ stack[i].of = q /\ stack[i].at = k
      BY <3>1 DEF TreeInv, NoneIsHeld
    <3>3. i # n
      BY <1>1, <1>2, <2>2, <3>2
    <3> QED BY <1>6, <1>8, <3>2, <3>3
  <2> QED BY <2>1, <2>2
<1>a. PlacesAlone'
  <2> SUFFICES ASSUME NEW i \in 1..n, NEW j \in 1..n, j < i, HoldsPlace(stack'[j])
               PROVE  stack'[i].of # stack'[j].of
    BY <1>8 DEF PlacesAlone, HoldsPlace
  <2>1. stack'[j] = stack[j]
    BY <1>1, <1>6
  <2> QED BY <1>8, <2>1 DEF TreeInv, PlacesAlone
<1>u. Undisturbed'
  <2> SUFFICES ASSUME NEW i \in 1..n, stack[i].call = "~Object"
               PROVE  \E S \in SUBSET Objects :
                        /\ stack[i].of \in S /\ Closed(S)'
                        /\ \A j \in 1..(i - 1) : Working(stack'[j]) => stack'[j].of \notin S
    BY <1>8 DEF Undisturbed, Working, HoldsPlace, Adding
  <2>1. PICK S \in SUBSET Objects :
           /\ stack[i].of \in S /\ Closed(S)
           /\ \A j \in 1..(i - 1) : Working(stack[j]) => stack[j].of \notin S
    BY <1>8 DEF TreeInv, Undisturbed
  <2>2. \A j \in 1..(i - 1) : stack'[j] = stack[j]
    BY <1>1, <1>6
  <2> QED BY <1>14, <2>1, <2>2
<1>d. DyingOnce'
  BY <1>8 DEF TreeInv, DyingOnce
<1>w. DyingUnowned'
  <2> SUFFICES ASSUME NEW i \in 1..n, stack[i].call = "~Object", NEW q \in Objects
               PROVE  stack[i].of \notin ChildrenOf(q)'
    BY <1>8 DEF DyingUnowned
  <2>1. stack[i].of \in Objects /\ stack[i].of \notin ChildrenOf(q)
    BY <1>1, <1>8, Vectors DEF TreeInv, DyingUnowned, Frames
  <2> QED BY <1>13, <2>1
<1> QED BY <1>11, <1>13, <1>p, <1>o, <1>h, <1>n, <1>a, <1>u, <1>d, <1>w DEF TreeInv

-----------------------------------------------------------------------------
(***************************************************************************)
(* pop_back: the last child goes, and its ~Object starts above.            *)
(***************************************************************************)
PopsChild(p, d) ==
    /\ p \in Objects /\ d \in Objects /\ d \in ChildrenOf(p) /\ parent[d] = p
    /\ alive' = alive /\ parent' = parent /\ told' = told
    /\ \A q, x \in Objects : x \in ChildrenOf(q)' <=> x \in ChildrenOf(q) /\ x # d
    /\ Len(stack) \in Nat \ {0} /\ Len(stack') = Len(stack) + 1
    /\ \A k \in 1..(Len(stack) - 1) : stack'[k] = stack[k]
    /\ ~Working(stack'[Len(stack)]) /\ ~Working(stack'[Len(stack) + 1])
    /\ stack'[Len(stack)].of = p /\ stack'[Len(stack)].child = d
    /\ stack'[Len(stack) + 1].of = d

LEMMA DestroyChildKeeps ==
    ASSUME TreeInv, DestroyChild
    PROVE  /\ TreeInv' /\ PopsChild(Top.of, Top.child)
<1> DEFINE n == Len(stack)
<1>1. /\ TypeOK /\ stack # <<>> /\ Top = stack[n] /\ n \in Nat \ {0} /\ n \in Depths
      /\ Top \in Frames /\ Popping(Top) /\ ~Erasing(Top) /\ HoldsPlace(Top) /\ n < MaxDepth
      /\ Top.call = "~Object"
  BY FrontPlaces DEF TreeInv, TypeOK, DestroyChild, GoesOn, Top, Last, Depths, Erasing, Popping,
                     HoldsPlace
<1>2. PICK p, d : p = Top.of /\ d = Last(children[Top.of])
  OBVIOUS
<1> DEFINE m == Len(children[p])
<1>3. p \in Objects /\ m \in Nat \ {0} /\ m \in Places(p) /\ children[p][m] = d /\ children[p] # <<>>
  <2>1. HoldsRight(Top)
    BY <1>1 DEF TreeInv, PlacesHeld
  <2>2. p \in Objects /\ Places(p) # {}
    BY <1>1, <1>2, <2>1 DEF HoldsRight, Frames
  <2>3. m \in Nat /\ m # 0
    BY <1>1, <2>2, Vectors DEF Places
  <2>4. children[p] # <<>>
    BY <2>3, EmptySeq
  <2> QED BY <1>2, <2>2, <2>3, <2>4 DEF Places, Last
<1>4. d \in Objects /\ d \in alive /\ parent[d] = p /\ d # None
      /\ \A j \in Places(p) : children[p][j] = d => m = j
  <2>1. d # None
    <3>1. SUFFICES ASSUME d = None PROVE FALSE
      OBVIOUS
    <3>2. PICK i \in Depths : Erasing(stack[i]) /\ stack[i].of = p
      BY <1>3, <3>1 DEF TreeInv, NoneIsHeld
    <3>3. i < n /\ HoldsPlace(stack[i])
      BY <1>1, <3>2 DEF Depths, Erasing, HoldsPlace
    <3> QED BY <1>1, <1>2, <3>2, <3>3 DEF TreeInv, PlacesAlone
  <2>2. d \in Objects \cup {None}
    BY <1>1, <1>3, Vectors
  <2> QED BY <1>3, <2>1, <2>2 DEF TreeInv, OwnedPlaces
<1> DEFINE g == [Top EXCEPT !.emits = None]
           s == [stack EXCEPT ![n] = g]
           f == [call |-> "~Object", emits |-> "destroyed", child |-> None, at |-> 0, of |-> d]
<1>5. /\ alive' = alive /\ parent' = parent /\ told' = told
      /\ children' = [children EXCEPT ![p] = Front(@)]
      /\ stack' = Append(s, f)
  BY <1>1, <1>2 DEF DestroyChild, Top, Last
<1>6. f \in Frames /\ g \in Frames /\ stack \in Seq(Frames)
  BY <1>1, <1>4 DEF Frames, Calls, Signals, TypeOK
<1>7. /\ g.call = "~Object" /\ g.of = p /\ ~Erasing(g) /\ ~Popping(g) /\ ~HoldsPlace(g)
      /\ f.call = "~Object" /\ f.of = d /\ ~Erasing(f) /\ ~Popping(f) /\ ~HoldsPlace(f)
  BY <1>1, <1>2, <1>4, ObjectsAssumption DEF Frames, Erasing, Popping, HoldsPlace, Signals
<1> HIDE DEF f, g
<1>8. s \in Seq(Frames) /\ Len(s) = n /\ \A k \in 1..n : s[k] = IF k = n THEN g ELSE stack[k]
  BY <1>1, <1>6, ExceptSeq
<1> HIDE DEF s
<1>9. /\ stack' \in Seq(Frames) /\ Len(stack') <= MaxDepth /\ Len(stack') = n + 1
      /\ \A k \in 1..(n - 1) : stack'[k] = stack[k]
      /\ stack'[n] = g /\ stack'[n + 1] = f
  <2>1. /\ Append(s, f) \in Seq(Frames) /\ Len(Append(s, f)) = Len(s) + 1
        /\ \A k \in 1..Len(s) : Append(s, f)[k] = s[k]
        /\ Append(s, f)[Len(s) + 1] = f
    BY <1>6, <1>8, AppendProperties
  <2> QED BY <1>1, <1>5, <1>8, <2>1, ObjectsAssumption
<1>10. /\ Depths' = 1..(n + 1) /\ Depths = 1..n
       /\ \A k \in Depths : stack'[k].call = stack[k].call /\ stack'[k].of = stack[k].of
       /\ \A k \in Depths' : HoldsPlace(stack'[k]) => k \in 1..(n - 1) /\ HoldsPlace(stack[k])
  BY <1>1, <1>2, <1>7, <1>9 DEF Depths
<1>11. /\ children' \in [Objects -> Seq(Objects \cup {None})]
       /\ \A q \in Objects \ {p} : children'[q] = children[q] /\ Places(q)' = Places(q)
       /\ Places(p)' = 1..(m - 1) /\ Places(p) = 1..m
       /\ \A k \in Places(p)' : k \in Places(p) /\ k # m /\ children'[p][k] = children[p][k]
  <2>1. /\ children[p] \in Seq(Objects \cup {None})
        /\ children \in [Objects -> Seq(Objects \cup {None})]
    BY <1>1, <1>3 DEF TypeOK
  <2>2. /\ Front(children[p]) \in Seq(Objects \cup {None}) /\ Len(Front(children[p])) = m - 1
        /\ \A k \in 1..(m - 1) : Front(children[p])[k] = children[p][k]
    BY <1>3, <2>1, FrontPlaces
  <2>3. children'[p] = Front(children[p]) /\ \A q \in Objects \ {p} : children'[q] = children[q]
    BY <1>3, <1>5, <2>1
  <2> QED BY <1>3, <1>5, <2>1, <2>2, <2>3 DEF Places
<1> HIDE DEF m
<1>12. TypeOK'
  BY <1>1, <1>5, <1>9, <1>11 DEF TypeOK
<1>13. \A q \in Objects : \A k \in Places(q)' :
          k \in Places(q) /\ children'[q][k] = children[q][k] /\ children'[q][k] # d
  <2> SUFFICES ASSUME NEW q \in Objects, NEW k \in Places(q)'
               PROVE  k \in Places(q) /\ children'[q][k] = children[q][k] /\ children[q][k] # d
    OBVIOUS
  <2>1. CASE q = p
    BY <1>4, <1>11, <2>1
  <2>2. CASE q # p
    BY <1>4, <1>11, <2>2 DEF TreeInv, OwnedPlaces
  <2> QED BY <2>1, <2>2
<1>14. ASSUME NEW q \in Objects, NEW x \in Objects
       PROVE  /\ x \in ChildrenOf(q)' => x \in ChildrenOf(q) /\ x # d
              /\ x \in ChildrenOf(q) /\ x # d => x \in ChildrenOf(q)'
  <2>1. x \in ChildrenOf(q)' <=> \E k \in Places(q)' : children'[q][k] = x
    BY <1>12, ChildrenNext
  <2>2. x \in ChildrenOf(q) <=> \E k \in Places(q) : children[q][k] = x
    BY <1>1, Children
  <2>3. x \in ChildrenOf(q) /\ x # d => x \in ChildrenOf(q)'
    <3>1. SUFFICES ASSUME x # d, NEW k \in Places(q), children[q][k] = x
                   PROVE  x \in ChildrenOf(q)'
      BY <2>2
    <3>2. CASE q = p
      <4>1. k \in 1..m /\ k # m /\ m \in Nat
        BY <1>3, <1>11, <3>1, <3>2
      <4>2. k \in 1..(m - 1)
        BY ONLY SMT, <4>1
      <4> QED BY <1>11, <2>1, <3>1, <3>2, <4>2
    <3>3. CASE q # p
      BY <1>11, <2>1, <3>1, <3>3
    <3> QED BY <3>2, <3>3
  <2> QED BY <1>13, <2>1, <2>2, <2>3
<1>15. \A S \in SUBSET Objects : Closed(S) => Closed(S)'
  <2>1. \A q \in Objects : ChildrenOf(q)' \subseteq Objects
    BY <1>12, VectorsNext DEF ChildrenOf, ToSet
  <2> QED BY <1>14, <2>1 DEF Closed
<1>16. d \in ChildrenOf(p)
  BY <1>1, <1>3, <1>4, Children
<1>17. PICK S \in SUBSET Objects :
          /\ p \in S /\ Closed(S) /\ d \in S
          /\ \A j \in 1..(n - 1) : Working(stack[j]) => stack[j].of \notin S
  BY <1>1, <1>2, <1>16 DEF TreeInv, Undisturbed, Closed
<1>18. \A i \in Depths : stack[i].call = "~Object" => stack[i].of # d
  BY <1>3, <1>16 DEF TreeInv, DyingUnowned
<1>p. ParentsOwn'
  <2> SUFFICES ASSUME NEW x \in alive, NEW q, parent[x] = q, q # None
               PROVE  q \in alive /\ (x \in ChildrenOf(q)' \/ DestroyedBy(x, q)')
    BY <1>5 DEF ParentsOwn
  <2>1. x \in Objects /\ q \in Objects
    BY <1>1 DEF TypeOK
  <2>2. q \in alive /\ (x \in ChildrenOf(q) \/ DestroyedBy(x, q))
    BY DEF TreeInv, ParentsOwn
  <2>3. CASE x = d
    <3>1. n + 1 \in 2..Len(stack') /\ n + 1 - 1 = n
      BY <1>1, <1>9
    <3>2. /\ stack'[n + 1].call = "~Object" /\ stack'[n + 1].of = x
          /\ stack'[n + 1 - 1].call = "~Object" /\ stack'[n + 1 - 1].of = q
      BY <1>4, <1>7, <1>9, <2>3, <3>1
    <3> QED BY <2>2, <3>1, <3>2 DEF DestroyedBy
  <2>4. CASE x # d /\ x \in ChildrenOf(q)
    BY <1>14, <2>1, <2>2, <2>4
  <2>5. CASE DestroyedBy(x, q)
    <3>1. PICK i \in 2..n : /\ stack[i].call = "~Object" /\ stack[i].of = x
                            /\ stack[i - 1].call = "~Object" /\ stack[i - 1].of = q
      BY <2>5 DEF DestroyedBy
    <3>2. i \in 2..Len(stack') /\ i \in Depths /\ i - 1 \in Depths
      BY <1>1, <1>9, <1>10
    <3> QED BY <1>10, <2>2, <3>1, <3>2 DEF DestroyedBy
  <2> QED BY <2>2, <2>3, <2>4, <2>5
<1>o. OwnedPlaces'
  <2> SUFFICES ASSUME NEW q \in Objects, NEW i \in Places(q)', children'[q][i] # None
               PROVE  /\ children'[q][i] \in alive
                      /\ parent[children'[q][i]] = q
                      /\ \A j \in Places(q)' : children'[q][j] = children'[q][i] => i = j
    BY <1>5 DEF OwnedPlaces
  <2>1. i \in Places(q) /\ children'[q][i] = children[q][i]
    BY <1>13
  <2> QED BY <1>13, <2>1 DEF TreeInv, OwnedPlaces
<1>h. PlacesHeld'
  <2> SUFFICES ASSUME NEW i \in 1..(n + 1), NEW h \in Frames, h = stack'[i]
               PROVE  HoldsRight(h)'
    BY <1>10 DEF PlacesHeld
  <2>1. CASE ~HoldsPlace(h)
    BY <2>1 DEF HoldsPlace, HoldsRight, Erasing, Popping
  <2>2. CASE HoldsPlace(h)
    <3>1. i \in 1..(n - 1) /\ HoldsPlace(stack[i]) /\ i \in Depths
      BY <1>1, <1>10, <2>2
    <3>2. h = stack[i] /\ HoldsRight(h)
      BY <1>9, <3>1 DEF TreeInv, PlacesHeld
    <3>3. h.of # p
      BY <1>1, <1>2, <3>1, <3>2 DEF TreeInv, PlacesAlone
    <3> QED BY <1>11, <3>2, <3>3, HeldElsewhere
  <2> QED BY <2>1, <2>2
<1>n. NoneIsHeld'
  <2> SUFFICES ASSUME NEW q \in Objects, NEW k \in Places(q)', children'[q][k] = None
               PROVE  \E i \in 1..(n + 1) :
                         Erasing(stack'[i]) /\ stack'[i].of = q /\ stack'[i].at = k
    BY <1>10 DEF NoneIsHeld, Erasing
  <2>1. PICK i \in Depths : Erasing(stack[i]) /\ stack[i].of = q /\ stack[i].at = k
    BY <1>13 DEF TreeInv, NoneIsHeld
  <2>2. i \in 1..(n - 1)
    BY <1>1, <1>10, <2>1
  <2> QED BY <1>1, <1>9, <2>1, <2>2
<1>a. PlacesAlone'
  <2> SUFFICES ASSUME NEW i \in 1..(n + 1), NEW j \in 1..(n + 1), j < i, HoldsPlace(stack'[j])
               PROVE  stack'[i].of # stack'[j].of
    BY <1>10 DEF PlacesAlone, HoldsPlace
  <2>1. j \in 1..(n - 1) /\ j \in Depths /\ stack'[j] = stack[j] /\ HoldsPlace(stack[j])
    BY <1>1, <1>9, <1>10
  <2>2. CASE i = n + 1
    BY <1>7, <1>9, <1>17, <2>1, <2>2 DEF Working
  <2>3. CASE i # n + 1
    <3>1. i \in Depths
      BY <1>10, <2>3
    <3> QED BY <1>10, <2>1, <3>1 DEF TreeInv, PlacesAlone
  <2> QED BY <2>2, <2>3
<1>u. Undisturbed'
  <2> SUFFICES ASSUME NEW i \in 1..(n + 1), stack'[i].call = "~Object"
               PROVE  \E T \in SUBSET Objects :
                        /\ stack'[i].of \in T /\ Closed(T)'
                        /\ \A j \in 1..(i - 1) : Working(stack'[j]) => stack'[j].of \notin T
    BY <1>10 DEF Undisturbed, Working, HoldsPlace, Adding
  <2>1. ASSUME NEW j \in 1..(i - 1), Working(stack'[j])
        PROVE  j \in 1..(n - 1) /\ Working(stack[j]) /\ stack'[j] = stack[j]
    <3>1. ~Working(g) /\ ~Working(f)
      BY <1>7 DEF Working, Adding
    <3>2. j # n /\ j # n + 1
      BY <1>9, <2>1, <3>1
    <3> QED BY <1>1, <1>9, <1>10, <2>1, <3>2
  <2>2. CASE i = n + 1
    <3>1. stack'[i].of \in S
      BY <1>7, <1>9, <1>17, <2>2
    <3> QED BY <1>15, <1>17, <2>1, <3>1
  <2>3. CASE i # n + 1
    <3>1. i \in Depths /\ stack'[i].of = stack[i].of /\ stack[i].call = "~Object"
      BY <1>10, <2>3
    <3>2. PICK T \in SUBSET Objects :
             /\ stack[i].of \in T /\ Closed(T)
             /\ \A j \in 1..(i - 1) : Working(stack[j]) => stack[j].of \notin T
      BY <3>1 DEF TreeInv, Undisturbed
    <3> QED BY <1>15, <2>1, <3>1, <3>2
  <2> QED BY <2>2, <2>3
<1>d. DyingOnce'
  <2> SUFFICES ASSUME NEW i \in 1..(n + 1), NEW j \in 1..(n + 1),
                      stack'[i].call = "~Object", stack'[j].call = "~Object",
                      stack'[i].of = stack'[j].of
               PROVE  i = j
    BY <1>10 DEF DyingOnce
  <2>1. ASSUME NEW k \in Depths, stack'[k].call = "~Object"
        PROVE  stack'[k].of # d
    BY <1>10, <1>18, <2>1
  <2>2. stack'[n + 1].of = d
    BY <1>7, <1>9
  <2>3. CASE i = n + 1 \/ j = n + 1
    BY <1>10, <2>1, <2>2, <2>3
  <2>4. CASE i # n + 1 /\ j # n + 1
    <3>1. i \in Depths /\ j \in Depths
      BY <1>10, <2>4
    <3> QED BY <1>10, <3>1 DEF TreeInv, DyingOnce
  <2> QED BY <2>3, <2>4
<1>w. DyingUnowned'
  <2> SUFFICES ASSUME NEW i \in 1..(n + 1), stack'[i].call = "~Object", NEW q \in Objects
               PROVE  stack'[i].of \notin ChildrenOf(q)'
    BY <1>10 DEF DyingUnowned
  <2>1. CASE i = n + 1
    BY <1>4, <1>7, <1>9, <1>14, <2>1
  <2>2. CASE i # n + 1
    <3>1. i \in Depths /\ stack'[i].of = stack[i].of /\ stack[i].call = "~Object"
      BY <1>10, <2>2
    <3>2. stack[i].of \in Objects /\ stack[i].of \notin ChildrenOf(q)
      BY <1>1, <3>1, Vectors DEF TreeInv, DyingUnowned, Frames
    <3> QED BY <1>14, <3>1, <3>2
  <2> QED BY <2>1, <2>2
<1>19. PopsChild(Top.of, Top.child)
  <2>1. Top.child = d
    <3>1. HoldsRight(Top)
      BY <1>1 DEF TreeInv, PlacesHeld
    <3> QED BY <1>1, <1>2, <1>3, <3>1 DEF HoldsRight, m
  <2>2. ~Working(f) /\ ~Working(g) /\ g.child = Top.child
    BY <1>1, <1>7 DEF Working, Adding, g, Frames
  <2>3. \A q, x \in Objects : x \in ChildrenOf(q)' <=> x \in ChildrenOf(q) /\ x # d
    BY <1>14
  <2> QED BY <1>1, <1>2, <1>3, <1>4, <1>5, <1>7, <1>9, <1>16, <2>1, <2>2, <2>3 DEF PopsChild
<1> QED BY <1>12, <1>19, <1>p, <1>o, <1>h, <1>n, <1>a, <1>u, <1>d, <1>w DEF TreeInv

-----------------------------------------------------------------------------
LEMMA InitTree == Init => TreeInv
<1> SUFFICES ASSUME Init PROVE TreeInv
  OBVIOUS
<1>1. /\ alive = Objects /\ parent = [o \in Objects |-> None]
      /\ children = [o \in Objects |-> <<>>] /\ stack = <<>> /\ told = [o \in Objects |-> {}]
  BY DEF Init
<1>2. TypeOK
  BY <1>1, ObjectsAssumption, EmptySeq DEF TypeOK
<1>3. Depths = {} /\ \A p \in Objects : Places(p) = {}
  BY <1>1, EmptySeq DEF Depths, Places
<1>4. ParentsOwn
  BY <1>1 DEF ParentsOwn
<1> QED BY <1>2, <1>3, <1>4 DEF TreeInv, OwnedPlaces, PlacesHeld, NoneIsHeld, PlacesAlone,
                                Undisturbed, DyingOnce, DyingUnowned

LEMMA NextTree == TreeInv /\ [Next]_vars => TreeInv'
<1> SUFFICES ASSUME TreeInv, [Next]_vars PROVE TreeInv'
  OBVIOUS
<1>1. CASE \E p, c \in Objects : AddChild(p, c) \/ TakeChild(p, c)
  BY <1>1, AddChildKeeps, TakeChildKeeps
<1>2. CASE AddChildGoesOn
  BY <1>2, AddChildGoesOnKeeps
<1>3. CASE AddChildReturns
  BY <1>3, ReturnKeeps DEF AddChildReturns, GoesOn, Erasing
<1>4. CASE TakeChildGoesOn
  BY <1>4, TakeChildGoesOnKeeps
<1>5. CASE TakeChildReturns
  BY <1>5, ReturnKeeps DEF TakeChildReturns, GoesOn, Erasing
<1>6. CASE \E o \in Objects : Destroy(o)
  BY <1>6, DestroyKeeps
<1>7. CASE RemoveLastChild
  BY <1>7, RemoveLastChildKeeps
<1>8. CASE DestroyChild
  BY <1>8, DestroyChildKeeps
<1>9. CASE DestroyEnds
  BY <1>9, ReturnKeeps DEF DestroyEnds, GoesOn, Erasing
<1>10. CASE UNCHANGED vars
  <2>1. /\ alive' = alive /\ parent' = parent /\ children' = children /\ stack' = stack
        /\ told' = told
    BY <1>10 DEF vars
  <2>2. TypeOK' /\ OwnedPlaces'
    BY <2>1 DEF TreeInv, TypeOK, OwnedPlaces, Places
  <2>3. ParentsOwn'
    BY <2>1 DEF TreeInv, ParentsOwn, ChildrenOf, DestroyedBy
  <2>4. PlacesHeld' /\ NoneIsHeld' /\ PlacesAlone'
    BY <2>1 DEF TreeInv, PlacesHeld, NoneIsHeld, PlacesAlone, Places, Depths, HoldsRight,
                Erasing, Popping, HoldsPlace
  <2>5. Undisturbed' /\ DyingOnce' /\ DyingUnowned'
    BY <2>1 DEF TreeInv, Undisturbed, DyingOnce, DyingUnowned, Depths, Working, HoldsPlace, Adding,
                Closed, ChildrenOf
  <2> QED BY <2>2, <2>3, <2>4, <2>5 DEF TreeInv
<1> QED BY <1>1, <1>2, <1>3, <1>4, <1>5, <1>6, <1>7, <1>8, <1>9, <1>10 DEF Next

(***************************************************************************)
(* For any objects, and any slots that call addChild, takeChild and        *)
(* ~Object from inside them: a parent pointer leads to an owner, and an    *)
(* object is owned once.                                                   *)
(***************************************************************************)
THEOREM TreeIsSound == Spec => []TreeAgrees
<1>1. TreeInv => TreeAgrees
  <2> SUFFICES ASSUME TreeInv PROVE OwnedOnce
    BY DEF TreeInv, TreeAgrees
  <2> QED BY Vectors DEF TreeInv, OwnedPlaces, OwnedOnce
<1> QED BY <1>1, InitTree, NextTree, PTL DEF Spec

-----------------------------------------------------------------------------
(***************************************************************************)
(* What a listener has been told.  It knows the children of every object,  *)
(* but for those that a call has moved and not announced yet; such a call  *)
(* is alone in that, and what it moved stays where it put it.              *)
(***************************************************************************)
About(f, o, x) == f.of = o /\ f.child = x

AnnouncedOnce ==
    \A i, j \in Depths :
        /\ Working(stack[i]) /\ Working(stack[j])
        /\ stack[i].of = stack[j].of /\ stack[i].child = stack[j].child
        => i = j

AddedStay ==
    \A i \in Depths, o, x \in Objects :
        Adding(stack[i]) /\ About(stack[i], o, x) => x \in ChildrenOf(o)

TakenAreFree == \A i \in Depths : Erasing(stack[i]) => parent[stack[i].child] = None

PoppedDie ==
    \A i, j \in Depths :
        /\ i = j + 1 /\ stack[i].call = "~Object" /\ stack[j].call = "~Object"
        /\ parent[stack[i].of] = stack[j].of
        => stack[j].child = stack[i].of

Knows(o, x) ==
    \/ \E i \in Depths : Erasing(stack[i]) /\ About(stack[i], o, x)
    \/ /\ x \in ChildrenOf(o)
       /\ \A i \in Depths : Adding(stack[i]) \/ Popping(stack[i]) => ~About(stack[i], o, x)

ToldAgrees == \A o, x \in Objects : x \in told[o] <=> Knows(o, x)

ToldInv == TreeInv /\ AnnouncedOnce /\ AddedStay /\ TakenAreFree /\ PoppedDie /\ ToldAgrees

(***************************************************************************)
(* A frame that comes, goes or changes makes no difference to what is      *)
(* known unless it works on that child.                                    *)
(***************************************************************************)
LEMMA KnowsSame ==
    ASSUME NEW o \in Objects, NEW x \in Objects, NEW m,
           \A k \in 1..m : k \in Depths /\ k \in Depths' /\ stack'[k] = stack[k],
           \A k \in Depths : k \in 1..m \/ ~(Working(stack[k]) /\ About(stack[k], o, x)),
           \A k \in Depths' : k \in 1..m \/ ~(Working(stack'[k]) /\ About(stack'[k], o, x)),
           x \in ChildrenOf(o)' <=> x \in ChildrenOf(o)
    PROVE  Knows(o, x)' <=> Knows(o, x)
<1>1. \A f : Erasing(f) \/ Adding(f) \/ Popping(f) <=> Working(f)
  BY DEF Erasing, Adding, Popping, Working, HoldsPlace
<1>2. Knows(o, x)' <=>
         \/ \E i \in Depths' : Erasing(stack'[i]) /\ About(stack'[i], o, x)
         \/ /\ x \in ChildrenOf(o)'
            /\ \A i \in Depths' :
                  Adding(stack'[i]) \/ Popping(stack'[i]) => ~About(stack'[i], o, x)
  BY DEF Knows, Erasing, Adding, Popping, About
<1>3. (\E i \in Depths' : Erasing(stack'[i]) /\ About(stack'[i], o, x)) <=>
      (\E i \in Depths : Erasing(stack[i]) /\ About(stack[i], o, x))
  BY <1>1
<1>4. (\A i \in Depths' : Adding(stack'[i]) \/ Popping(stack'[i]) => ~About(stack'[i], o, x)) <=>
      (\A i \in Depths : Adding(stack[i]) \/ Popping(stack[i]) => ~About(stack[i], o, x))
  BY <1>1
<1> QED BY <1>2, <1>3, <1>4 DEF Knows

(***************************************************************************)
(* The same for the other parts: what is said of the frames that stay.     *)
(***************************************************************************)
LEMMA StayingFrames ==
    ASSUME ToldInv, TypeOK', NEW m,
           \A k \in 1..m : k \in Depths /\ k \in Depths' /\ stack'[k] = stack[k]
    PROVE  /\ \A i, j \in 1..m :
                 /\ Working(stack'[i]) /\ Working(stack'[j])
                 /\ stack'[i].of = stack'[j].of /\ stack'[i].child = stack'[j].child
                 => i = j
           /\ \A i \in 1..m, o, x \in Objects :
                 Adding(stack'[i]) /\ About(stack'[i], o, x) => x \in ChildrenOf(o)
           /\ \A i \in 1..m : Erasing(stack'[i]) =>
                 stack'[i].child \in Objects /\ parent[stack'[i].child] = None
           /\ \A i, j \in 1..m :
                 /\ i = j + 1 /\ stack'[i].call = "~Object" /\ stack'[j].call = "~Object"
                 /\ parent[stack'[i].of] = stack'[j].of
                 => stack'[j].child = stack'[i].of
<1>1. \A i \in 1..m : stack[i] \in Frames /\ stack'[i] = stack[i]
  BY Vectors DEF ToldInv, TreeInv
<1>2. \A g \in Frames : g.of \in Objects /\ (Adding(g) \/ Erasing(g) => g.child \in Objects)
  BY DEF Frames, Adding, Erasing
<1>3. \A i, j \in 1..m :
          /\ Working(stack'[i]) /\ Working(stack'[j])
          /\ stack'[i].of = stack'[j].of /\ stack'[i].child = stack'[j].child
          => i = j
  BY <1>1 DEF ToldInv, AnnouncedOnce
<1>4. \A i \in 1..m, o, x \in Objects :
          Adding(stack'[i]) /\ About(stack'[i], o, x) => x \in ChildrenOf(o)
  BY <1>1 DEF ToldInv, AddedStay
<1>5. \A i \in 1..m : Erasing(stack'[i]) => parent[stack'[i].child] = None
  BY <1>1 DEF ToldInv, TakenAreFree
<1>6. \A i, j \in 1..m :
          /\ i = j + 1 /\ stack'[i].call = "~Object" /\ stack'[j].call = "~Object"
          /\ parent[stack'[i].of] = stack'[j].of
          => stack'[j].child = stack'[i].of
  BY <1>1 DEF ToldInv, PoppedDie
<1> QED BY <1>1, <1>2, <1>3, <1>4, <1>5, <1>6

LEMMA ChildrensParent ==
    ASSUME TreeInv, NEW q \in Objects, NEW x \in Objects, x \in ChildrenOf(q)
    PROVE  x # None /\ parent[x] = q /\ q # None
<1>1. PICK k \in Places(q) : children[q][k] = x
  BY Children DEF TreeInv
<1> QED BY <1>1, ObjectsAssumption DEF TreeInv, OwnedPlaces

(***************************************************************************)
(* No call below ~Object of an object is at work in its vector.            *)
(***************************************************************************)
LEMMA WorksAlone ==
    ASSUME TreeInv, stack # <<>>, Top.call = "~Object"
    PROVE  \A j \in 1..(Len(stack) - 1) : Working(stack[j]) => stack[j].of # Top.of
<1>1. Len(stack) \in Nat \ {0} /\ Top = stack[Len(stack)]
  BY FrontPlaces DEF TreeInv, TypeOK, Top, Last
<1> QED BY <1>1 DEF TreeInv, Undisturbed, Depths

-----------------------------------------------------------------------------
(***************************************************************************)
(* addChild and takeChild: what has moved is not announced yet.            *)
(***************************************************************************)
LEMMA AddChildTells ==
    ASSUME ToldInv, NEW p \in Objects, NEW c \in Objects, AddChild(p, c)
    PROVE  ToldInv'
<1> DEFINE n == Len(stack)
           f == [call |-> "addChild", emits |-> "parentChanged", of |-> p, child |-> c, at |-> 0]
<1>1. /\ TreeInv /\ TypeOK /\ n < MaxDepth /\ c # None
      /\ parent' = [parent EXCEPT ![c] = p] /\ told' = told
      /\ Called("addChild", "parentChanged", p, c, 0)
  BY ObjectsAssumption DEF ToldInv, TreeInv, AddChild, MayCall
<1>2. /\ TreeInv' /\ TypeOK'
      /\ \A q, x \in Objects : x \in ChildrenOf(q)' <=> x \in ChildrenOf(q) \/ (q = p /\ x = c)
  BY <1>1, AddChildKeeps DEF TreeInv
<1>3. /\ n \in Nat /\ Len(stack') = n + 1
      /\ \A k \in 1..n : stack'[k] = stack[k]
      /\ stack'[n + 1] = f
  BY <1>1, Pushed DEF Calls, Signals, Same
<1>4. /\ Depths = 1..n /\ Depths' = 1..(n + 1)
      /\ \A k \in 1..n : k \in Depths /\ k \in Depths' /\ stack'[k] = stack[k]
      /\ \A k \in Depths' : k \in 1..n \/ k = n + 1
  BY <1>3 DEF Depths
<1>5. f.of = p /\ f.child = c /\ f.call = "addChild" /\ Adding(f) /\ ~Erasing(f)
  BY DEF Adding, Erasing
<1> HIDE DEF f, n
<1>6. /\ \A k \in 1..n : stack'[k].child # c /\ stack'[k].of # c
      /\ \A q \in Objects : c \notin ChildrenOf(q)
  <2>1. ~Busy(c) /\ \A q \in Objects : c \notin ChildrenOf(q)
    BY <1>1, SubtreeClosed DEF AddChild, Owns
  <2>2. Untouched(p, c)
    BY DEF AddChild
  <2> QED BY <1>1, <1>4, <2>1, <2>2, Vectors DEF Busy, Untouched
<1>7. AnnouncedOnce'
  <2> SUFFICES ASSUME NEW i \in Depths', NEW j \in Depths', Working(stack'[i]), Working(stack'[j]),
                      stack'[i].of = stack'[j].of, stack'[i].child = stack'[j].child
               PROVE  i = j
    BY DEF AnnouncedOnce, Working, HoldsPlace, Adding
  <2> QED BY <1>2, <1>3, <1>4, <1>5, <1>6, StayingFrames
<1>8. AddedStay'
  <2> SUFFICES ASSUME NEW i \in Depths', NEW o \in Objects, NEW x \in Objects,
                      Adding(stack'[i]), About(stack'[i], o, x)
               PROVE  x \in ChildrenOf(o)'
    BY DEF AddedStay, Adding, About
  <2> QED BY <1>2, <1>3, <1>4, <1>5, StayingFrames DEF About
<1>9. TakenAreFree'
  <2> SUFFICES ASSUME NEW i \in Depths', Erasing(stack'[i])
               PROVE  parent'[stack'[i].child] = None
    BY DEF TakenAreFree, Erasing
  <2>1. i \in 1..n /\ stack'[i].child \in Objects /\ parent[stack'[i].child] = None
    BY <1>2, <1>3, <1>4, <1>5, StayingFrames
  <2> QED BY <1>1, <1>6, <2>1 DEF TypeOK
<1>10. PoppedDie'
  <2> SUFFICES ASSUME NEW i \in Depths', NEW j \in Depths', i = j + 1,
                      stack'[i].call = "~Object", stack'[j].call = "~Object",
                      parent'[stack'[i].of] = stack'[j].of
               PROVE  stack'[j].child = stack'[i].of
    BY DEF PoppedDie
  <2>1. i \in 1..n /\ j \in 1..n
    BY <1>3, <1>4, <1>5
  <2>2. stack'[i].of \in Objects /\ stack'[i].of # c
    BY <1>2, <1>6, <2>1, VectorsNext DEF Frames
  <2>3. parent[stack'[i].of] = stack'[j].of
    BY <1>1, <2>2 DEF TypeOK
  <2> QED BY <1>2, <1>4, <2>1, <2>3, StayingFrames
<1>11. ToldAgrees'
  <2> SUFFICES ASSUME NEW o \in Objects, NEW x \in Objects
               PROVE  x \in told[o] <=> Knows(o, x)'
    BY <1>1 DEF ToldAgrees
  <2>1. x \in told[o] <=> Knows(o, x)
    BY DEF ToldInv, ToldAgrees
  <2>2. CASE o = p /\ x = c
    <3>1. ~Knows(o, x)
      BY <1>4, <1>6, <2>2 DEF Knows, About
    <3>2. n + 1 \in Depths' /\ Adding(stack'[n + 1]) /\ About(stack'[n + 1], o, x)
      BY <1>3, <1>4, <1>5, <2>2 DEF About
    <3>3. ASSUME NEW k \in Depths', Erasing(stack'[k]), About(stack'[k], o, x)
          PROVE  FALSE
      BY <1>3, <1>4, <1>5, <1>6, <2>2, <3>3 DEF About
    <3>4. ~Knows(o, x)'
      BY <3>2, <3>3 DEF Knows, About, Erasing, Adding, Popping
    <3> QED BY <2>1, <3>1, <3>4
  <2>3. CASE ~(o = p /\ x = c)
    <3>1. x \in ChildrenOf(o)' <=> x \in ChildrenOf(o)
      BY <1>2, <2>3
    <3>2. ~About(stack'[n + 1], o, x)
      BY <1>3, <1>5, <2>3 DEF About
    <3> QED BY <1>4, <2>1, <3>1, <3>2, KnowsSame
  <2> QED BY <2>2, <2>3
<1> QED BY <1>2, <1>7, <1>8, <1>9, <1>10, <1>11 DEF ToldInv

LEMMA TakeChildTells ==
    ASSUME ToldInv, NEW p \in Objects, NEW c \in Objects, TakeChild(p, c)
    PROVE  ToldInv'
<1> DEFINE n == Len(stack)
<1>1. PICK l \in DOMAIN children[p] :
         /\ children[p][l] = c
         /\ Called("takeChild", "parentChanged", p, c, l)
  BY DEF TakeChild
<1> DEFINE f == [call |-> "takeChild", emits |-> "parentChanged", of |-> p, child |-> c, at |-> l]
<1>2. /\ TreeInv /\ TypeOK /\ n < MaxDepth /\ c # None /\ l \in Places(p) /\ l \in Nat
      /\ parent' = [parent EXCEPT ![c] = None] /\ told' = told
  BY <1>1, Vectors, ObjectsAssumption DEF ToldInv, TreeInv, TakeChild, MayCall, Places
<1>3. /\ TreeInv' /\ TypeOK'
      /\ \A q, x \in Objects :
            /\ x \in ChildrenOf(q)' => x \in ChildrenOf(q)
            /\ x \in ChildrenOf(q) /\ x # c => x \in ChildrenOf(q)'
  BY <1>2, TakeChildKeeps DEF TreeInv
<1>4. /\ n \in Nat /\ Len(stack') = n + 1
      /\ \A k \in 1..n : stack'[k] = stack[k]
      /\ stack'[n + 1] = f
  BY <1>1, <1>2, Pushed DEF Calls, Signals, Same
<1>5. /\ Depths = 1..n /\ Depths' = 1..(n + 1)
      /\ \A k \in 1..n : k \in Depths /\ k \in Depths' /\ stack'[k] = stack[k]
      /\ \A k \in Depths' : k \in 1..n \/ k = n + 1
  BY <1>4 DEF Depths
<1>6. f.of = p /\ f.child = c /\ f.call = "takeChild" /\ ~Adding(f) /\ Erasing(f)
  BY DEF Adding, Erasing
<1> HIDE DEF f, n
<1>7. c \in ChildrenOf(p) /\ \A k \in 1..n : stack'[k].child # c
  <2>1. Untouched(p, c)
    BY DEF TakeChild
  <2>2. c \in ChildrenOf(p)
    BY <1>1, <1>2, Children
  <2> QED BY <1>2, <1>5, <2>1, <2>2, Vectors DEF Untouched
<1>8. parent'[c] = None /\ \A x \in Objects : x # c => parent'[x] = parent[x]
  BY <1>2 DEF TypeOK
<1>9. AnnouncedOnce'
  <2> SUFFICES ASSUME NEW i \in Depths', NEW j \in Depths', Working(stack'[i]), Working(stack'[j]),
                      stack'[i].of = stack'[j].of, stack'[i].child = stack'[j].child
               PROVE  i = j
    BY DEF AnnouncedOnce, Working, HoldsPlace, Adding
  <2> QED BY <1>3, <1>4, <1>5, <1>6, <1>7, StayingFrames
<1>10. AddedStay'
  <2> SUFFICES ASSUME NEW i \in Depths', NEW o \in Objects, NEW x \in Objects,
                      Adding(stack'[i]), About(stack'[i], o, x)
               PROVE  x \in ChildrenOf(o)'
    BY DEF AddedStay, Adding, About
  <2> QED BY <1>3, <1>4, <1>5, <1>6, <1>7, StayingFrames DEF About
<1>11. TakenAreFree'
  <2> SUFFICES ASSUME NEW i \in Depths', Erasing(stack'[i])
               PROVE  parent'[stack'[i].child] = None
    BY DEF TakenAreFree, Erasing
  <2>1. CASE i \in 1..n
    <3>1. stack'[i].child \in Objects /\ parent[stack'[i].child] = None
      BY <1>3, <1>5, <2>1, StayingFrames
    <3> QED BY <1>7, <1>8, <2>1, <3>1
  <2>2. CASE i = n + 1
    BY <1>4, <1>6, <1>8, <2>2
  <2> QED BY <1>5, <2>1, <2>2
<1>12. PoppedDie'
  <2> SUFFICES ASSUME NEW i \in Depths', NEW j \in Depths', i = j + 1,
                      stack'[i].call = "~Object", stack'[j].call = "~Object",
                      parent'[stack'[i].of] = stack'[j].of
               PROVE  stack'[j].child = stack'[i].of
    BY DEF PoppedDie
  <2>1. i \in 1..n /\ j \in 1..n
    BY <1>4, <1>5, <1>6
  <2>2. stack'[i].of \in Objects /\ stack'[j].of \in Objects
    BY <1>3, <2>1, VectorsNext DEF Frames
  <2>3. stack'[i].of # c
    BY <1>8, <2>2, ObjectsAssumption
  <2>4. parent[stack'[i].of] = stack'[j].of
    BY <1>8, <2>2, <2>3
  <2> QED BY <1>3, <1>5, <2>1, <2>4, StayingFrames
<1>13. ToldAgrees'
  <2> SUFFICES ASSUME NEW o \in Objects, NEW x \in Objects
               PROVE  x \in told[o] <=> Knows(o, x)'
    BY <1>2 DEF ToldAgrees
  <2>1. x \in told[o] <=> Knows(o, x)
    BY DEF ToldInv, ToldAgrees
  <2>2. CASE o = p /\ x = c
    <3>1. Knows(o, x)
      BY <1>5, <1>7, <2>2 DEF Knows, About
    <3>2. n + 1 \in Depths' /\ Erasing(stack'[n + 1]) /\ About(stack'[n + 1], o, x)
      BY <1>4, <1>5, <1>6, <2>2 DEF About
    <3>3. Knows(o, x)'
      BY <3>2 DEF Knows, About, Erasing
    <3> QED BY <2>1, <3>1, <3>3
  <2>3. CASE ~(o = p /\ x = c)
    <3>1. x \in ChildrenOf(o)' <=> x \in ChildrenOf(o)
      <4>1. CASE x # c
        BY <1>3, <4>1
      <4>2. CASE x = c
        <5>1. o # p /\ parent[c] = p
          BY <1>2, <1>7, <2>3, <4>2, ChildrensParent
        <5>2. x \notin ChildrenOf(o)
          BY <1>2, <4>2, <5>1, ChildrensParent
        <5> QED BY <1>3, <5>2
      <4> QED BY <4>1, <4>2
    <3>2. ~About(stack'[n + 1], o, x)
      BY <1>4, <1>6, <2>3 DEF About
    <3> QED BY <1>5, <2>1, <3>1, <3>2, KnowsSame
  <2> QED BY <2>2, <2>3
<1> QED BY <1>3, <1>9, <1>10, <1>11, <1>12, <1>13 DEF ToldInv

(***************************************************************************)
(* ~Object of an object that the program owns: no parent is destroying it. *)
(***************************************************************************)
LEMMA DestroyTells ==
    ASSUME ToldInv, NEW d \in Objects, Destroy(d)
    PROVE  ToldInv'
<1> DEFINE n == Len(stack)
           f == [call |-> "~Object", emits |-> "destroyed", of |-> d, child |-> None, at |-> 0]
<1>1. /\ TreeInv /\ TypeOK /\ n < MaxDepth /\ Owns(d) /\ Called("~Object", "destroyed", d, None, 0)
      /\ parent' = parent /\ children' = children /\ told' = told
  BY DEF ToldInv, TreeInv, Destroy, MayCall
<1>2. /\ n \in Nat /\ Len(stack') = n + 1
      /\ \A k \in 1..n : stack'[k] = stack[k]
      /\ stack'[n + 1] = f
  <2>1. None \in Objects \cup {None} /\ 0 \in Nat /\ "~Object" \in Calls /\ "destroyed" \in Signals
    BY DEF Calls, Signals
  <2> QED BY <1>1, <2>1, Pushed DEF Same
<1>3. TreeInv' /\ TypeOK' /\ \A q : ChildrenOf(q)' = ChildrenOf(q)
  BY <1>1, DestroyKeeps DEF TreeInv, ChildrenOf
<1>4. /\ Depths = 1..n /\ Depths' = 1..(n + 1)
      /\ \A k \in 1..n : k \in Depths /\ k \in Depths' /\ stack'[k] = stack[k]
      /\ \A k \in Depths' : k \in 1..n \/ k = n + 1
  BY <1>2 DEF Depths
<1>5. f.of = d /\ ~Working(f) /\ ~Adding(f) /\ ~Erasing(f)
  BY DEF Adding, Erasing, Working, HoldsPlace
<1> HIDE DEF f, n
<1>6. parent[d] = None \/ parent[d] \notin Objects
  <2>1. d \in alive /\ ~Busy(d) /\ \A q \in Objects : d \notin ChildrenOf(q)
    BY <1>1, SubtreeClosed DEF Owns
  <2>2. ASSUME NEW q, DestroyedBy(d, q)
        PROVE  FALSE
    BY <1>1, <2>1, <2>2, Vectors DEF DestroyedBy, Busy, Depths
  <2> QED BY <1>1, <2>1, <2>2 DEF TreeInv, ParentsOwn
<1>7. AnnouncedOnce'
  <2> SUFFICES ASSUME NEW i \in Depths', NEW j \in Depths', Working(stack'[i]), Working(stack'[j]),
                      stack'[i].of = stack'[j].of, stack'[i].child = stack'[j].child
               PROVE  i = j
    BY DEF AnnouncedOnce, Working, HoldsPlace, Adding
  <2> QED BY <1>2, <1>3, <1>4, <1>5, StayingFrames
<1>8. AddedStay'
  <2> SUFFICES ASSUME NEW i \in Depths', NEW o \in Objects, NEW x \in Objects,
                      Adding(stack'[i]), About(stack'[i], o, x)
               PROVE  x \in ChildrenOf(o)'
    BY DEF AddedStay, Adding, About
  <2> QED BY <1>2, <1>3, <1>4, <1>5, StayingFrames
<1>9. TakenAreFree'
  <2> SUFFICES ASSUME NEW i \in Depths', Erasing(stack'[i])
               PROVE  parent[stack'[i].child] = None
    BY <1>1 DEF TakenAreFree, Erasing
  <2> QED BY <1>2, <1>3, <1>4, <1>5, StayingFrames
<1>10. PoppedDie'
  <2> SUFFICES ASSUME NEW i \in Depths', NEW j \in Depths', i = j + 1,
                      stack'[i].call = "~Object", stack'[j].call = "~Object",
                      parent[stack'[i].of] = stack'[j].of
               PROVE  stack'[j].child = stack'[i].of
    BY <1>1 DEF PoppedDie
  <2>1. j \in 1..n /\ stack'[j].of \in Objects
    BY <1>2, <1>3, <1>4, VectorsNext DEF Frames
  <2>2. i # n + 1
    BY <1>2, <1>5, <1>6, <2>1, ObjectsAssumption
  <2> QED BY <1>3, <1>4, <2>1, <2>2, StayingFrames
<1>11. ToldAgrees'
  <2> SUFFICES ASSUME NEW o \in Objects, NEW x \in Objects
               PROVE  x \in told[o] <=> Knows(o, x)'
    BY <1>1 DEF ToldAgrees
  <2>1. x \in told[o] <=> Knows(o, x)
    BY DEF ToldInv, ToldAgrees
  <2> QED BY <1>2, <1>3, <1>4, <1>5, <2>1, KnowsSame
<1> QED BY <1>3, <1>7, <1>8, <1>9, <1>10, <1>11 DEF ToldInv

(***************************************************************************)
(* A call is about to return, or the last one to announce goes on: what is *)
(* said of the frames below stays.                                         *)
(***************************************************************************)
LEMMA ReturnTells ==
    ASSUME ToldInv, TreeInv', stack # <<>>, ~Working(Top), Returns,
           UNCHANGED <<parent, children, told>>
    PROVE  ToldInv'
<1> DEFINE n == Len(stack)
<1>1. TreeInv /\ TypeOK /\ TypeOK' /\ parent' = parent /\ told' = told
      /\ \A q : ChildrenOf(q)' = ChildrenOf(q)
  BY DEF ToldInv, TreeInv, ChildrenOf
<1>2. /\ n \in Nat \ {0} /\ Len(stack') = n - 1
      /\ \A k \in 1..(n - 1) : stack'[k] = stack[k]
  BY <1>1, Returned DEF Same
<1>3. /\ Depths' = 1..(n - 1) /\ Depths = 1..n /\ ~Working(stack[n])
      /\ \A k \in 1..(n - 1) : k \in Depths /\ k \in Depths' /\ stack'[k] = stack[k]
      /\ \A k \in Depths : k \in 1..(n - 1) \/ k = n
  BY <1>2 DEF Depths, Top, Last
<1> HIDE DEF n
<1>4. AnnouncedOnce'
  <2> SUFFICES ASSUME NEW i \in Depths', NEW j \in Depths', Working(stack'[i]), Working(stack'[j]),
                      stack'[i].of = stack'[j].of, stack'[i].child = stack'[j].child
               PROVE  i = j
    BY DEF AnnouncedOnce, Working, HoldsPlace, Adding
  <2> QED BY <1>1, <1>3, StayingFrames
<1>5. AddedStay'
  <2> SUFFICES ASSUME NEW i \in Depths', NEW o \in Objects, NEW x \in Objects,
                      Adding(stack'[i]), About(stack'[i], o, x)
               PROVE  x \in ChildrenOf(o)'
    BY DEF AddedStay, Adding, About
  <2> QED BY <1>1, <1>3, StayingFrames
<1>6. TakenAreFree'
  <2> SUFFICES ASSUME NEW i \in Depths', Erasing(stack'[i])
               PROVE  parent[stack'[i].child] = None
    BY <1>1 DEF TakenAreFree, Erasing
  <2> QED BY <1>1, <1>3, StayingFrames
<1>7. PoppedDie'
  <2> SUFFICES ASSUME NEW i \in Depths', NEW j \in Depths', i = j + 1,
                      stack'[i].call = "~Object", stack'[j].call = "~Object",
                      parent[stack'[i].of] = stack'[j].of
               PROVE  stack'[j].child = stack'[i].of
    BY <1>1 DEF PoppedDie
  <2>1. i \in 1..(n - 1) /\ j \in 1..(n - 1)
    BY <1>3
  <2>2. \A a, b \in 1..(n - 1) :
           /\ a = b + 1 /\ stack'[a].call = "~Object" /\ stack'[b].call = "~Object"
           /\ parent[stack'[a].of] = stack'[b].of
           => stack'[b].child = stack'[a].of
    BY <1>1, <1>3, StayingFrames
  <2> QED BY ONLY Zenon, <2>1, <2>2, i = j + 1, stack'[i].call = "~Object",
             stack'[j].call = "~Object", parent[stack'[i].of] = stack'[j].of
<1>8. ToldAgrees'
  <2> SUFFICES ASSUME NEW o \in Objects, NEW x \in Objects
               PROVE  x \in told[o] <=> Knows(o, x)'
    BY <1>1 DEF ToldAgrees
  <2>1. x \in told[o] <=> Knows(o, x)
    BY DEF ToldInv, ToldAgrees
  <2> QED BY <1>1, <1>3, <2>1, KnowsSame
<1> QED BY <1>4, <1>5, <1>6, <1>7, <1>8 DEF ToldInv

(***************************************************************************)
(* childAdded and childRemoved: told changes for the child on top, and     *)
(* agrees with the vector afterwards.                                      *)
(***************************************************************************)
LEMMA SignalTells ==
    ASSUME ToldInv, TreeInv', parent' = parent,
           \A q, x \in Objects : x \in ChildrenOf(q)' <=> x \in ChildrenOf(q),
           NEW n \in Nat \ {0}, Len(stack) = n, Len(stack') = n,
           \A k \in 1..(n - 1) : stack'[k] = stack[k],
           stack'[n].call = stack[n].call, stack'[n].of = stack[n].of,
           NEW p \in Objects, NEW c \in Objects, About(stack'[n], p, c),
           Working(stack[n]) => About(stack[n], p, c),
           ~Erasing(stack'[n]), ~Adding(stack'[n]),
           \A k \in 1..(n - 1) : ~(Working(stack[k]) /\ About(stack[k], p, c)),
           \/ told' = [told EXCEPT ![p] = @ \cup {c}] /\ c \in ChildrenOf(p) /\ ~Working(stack'[n])
           \/ /\ told' = [told EXCEPT ![p] = @ \ {c}]
              /\ c \notin ChildrenOf(p) \/ Popping(stack'[n])
    PROVE  ToldInv'
<1>1. TreeInv /\ TypeOK /\ TypeOK'
  BY DEF ToldInv, TreeInv
<1>2. /\ Depths = 1..n /\ Depths' = 1..n
      /\ \A k \in 1..(n - 1) : k \in Depths /\ k \in Depths' /\ stack'[k] = stack[k]
      /\ \A k \in 1..n : k \in 1..(n - 1) \/ k = n
  BY DEF Depths
<1>3. \A g : Erasing(g) \/ Adding(g) \/ Popping(g) <=> Working(g)
  BY DEF Erasing, Adding, Popping, Working, HoldsPlace
<1>4. AnnouncedOnce'
  <2> SUFFICES ASSUME NEW i \in Depths', NEW j \in Depths', Working(stack'[i]), Working(stack'[j]),
                      stack'[i].of = stack'[j].of, stack'[i].child = stack'[j].child
               PROVE  i = j
    BY DEF AnnouncedOnce, Working, HoldsPlace, Adding
  <2>1. \A k \in 1..(n - 1) : Working(stack'[k]) =>
           ~(stack'[k].of = stack'[n].of /\ stack'[k].child = stack'[n].child)
    BY DEF About
  <2>2. i = n <=> j = n
    <3>1. ASSUME i = n, j \in 1..(n - 1)
          PROVE  FALSE
      BY <2>1, <3>1
    <3>2. ASSUME j = n, i \in 1..(n - 1)
          PROVE  FALSE
      BY <2>1, <3>2
    <3> QED BY <1>2, <3>1, <3>2
  <2> QED BY <1>1, <1>2, <2>2, StayingFrames
<1>5. AddedStay'
  <2> SUFFICES ASSUME NEW i \in Depths', NEW o \in Objects, NEW x \in Objects,
                      Adding(stack'[i]), About(stack'[i], o, x)
               PROVE  x \in ChildrenOf(o)'
    BY DEF AddedStay, Adding, About
  <2> QED BY <1>1, <1>2, StayingFrames
<1>6. TakenAreFree'
  <2> SUFFICES ASSUME NEW i \in Depths', Erasing(stack'[i])
               PROVE  parent[stack'[i].child] = None
    BY DEF TakenAreFree, Erasing
  <2>1. i \in 1..(n - 1)
    BY <1>2
  <2> QED BY ONLY ToldInv, <1>1, <1>2, <2>1, Erasing(stack'[i]), StayingFrames
<1>7. PoppedDie'
  <2> SUFFICES ASSUME NEW i \in Depths', NEW j \in Depths', i = j + 1,
                      stack'[i].call = "~Object", stack'[j].call = "~Object",
                      parent[stack'[i].of] = stack'[j].of
               PROVE  stack'[j].child = stack'[i].of
    BY DEF PoppedDie
  <2>1. j \in 1..(n - 1) /\ stack'[j] = stack[j] /\ i \in Depths /\ j \in Depths
    BY <1>2
  <2>2. stack'[i].of = stack[i].of /\ stack'[i].call = stack[i].call
    BY <1>2
  <2> QED BY <2>1, <2>2 DEF ToldInv, PoppedDie
<1>8. ToldAgrees'
  <2> SUFFICES ASSUME NEW o \in Objects, NEW x \in Objects
               PROVE  x \in told'[o] <=> Knows(o, x)'
    BY DEF ToldAgrees
  <2>1. x \in told[o] <=> Knows(o, x)
    BY DEF ToldInv, ToldAgrees
  <2>2. CASE o = p /\ x = c
    <3>1. \A i \in Depths' : ~(Erasing(stack'[i]) /\ About(stack'[i], o, x))
      BY <1>2, <1>3, <2>2
    <3>2. CASE told' = [told EXCEPT ![p] = @ \cup {c}] /\ c \in ChildrenOf(p) /\ ~Working(stack'[n])
      <4>1. x \in told'[o] /\ x \in ChildrenOf(o)'
        BY <1>1, <2>2, <3>2 DEF TypeOK
      <4>2. \A i \in Depths' : Adding(stack'[i]) \/ Popping(stack'[i]) => ~About(stack'[i], o, x)
        BY <1>2, <1>3, <2>2, <3>2
      <4>3. Knows(o, x)'
        BY <4>1, <4>2 DEF Knows, Adding, Popping, About
      <4> QED BY <4>1, <4>3
    <3>3. CASE /\ told' = [told EXCEPT ![p] = @ \ {c}]
               /\ c \notin ChildrenOf(p) \/ Popping(stack'[n])
      <4>1. x \notin told'[o]
        BY <1>1, <2>2, <3>3 DEF TypeOK
      <4>2. x \notin ChildrenOf(o)' \/ (n \in Depths' /\ Popping(stack'[n]) /\ About(stack'[n], o, x))
        BY <1>2, <2>2, <3>3
      <4>3. ~Knows(o, x)'
        BY <3>1, <4>2 DEF Knows, Erasing, Adding, Popping, About
      <4> QED BY <4>1, <4>3
    <3> QED BY <3>2, <3>3
  <2>3. CASE ~(o = p /\ x = c)
    <3>1. x \in told'[o] <=> x \in told[o]
      BY <1>1, <2>3 DEF TypeOK
    <3>2. ~About(stack'[n], o, x) /\ ~(Working(stack[n]) /\ About(stack[n], o, x))
      BY <2>3 DEF About
    <3> QED BY <1>2, <2>1, <3>1, <3>2, KnowsSame
  <2> QED BY <2>2, <2>3
<1> QED BY <1>4, <1>5, <1>6, <1>7, <1>8 DEF ToldInv

LEMMA AddChildGoesOnTells ==
    ASSUME ToldInv, AddChildGoesOn
    PROVE  ToldInv'
<1> DEFINE n == Len(stack)
<1>1. /\ TreeInv /\ TypeOK /\ stack # <<>> /\ Top \in Frames /\ Adding(Top)
      /\ Emits("childAdded", Top.child) /\ Announce(Top.of, Top.child)
      /\ parent' = parent /\ children' = children
  BY FrontPlaces DEF ToldInv, TreeInv, TypeOK, AddChildGoesOn, GoesOn, Top, Adding
<1>2. PICK p, c : p = Top.of /\ c = Top.child
  OBVIOUS
<1> DEFINE g == [Top EXCEPT !.emits = "childAdded", !.child = c]
<1>3. p \in Objects /\ c \in Objects /\ g.call = "addChild" /\ g.emits = "childAdded"
      /\ About(g, p, c) /\ About(Top, p, c)
  BY <1>1, <1>2 DEF Frames, Adding, About
<1>4. /\ n \in Nat \ {0} /\ Len(stack') = n
      /\ \A k \in 1..(n - 1) : stack'[k] = stack[k]
      /\ stack'[n] = g
  BY <1>1, <1>2, <1>3, Emitted, ObjectsAssumption DEF Same, Signals
<1>5. /\ stack[n] = Top /\ n \in Depths /\ \A k \in 1..(n - 1) : k \in Depths /\ k # n
      /\ g.call = stack[n].call /\ g.of = stack[n].of
  BY <1>1, <1>2, <1>3, <1>4 DEF Top, Last, Depths, About, Adding
<1>6. ~Erasing(g) /\ ~Adding(g) /\ ~Working(g)
  BY <1>3 DEF Erasing, Adding, Working, HoldsPlace
<1>7. Working(Top)
  BY <1>1 DEF Working
<1> HIDE DEF n, g
<1>8. \A k \in 1..(n - 1) : ~(Working(stack[k]) /\ About(stack[k], p, c))
  BY <1>3, <1>5, <1>7 DEF ToldInv, AnnouncedOnce, About
<1>9. c \in ChildrenOf(p)
  BY <1>1, <1>3, <1>5 DEF ToldInv, AddedStay
<1>10. told' = [told EXCEPT ![p] = @ \cup {c}]
  BY <1>1, <1>2 DEF Announce
<1>11. TreeInv' /\ \A q : ChildrenOf(q)' = ChildrenOf(q)
  BY <1>1, AddChildGoesOnKeeps DEF ChildrenOf
<1> QED
  BY <1>1, <1>3, <1>4, <1>5, <1>6, <1>8, <1>9, <1>10, <1>11, SignalTells DEF n

LEMMA TakeChildGoesOnTells ==
    ASSUME ToldInv, TakeChildGoesOn
    PROVE  ToldInv'
<1> DEFINE n == Len(stack)
<1>1. /\ TreeInv /\ TypeOK /\ stack # <<>> /\ Top \in Frames /\ Erasing(Top)
      /\ Emits("childRemoved", Top.child) /\ Withdraw(Top.of, Top.child) /\ parent' = parent
  BY FrontPlaces DEF ToldInv, TreeInv, TypeOK, TakeChildGoesOn, GoesOn, Top, Erasing
<1>2. PICK p, c : p = Top.of /\ c = Top.child
  OBVIOUS
<1> DEFINE g == [Top EXCEPT !.emits = "childRemoved", !.child = c]
<1>3. p \in Objects /\ c \in Objects /\ g.call = "takeChild" /\ g.emits = "childRemoved"
      /\ About(g, p, c) /\ About(Top, p, c)
  BY <1>1, <1>2 DEF Frames, Erasing, About
<1>4. /\ n \in Nat \ {0} /\ Len(stack') = n
      /\ \A k \in 1..(n - 1) : stack'[k] = stack[k]
      /\ stack'[n] = g
  BY <1>1, <1>2, <1>3, Emitted, ObjectsAssumption DEF Same, Signals
<1>5. /\ stack[n] = Top /\ n \in Depths /\ \A k \in 1..(n - 1) : k \in Depths /\ k # n
      /\ g.call = stack[n].call /\ g.of = stack[n].of
  BY <1>1, <1>2, <1>3, <1>4 DEF Top, Last, Depths, About, Erasing
<1>6. ~Erasing(g) /\ ~Adding(g)
  BY <1>3 DEF Erasing, Adding
<1>7. Working(Top)
  BY <1>1 DEF Working, HoldsPlace, Erasing
<1> HIDE DEF n, g
<1>8. \A k \in 1..(n - 1) : ~(Working(stack[k]) /\ About(stack[k], p, c))
  BY <1>3, <1>5, <1>7 DEF ToldInv, AnnouncedOnce, About
<1>9. c \notin ChildrenOf(p)
  <2>1. parent[c] = None
    BY <1>1, <1>2, <1>5 DEF ToldInv, TakenAreFree
  <2> QED BY <1>1, <1>3, <2>1, ChildrensParent
<1>10. told' = [told EXCEPT ![p] = @ \ {c}]
  BY <1>1, <1>2 DEF Withdraw
<1>11. TreeInv' /\ \A q, x \in Objects : x \in ChildrenOf(q)' <=> x \in ChildrenOf(q)
  BY <1>1, TakeChildGoesOnKeeps
<1> QED
  BY <1>1, <1>3, <1>4, <1>5, <1>6, <1>8, <1>9, <1>10, <1>11, SignalTells DEF n

(***************************************************************************)
(* ~Object announces the last child, which no call below has taken.        *)
(***************************************************************************)
LEMMA RemoveLastChildTells ==
    ASSUME ToldInv, RemoveLastChild
    PROVE  ToldInv'
<1> DEFINE n == Len(stack)
<1>1. /\ TreeInv /\ TypeOK /\ stack # <<>> /\ Top \in Frames /\ Top.call = "~Object"
      /\ ~Working(Top) /\ children[Top.of] # <<>>
      /\ Emits("childRemoved", Last(children[Top.of])) /\ Withdraw(Top.of, Last(children[Top.of]))
      /\ parent' = parent /\ children' = children
  BY FrontPlaces, ObjectsAssumption
  DEF ToldInv, TreeInv, TypeOK, RemoveLastChild, GoesOn, Top, Working, HoldsPlace, Adding, Signals
<1>2. PICK p, c : p = Top.of /\ c = Last(children[Top.of])
  OBVIOUS
<1>3. n \in Nat \ {0} /\ stack[n] = Top /\ Depths = 1..n /\ p \in Objects
  BY <1>1, <1>2, FrontPlaces DEF TypeOK, Top, Last, Depths, Frames
<1>4. \A k \in 1..(n - 1) : Working(stack[k]) => stack[k].of # p
  BY <1>1, <1>2, WorksAlone
<1>5. c \in Objects
  <2>1. Len(children[p]) \in Places(p) /\ c = children[p][Len(children[p])]
    BY <1>1, <1>2, <1>3, FrontPlaces DEF TypeOK, Places, Last
  <2>2. c # None
    <3>1. SUFFICES ASSUME c = None PROVE FALSE
      OBVIOUS
    <3>2. PICK i \in Depths : Erasing(stack[i]) /\ stack[i].of = p
      BY <1>1, <1>3, <2>1, <3>1 DEF TreeInv, NoneIsHeld
    <3>3. Working(stack[i])
      BY <3>2 DEF Working, HoldsPlace, Erasing
    <3> QED BY <1>1, <1>3, <1>4, <3>2, <3>3
  <2> QED BY <1>1, <1>3, <2>1, <2>2, Vectors
<1> DEFINE g == [Top EXCEPT !.emits = "childRemoved", !.child = c]
<1>6. g.call = "~Object" /\ g.emits = "childRemoved" /\ About(g, p, c) /\ g.of = p
  BY <1>1, <1>2 DEF Frames, About
<1>7. /\ Len(stack') = n
      /\ \A k \in 1..(n - 1) : stack'[k] = stack[k]
      /\ stack'[n] = g
  BY <1>1, <1>2, <1>5, Emitted DEF Same, Signals
<1>8. ~Erasing(g) /\ ~Adding(g) /\ Popping(g)
  BY <1>6 DEF Erasing, Adding, Popping
<1> HIDE DEF n, g
<1>9. \A k \in 1..(n - 1) : ~(Working(stack[k]) /\ About(stack[k], p, c))
  BY <1>4 DEF About
<1>10. told' = [told EXCEPT ![p] = @ \ {c}]
  BY <1>1, <1>2 DEF Withdraw
<1>11. TreeInv' /\ \A q : ChildrenOf(q)' = ChildrenOf(q)
  BY <1>1, RemoveLastChildKeeps DEF ChildrenOf
<1> QED
  BY <1>1, <1>2, <1>3, <1>5, <1>6, <1>7, <1>8, <1>9, <1>10, <1>11, SignalTells DEF n

LEMMA DestroyChildTells ==
    ASSUME ToldInv, DestroyChild
    PROVE  ToldInv'
<1> DEFINE n == Len(stack)
<1>1. /\ TreeInv /\ TypeOK /\ stack # <<>> /\ Popping(Top) /\ Top.call = "~Object"
      /\ TreeInv' /\ TypeOK' /\ PopsChild(Top.of, Top.child)
  BY DestroyChildKeeps DEF ToldInv, TreeInv, DestroyChild, GoesOn, Popping
<1>2. PICK p, d : p = Top.of /\ d = Top.child
  OBVIOUS
<1>3. /\ p \in Objects /\ d \in Objects /\ d \in ChildrenOf(p) /\ parent[d] = p
      /\ parent' = parent /\ told' = told
      /\ \A q, x \in Objects : x \in ChildrenOf(q)' <=> x \in ChildrenOf(q) /\ x # d
      /\ n \in Nat \ {0} /\ Len(stack') = n + 1
      /\ \A k \in 1..(n - 1) : stack'[k] = stack[k]
      /\ ~Working(stack'[n]) /\ ~Working(stack'[n + 1])
      /\ stack'[n].of = p /\ stack'[n].child = d /\ stack'[n + 1].of = d
  BY <1>1, <1>2 DEF PopsChild
<1>4. /\ stack[n] = Top /\ Depths = 1..n /\ Depths' = 1..(n + 1)
      /\ \A k \in 1..(n - 1) : k \in Depths /\ k \in Depths' /\ stack'[k] = stack[k]
      /\ \A k \in Depths : k \in 1..(n - 1) \/ k = n
      /\ \A k \in Depths' : k \in 1..(n - 1) \/ k = n \/ k = n + 1
  BY <1>3 DEF Depths, Top, Last
<1>5. \A k \in 1..(n - 1) : Working(stack[k]) => stack[k].of # p
  BY <1>1, <1>2, WorksAlone
<1> HIDE DEF n
<1>6. \A k \in Depths' : Working(stack'[k]) => k \in 1..(n - 1)
  BY <1>3, <1>4
<1>7. \A g : Erasing(g) \/ Adding(g) \/ Popping(g) <=> Working(g)
  BY DEF Erasing, Adding, Popping, Working, HoldsPlace
<1>8. AnnouncedOnce'
  <2> SUFFICES ASSUME NEW i \in Depths', NEW j \in Depths', Working(stack'[i]), Working(stack'[j]),
                      stack'[i].of = stack'[j].of, stack'[i].child = stack'[j].child
               PROVE  i = j
    BY DEF AnnouncedOnce, Working, HoldsPlace, Adding
  <2> QED BY <1>1, <1>4, <1>6, StayingFrames
<1>9. AddedStay'
  <2> SUFFICES ASSUME NEW i \in Depths', NEW o \in Objects, NEW x \in Objects,
                      Adding(stack'[i]), About(stack'[i], o, x)
               PROVE  x \in ChildrenOf(o)'
    BY DEF AddedStay, Adding, About
  <2>1. i \in 1..(n - 1) /\ x \in ChildrenOf(o)
    BY <1>1, <1>4, <1>6, <1>7, StayingFrames
  <2>2. o # p
    BY <1>4, <1>5, <1>7, <2>1 DEF About
  <2>3. parent[x] = o
    BY <1>1, <2>1, ChildrensParent
  <2> QED BY <1>3, <2>1, <2>2, <2>3
<1>10. TakenAreFree'
  <2> SUFFICES ASSUME NEW i \in Depths', Erasing(stack'[i])
               PROVE  parent[stack'[i].child] = None
    BY <1>3 DEF TakenAreFree, Erasing
  <2>1. i \in 1..(n - 1)
    BY <1>6, <1>7
  <2>2. \A k \in 1..(n - 1) : k \in Depths /\ k \in Depths' /\ stack'[k] = stack[k]
    BY <1>4
  <2>3. TypeOK'
    BY <1>1
  <2> QED BY ONLY ToldInv, <2>1, <2>2, <2>3, Erasing(stack'[i]), StayingFrames
<1>11. PoppedDie'
  <2> SUFFICES ASSUME NEW i \in Depths', NEW j \in Depths', i = j + 1,
                      stack'[i].call = "~Object", stack'[j].call = "~Object",
                      parent[stack'[i].of] = stack'[j].of
               PROVE  stack'[j].child = stack'[i].of
    BY <1>3 DEF PoppedDie
  <2>1. CASE i = n + 1
    BY <1>3, <1>4, <2>1
  <2>2. CASE i # n + 1
    <3>1. j \in 1..(n - 1) /\ i \in Depths /\ j \in Depths /\ stack'[j] = stack[j]
      BY <1>3, <1>4, <2>2
    <3>2. stack[i].of = stack'[i].of /\ stack[i].call = "~Object"
      BY <1>1, <1>2, <1>3, <1>4, <2>2
    <3> QED BY <3>1, <3>2 DEF ToldInv, PoppedDie
  <2> QED BY <2>1, <2>2
<1>12. ToldAgrees'
  <2> SUFFICES ASSUME NEW o \in Objects, NEW x \in Objects
               PROVE  x \in told[o] <=> Knows(o, x)'
    BY <1>3 DEF ToldAgrees
  <2>1. x \in told[o] <=> Knows(o, x)
    BY DEF ToldInv, ToldAgrees
  <2>2. CASE o = p /\ x = d
    <3>1. \A k \in Depths : ~(Erasing(stack[k]) /\ About(stack[k], o, x))
      BY <1>1, <1>4, <1>5, <1>7, <2>2 DEF About, Erasing
    <3>2. ~Knows(o, x)
      BY <1>1, <1>2, <1>3, <1>4, <2>2, <3>1 DEF Knows, About
    <3>3. \A k \in Depths' : ~(Erasing(stack'[k]) /\ About(stack'[k], o, x))
      BY <1>4, <1>6, <1>7, <3>1
    <3>4. x \notin ChildrenOf(o)'
      BY <1>3, <2>2
    <3>5. ~Knows(o, x)'
      BY <3>3, <3>4 DEF Knows, Erasing, About
    <3> QED BY <2>1, <3>2, <3>5
  <2>3. CASE ~(o = p /\ x = d)
    <3>1. x \in ChildrenOf(o)' <=> x \in ChildrenOf(o)
      <4>1. x = d /\ x \in ChildrenOf(o) => o = p
        BY <1>1, <1>3, ChildrensParent
      <4> QED BY <1>3, <2>3, <4>1
    <3>2. \A k \in Depths : k \in 1..(n - 1) \/ ~(Working(stack[k]) /\ About(stack[k], o, x))
      BY <1>2, <1>4, <2>3 DEF About
    <3> QED BY <1>4, <1>6, <2>1, <3>1, <3>2, KnowsSame
  <2> QED BY <2>2, <2>3
<1> QED BY <1>1, <1>8, <1>9, <1>10, <1>11, <1>12 DEF ToldInv

LEMMA InitTold == Init => ToldInv
<1> SUFFICES ASSUME Init PROVE ToldInv
  OBVIOUS
<1>1. TreeInv /\ Depths = {} /\ \A p \in Objects : Places(p) = {}
  BY InitTree, EmptySeq DEF Init, Depths, Places
<1>2. \A o, x \in Objects : x \notin ChildrenOf(o) /\ x \notin told[o]
  BY <1>1, Children DEF Init, TreeInv
<1> QED
  BY <1>1, <1>2
  DEF ToldInv, AnnouncedOnce, AddedStay, TakenAreFree, PoppedDie, ToldAgrees, Knows

LEMMA NextTold == ToldInv /\ [Next]_vars => ToldInv'
<1> SUFFICES ASSUME ToldInv, [Next]_vars PROVE ToldInv'
  OBVIOUS
<1>t. TreeInv'
  BY NextTree DEF ToldInv
<1>1. CASE \E p, c \in Objects : AddChild(p, c) \/ TakeChild(p, c)
  BY <1>1, AddChildTells, TakeChildTells
<1>2. CASE AddChildGoesOn
  BY <1>2, AddChildGoesOnTells
<1>3. CASE AddChildReturns
  <2>1. ~Working(Top)
    BY <1>3 DEF AddChildReturns, GoesOn, Working, HoldsPlace, Adding
  <2> QED BY <1>t, <1>3, <2>1, ReturnTells DEF AddChildReturns, GoesOn
<1>4. CASE TakeChildGoesOn
  BY <1>4, TakeChildGoesOnTells
<1>5. CASE TakeChildReturns
  <2>1. ~Working(Top)
    BY <1>5 DEF TakeChildReturns, GoesOn, Working, HoldsPlace, Adding
  <2> QED BY <1>t, <1>5, <2>1, ReturnTells DEF TakeChildReturns, GoesOn
<1>6. CASE \E o \in Objects : Destroy(o)
  BY <1>6, DestroyTells
<1>7. CASE RemoveLastChild
  BY <1>7, RemoveLastChildTells
<1>8. CASE DestroyChild
  BY <1>8, DestroyChildTells
<1>9. CASE DestroyEnds
  <2>1. ~Working(Top)
    BY <1>9, ObjectsAssumption DEF DestroyEnds, GoesOn, Working, HoldsPlace, Adding, Signals
  <2> QED BY <1>t, <1>9, <2>1, ReturnTells DEF DestroyEnds, GoesOn
<1>10. CASE UNCHANGED vars
  <2>1. /\ parent' = parent /\ children' = children /\ stack' = stack /\ told' = told
    BY <1>10 DEF vars
  <2>2. AnnouncedOnce' /\ PoppedDie' /\ TakenAreFree'
    BY <2>1 DEF ToldInv, AnnouncedOnce, PoppedDie, TakenAreFree, Depths, Working, HoldsPlace,
                Adding, Erasing
  <2>3. AddedStay' /\ ToldAgrees'
    BY <2>1 DEF ToldInv, AddedStay, ToldAgrees, Knows, About, Depths, ChildrenOf, Adding,
                Erasing, Popping
  <2> QED BY <1>t, <2>2, <2>3 DEF ToldInv
<1> QED BY <1>1, <1>2, <1>3, <1>4, <1>5, <1>6, <1>7, <1>8, <1>9, <1>10 DEF Next

(***************************************************************************)
(* For any objects and any slots: between calls, who followed childAdded   *)
(* and childRemoved knows the children of every living object, and no      *)
(* vector holds a pointer that was moved from.                             *)
(***************************************************************************)
THEOREM ListenersAreTold == Spec => []ListenersAgree
<1>1. ToldInv => ListenersAgree
  <2> SUFFICES ASSUME ToldInv, stack = <<>>, NEW o \in alive
               PROVE  told[o] = ToSet(children[o])
    BY DEF ListenersAgree
  <2>1. o \in Objects /\ told[o] \subseteq Objects /\ TypeOK /\ Depths = {}
    BY EmptySeq DEF ToldInv, TreeInv, TypeOK, Depths
  <2>2. \A x \in Objects : x \in told[o] <=> x \in ChildrenOf(o)
    BY <2>1 DEF ToldInv, ToldAgrees, Knows
  <2>3. \A k \in Places(o) : children[o][k] \in Objects
    BY <2>1, Vectors DEF ToldInv, TreeInv, NoneIsHeld
  <2>4. DOMAIN children[o] = Places(o)
    BY <2>1, Vectors
  <2>5. ToSet(children[o]) \subseteq Objects
    BY <2>3, <2>4 DEF ToSet
  <2> QED BY <2>1, <2>2, <2>5, ObjectsAssumption DEF ChildrenOf
<1> QED BY <1>1, InitTold, NextTold, PTL DEF Spec

(***************************************************************************)
(* And a child that dies by its parent's hand was announced before, as the *)
(* last one.                                                               *)
(***************************************************************************)
THEOREM NoneDiesUnannounced == Spec => [][AnnouncedDies]_vars
<1>1. ToldInv /\ [Next]_vars => [AnnouncedDies]_vars
  <2> SUFFICES ASSUME ToldInv, Next, NEW c \in alive \ alive', parent[c] # None
               PROVE  c \notin told[parent[c]] /\ stack[Len(stack) - 1].child = c
    BY DEF AnnouncedDies
  <2>1. DestroyEnds
    BY DEF Next, AddChild, TakeChild, AddChildGoesOn, AddChildReturns, TakeChildGoesOn,
           TakeChildReturns, Destroy, RemoveLastChild, DestroyChild
  <2>2. PICK q : q = parent[c]
    OBVIOUS
  <2>3. /\ c = Top.of /\ Top.call = "~Object" /\ TypeOK /\ TreeInv /\ c \in Objects
        /\ stack # <<>>
    BY <2>1 DEF DestroyEnds, GoesOn, ToldInv, TreeInv, TypeOK
  <2>4. Len(stack) \in Nat \ {0} /\ Top = stack[Len(stack)] /\ Len(stack) \in Depths
    BY <2>3, FrontPlaces DEF TypeOK, Top, Last, Depths
  <2>5. q \in Objects /\ c \notin ChildrenOf(q)
    BY <2>2, <2>3, <2>4 DEF TreeInv, ParentsOwn, TypeOK, DyingUnowned
  <2>6. PICK i \in 2..Len(stack) : /\ stack[i].call = "~Object" /\ stack[i].of = c
                                   /\ stack[i - 1].call = "~Object" /\ stack[i - 1].of = q
    BY <2>2, <2>3, <2>5 DEF TreeInv, ParentsOwn, DestroyedBy
  <2>7. i = Len(stack)
    <3>1. i \in Depths
      BY <2>4 DEF Depths
    <3> QED BY <2>3, <2>4, <2>6, <3>1 DEF TreeInv, DyingOnce
  <2>8. stack[i - 1].child = c
    <3>1. i - 1 \in Depths /\ i = (i - 1) + 1
      BY <2>4, <2>6 DEF Depths
    <3> QED BY <2>2, <2>4, <2>6, <2>7, <3>1 DEF ToldInv, PoppedDie
  <2>9. ~Knows(q, c)
    BY <2>2, <2>5 DEF ToldInv, TakenAreFree, Knows, About
  <2>10. c \notin told[q]
    BY <2>3, <2>5, <2>9 DEF ToldInv, ToldAgrees
  <2> QED BY <2>2, <2>7, <2>8, <2>10
<1> QED BY <1>1, InitTold, NextTold, PTL DEF Spec
-----------------------------------------------------------------------------
(***************************************************************************)
(* The postman: while the handler of a filter runs that has not changed    *)
(* the filters, the event was shown to those up to it.                     *)
(***************************************************************************)
ShownInOrder ==
    stage = "filter" /\ ~changed =>
        at \in 1..Len(filters) /\ asked = SubSeq(filters, 1, at)

PostInv == Post!TypeOK /\ ShownInOrder

LEMMA LeastNumber ==
    ASSUME NEW I \in SUBSET Nat, I # {}
    PROVE  \E x \in I : \A y \in I : x <= y
<1> DEFINE R == OpToRel(<, Nat)
<1>1. IsWellFoundedOn(R, Nat)
  BY NatLessThanWellFounded
<1>2. \A x, y \in Nat : <<y, x>> \in R <=> y < x
  BY DEF OpToRel
<1> HIDE DEF R
<1>3. \E x \in I : \A y \in I : ~ (<<y, x>> \in R)
  <2>1. I \subseteq Nat
    OBVIOUS
  <2> QED BY ONLY Zenon, <2>1, <1>1, WFMin, I # {}
<1>4. \A x \in I : x \in Nat
  OBVIOUS
<1>5. PICK x \in I : \A y \in I : ~ (<<y, x>> \in R)
  BY <1>3
<1>6. \A y \in I : x <= y
  <2> TAKE y \in I
  <2>1. ~ (y < x)
    BY <1>2, <1>4, <1>5
  <2>2. x \in Nat /\ y \in Nat
    BY <1>4
  <2> QED BY ONLY <2>1, <2>2
<1> QED BY <1>6

LEMMA FirstIsRemoved ==
    ASSUME NEW S, NEW s \in Seq(S), NEW e
    PROVE  Post!RemoveFirst(s, e) \in Seq(S) /\ Len(Post!RemoveFirst(s, e)) <= Len(s)
<1>1. Len(s) \in Nat
  OBVIOUS
<1>2. CASE \E i \in 1..Len(s) : s[i] = e
  <2> DEFINE P(i) == i \in 1..Len(s) /\ s[i] = e
             I == {i \in 1..Len(s) : s[i] = e}
             k == Post!SelectInSeq(s, LAMBDA v : v = e)
  <2>1. k = Post!Min(I)
    BY <1>2 DEF Post!SelectInSeq
  <2>2. I \in SUBSET Nat /\ I # {}
    BY <1>2
  <2>3. \E x \in I : \A y \in I : x <= y
    BY <2>2, LeastNumber
  <2>4. k \in 1..Len(s)
    BY <2>1, <2>3 DEF Post!Min
  <2>5. Post!RemoveFirst(s, e) = SubSeq(s, 1, k - 1) \o SubSeq(s, k + 1, Len(s))
    BY <1>2 DEF Post!RemoveFirst, Post!RemoveAt
  <2> HIDE DEF k
  <2> \A i \in 1..Len(s) : s[i] \in S
    OBVIOUS
  <2>6. SubSeq(s, 1, k - 1) \in Seq(S) /\ Len(SubSeq(s, 1, k - 1)) = k - 1
    BY <2>4, <1>1, SubSeqProperties
  <2>7. /\ SubSeq(s, k + 1, Len(s)) \in Seq(S)
        /\ Len(SubSeq(s, k + 1, Len(s))) = Len(s) - k
    BY <2>4, <1>1, SubSeqProperties
  <2>8. /\ Post!RemoveFirst(s, e) \in Seq(S)
        /\ Len(Post!RemoveFirst(s, e)) =
             Len(SubSeq(s, 1, k - 1)) + Len(SubSeq(s, k + 1, Len(s)))
    BY <2>5, <2>6, <2>7, ConcatProperties
  <2>9. k \in Int /\ 1 <= k
    BY ONLY <2>4, <1>1
  <2>10. Len(Post!RemoveFirst(s, e)) = (k - 1) + (Len(s) - k)
    BY ONLY Zenon, <2>6, <2>7, <2>8
  <2>11. Len(Post!RemoveFirst(s, e)) <= Len(s)
    BY ONLY <2>10, <2>9, <1>1
  <2> QED BY <2>8, <2>11
<1>3. CASE ~ \E i \in 1..Len(s) : s[i] = e
  BY <1>1, <1>3 DEF Post!RemoveFirst
<1> QED BY <1>2, <1>3

LEMMA OneMoreShown ==
    ASSUME Post!TypeOK, NEW i \in 0..Len(filters), i < Len(filters)
    PROVE  /\ Append(SubSeq(filters, 1, i), filters[i + 1]) = SubSeq(filters, 1, i + 1)
           /\ SubSeq(filters, 1, i + 1) \in Seq(Filters)
<1>1. filters \in Seq(Filters) /\ Len(filters) \in Nat
  BY DEF Post!TypeOK
<1>2. i + 1 \in 1..Len(filters) /\ (i + 1) - 1 = i
  BY <1>1
<1>3. SubSeq(filters, 1, i + 1) = SubSeq(filters, 1, i) \o <<filters[i + 1]>>
  <2>1. 1 \in 1..Len(filters) /\ i + 1 \in 1..Len(filters)
    BY <1>1, <1>2
  <2>2. SubSeq(filters, 1, i + 1) = SubSeq(filters, 1, (i + 1) - 1) \o <<filters[i + 1]>>
    BY ONLY <2>1, <1>1, SubSeqRecursiveSecond
  <2> QED BY ONLY <2>2, <1>2
<1>4. \A j \in 1..Len(filters) : filters[j] \in Filters
  BY <1>1
<1>5. SubSeq(filters, 1, i) \in Seq(Filters) /\ SubSeq(filters, 1, i + 1) \in Seq(Filters)
  BY <1>1, <1>2, <1>4, SubSeqProperties
<1>6. Append(SubSeq(filters, 1, i), filters[i + 1]) = SubSeq(filters, 1, i) \o <<filters[i + 1]>>
  BY <1>2, <1>4, <1>5, AppendIsConcat
<1> QED BY <1>3, <1>5, <1>6

(* The loop over the filters goes on as it began.                          *)
LEMMA AsksInOrder ==
    ASSUME Post!TypeOK, NEW i \in 0..Len(filters),
           Post!Asks(i, SubSeq(filters, 1, i)), UNCHANGED <<filters, changed>>
    PROVE  PostInv' /\ Post!FiltersGoFirst
<1>1. /\ filters \in Seq(Filters) /\ Len(filters) \in 0..MaxFilters
      /\ filters' = filters /\ changed' \in BOOLEAN /\ MaxFilters \in Nat
  BY LibraryAssumption DEF Post!TypeOK
<1>2. CASE i < Len(filters)
  <2>1. /\ stage' = "filter" /\ at' = i + 1
        /\ asked' = SubSeq(filters, 1, i + 1) /\ asked' \in Seq(Filters)
    BY <1>2, OneMoreShown DEF Post!Asks
  <2>2. i + 1 \in 1..Len(filters) /\ i + 1 \in 0..MaxFilters
    BY <1>1, <1>2
  <2>3. Post!TypeOK'
    BY ONLY <1>1, <2>1, <2>2 DEF Post!TypeOK
  <2>4. ShownInOrder'
    BY ONLY <1>1, <2>1, <2>2 DEF ShownInOrder
  <2>5. Post!FiltersGoFirst
    BY ONLY <2>1 DEF Post!FiltersGoFirst
  <2> QED BY <2>3, <2>4, <2>5 DEF PostInv
<1>3. CASE ~(i < Len(filters))
  <2>1. i = Len(filters)
    BY <1>1, <1>3
  <2>2. SubSeq(filters, 1, i) = filters
    BY <1>1, <2>1, SubSeqFull
  <2>3. stage' = "target" /\ at' = 0 /\ asked' = filters
    BY <1>3, <2>2 DEF Post!Asks
  <2>4. Post!TypeOK'
    BY ONLY <1>1, <2>3 DEF Post!TypeOK
  <2>5. ShownInOrder' /\ Post!FiltersGoFirst
    BY ONLY <2>3 DEF ShownInOrder, Post!FiltersGoFirst
  <2> QED BY <2>4, <2>5 DEF PostInv
<1> QED BY <1>2, <1>3

LEMMA PostStep ==
    ASSUME PostInv, [Post!Next]_postVars
    PROVE  PostInv' /\ Post!FiltersGoFirst
<1>0. Post!TypeOK /\ ShownInOrder
  BY DEF PostInv
<1>1. /\ filters \in Seq(Filters) /\ Len(filters) \in Nat /\ Len(filters) <= MaxFilters
      /\ stage \in {"idle", "filter", "target"} /\ at \in 0..MaxFilters
      /\ changed \in BOOLEAN /\ asked \in Seq(Filters) /\ MaxFilters \in Nat
  BY <1>0, LibraryAssumption DEF Post!TypeOK
<1>2. CASE Post!DeliverEvent
  <2>1. SubSeq(filters, 1, 0) = <<>>
    BY SubSeqEmpty
  <2>2. Post!Asks(0, SubSeq(filters, 1, 0)) /\ UNCHANGED <<filters, changed>>
    BY <1>2, <2>1 DEF Post!DeliverEvent
  <2>3. 0 \in 0..Len(filters)
    BY <1>1
  <2> QED BY <1>0, <2>2, <2>3, AsksInOrder
<1>3. CASE Post!FilterPasses
  <2>1. /\ stage = "filter" /\ ~changed
        /\ Post!Asks(at, asked) /\ UNCHANGED <<filters, changed>>
    BY <1>3 DEF Post!FilterPasses
  <2>2. at \in 1..Len(filters) /\ asked = SubSeq(filters, 1, at)
    BY <1>0, <2>1 DEF ShownInOrder
  <2>3. at \in 0..Len(filters)
    BY <1>1, <2>2
  <2> QED BY <1>0, <2>1, <2>2, <2>3, AsksInOrder
<1>4. CASE Post!FilterAccepts
  <2>1. /\ stage' = "idle" /\ at' = 0 /\ changed' = FALSE
        /\ filters' = filters /\ asked' = asked
    BY <1>4 DEF Post!FilterAccepts
  <2>2. changed' \in BOOLEAN /\ 0 \in 0..MaxFilters
    <3>1. changed' \in BOOLEAN
      BY Zenon, <2>1
    <3> QED BY <3>1, <1>1
  <2> QED BY ONLY <1>1, <2>1, <2>2
          DEF PostInv, Post!TypeOK, ShownInOrder, Post!FiltersGoFirst
<1>5. CASE Post!TargetReturns
  BY <1>1, <1>5
  DEF Post!TargetReturns, PostInv, Post!TypeOK, ShownInOrder, Post!FiltersGoFirst
<1>6. ASSUME NEW f \in Filters, Post!AddFilter(f) PROVE PostInv' /\ Post!FiltersGoFirst
  <2>1. filters' \in Seq(Filters) /\ Len(filters') = Len(filters) + 1
    BY <1>1, <1>6, AppendProperties DEF Post!AddFilter
  <2>2. Len(filters) < MaxFilters /\ UNCHANGED <<stage, at, asked>>
    BY <1>6 DEF Post!AddFilter
  <2>3. changed' \in BOOLEAN /\ (stage = "filter" => changed')
    BY Zenon, <1>6 DEF Post!AddFilter
  <2> QED BY <1>1, <2>1, <2>2, <2>3
          DEF PostInv, Post!TypeOK, ShownInOrder, Post!FiltersGoFirst
<1>7. ASSUME NEW f \in Filters, Post!RemoveFilter(f) PROVE PostInv' /\ Post!FiltersGoFirst
  <2>1. filters' \in Seq(Filters) /\ Len(filters') <= Len(filters)
    BY <1>1, <1>7, FirstIsRemoved DEF Post!RemoveFilter
  <2>2. UNCHANGED <<stage, at, asked>>
    BY <1>7 DEF Post!RemoveFilter
  <2>3. changed' \in BOOLEAN /\ (stage = "filter" => changed')
    BY Zenon, <1>1, <1>7 DEF Post!RemoveFilter
  <2>4. Len(filters') <= MaxFilters
    <3>1. Len(filters') \in Nat
      BY <2>1
    <3> QED BY ONLY <1>1, <2>1, <3>1
  <2> QED BY <1>1, <2>1, <2>2, <2>3, <2>4
          DEF PostInv, Post!TypeOK, ShownInOrder, Post!FiltersGoFirst
<1>8. CASE UNCHANGED postVars
  BY <1>0, <1>8 DEF postVars, PostInv, Post!TypeOK, ShownInOrder, Post!FiltersGoFirst
<1> QED BY <1>2, <1>3, <1>4, <1>5, <1>6, <1>7, <1>8 DEF Post!Next

LEMMA PostmanIsRight ==
    Post!Spec => [](Post!TypeOK) /\ [][Post!FiltersGoFirst]_postVars
<1>1. Post!Init => PostInv
  <2> SUFFICES ASSUME Post!Init PROVE PostInv
    OBVIOUS
  <2>1. /\ filters = <<>> /\ stage = "idle" /\ at = 0 /\ changed = FALSE /\ asked = <<>>
        /\ Len(filters) = 0
    BY DEF Post!Init
  <2>2. changed \in BOOLEAN
    BY Zenon, <2>1
  <2> QED BY <2>1, <2>2, LibraryAssumption DEF PostInv, Post!TypeOK, ShownInOrder
<1>2. PostInv /\ [Post!Next]_postVars => PostInv' /\ [Post!FiltersGoFirst]_postVars
  BY PostStep
<1>3. PostInv => Post!TypeOK
  BY DEF PostInv
<1>4. Post!Spec <=> Post!Init /\ [][Post!Next]_postVars
  BY DEF Post!Spec, Post!vars, postVars
<1> QED BY <1>1, <1>2, <1>3, <1>4, PTL
-----------------------------------------------------------------------------
(***************************************************************************)
(* The destruction helpers: what the program wants, what the manager of    *)
(* each container knows and what is connected are the same pairs, and a    *)
(* handle follows the property until its container is destroyed.           *)
(***************************************************************************)
Known(m, c, d) ==
    /\ <<c, d>> \in wanted <=> <<c, d>> \in depSlots
    /\ <<c, d>> \in wanted => c \in living /\ d \in living /\ <<c, d>> \in contSlots
    /\ <<c, d>> \in depToCont[m] <=> (<<c, d>> \in depSlots /\ m = c)
    /\ <<c, d>> \in contToDep[m] <=> (<<c, d>> \in contSlots /\ m = c)

ManagersKnow == \A m, c \in Containers, d \in Dependencies : Known(m, c, d)

HandlesFollow ==
    \A c \in Containers :
        /\ handle[c] = IF c \in living THEN property[c] ELSE None
        /\ handle[c] # None => handle[c] \in living

HelpersInv == Helpers!TypeOK /\ ManagersKnow /\ HandlesFollow

LEMMA ErasedPairs ==
    ASSUME NEW known \in [Containers -> SUBSET Helpers!Pairs], NEW pairs \in SUBSET Helpers!Pairs
    PROVE  /\ Helpers!Erased(known, pairs) \in [Containers -> SUBSET Helpers!Pairs]
           /\ \A m, c \in Containers, d \in Dependencies :
                 <<c, d>> \in Helpers!Erased(known, pairs)[m] <=>
                     <<c, d>> \in known[m] /\ ~(<<c, d>> \in pairs /\ m = c)
<1> DEFINE E == Helpers!Erased(known, pairs)
           gone(m) == {p \in pairs : [x \in Containers |-> x][p[1]] = m}
<1>1. E = [m \in Containers |-> known[m] \ gone(m)]
  BY DEF Helpers!Erased
<1>2. \A m, c \in Containers, d \in Dependencies :
         <<c, d>> \in gone(m) <=> <<c, d>> \in pairs /\ m = c
  OBVIOUS
<1> HIDE DEF gone, E
<1>3. \A m \in Containers : E[m] = known[m] \ gone(m) /\ known[m] \in SUBSET Helpers!Pairs
  BY <1>1
<1>4. \A m \in Containers : known[m] \ gone(m) \in SUBSET Helpers!Pairs
  BY <1>3
<1>5. E \in [Containers -> SUBSET Helpers!Pairs]
  BY <1>1, <1>4
<1>6. \A m, c \in Containers, d \in Dependencies :
         <<c, d>> \in E[m] <=> <<c, d>> \in known[m] /\ ~(<<c, d>> \in pairs /\ m = c)
  <2> TAKE m, c \in Containers, d \in Dependencies
  <2>1. <<c, d>> \in gone(m) <=> <<c, d>> \in pairs /\ m = c
    BY <1>2
  <2>2. E[m] = known[m] \ gone(m)
    BY <1>3
  <2> QED BY ONLY <2>1, <2>2
<1> QED BY <1>5, <1>6 DEF E

LEMMA RegisteredPairs ==
    ASSUME NEW known \in [Containers -> SUBSET Helpers!Pairs],
           NEW b \in Containers, NEW e \in Dependencies
    PROVE  /\ Helpers!Registered(known, b, e) \in [Containers -> SUBSET Helpers!Pairs]
           /\ \A m, c \in Containers, d \in Dependencies :
                 <<c, d>> \in Helpers!Registered(known, b, e)[m] <=>
                     <<c, d>> \in known[m] \/ (m = b /\ c = b /\ d = e)
<1> DEFINE R == Helpers!Registered(known, b, e)
<1>1. R = [known EXCEPT ![b] = known[b] \cup {<<b, e>>}]
  BY DEF Helpers!Registered
<1> HIDE DEF R
<1>2. known[b] \cup {<<b, e>>} \in SUBSET Helpers!Pairs
  BY DEF Helpers!Pairs
<1>3. R \in [Containers -> SUBSET Helpers!Pairs]
  BY <1>1, <1>2
<1>4. \A m \in Containers : R[m] = IF m = b THEN known[b] \cup {<<b, e>>} ELSE known[m]
  BY <1>1
<1>5. \A m, c \in Containers, d \in Dependencies :
         <<c, d>> \in R[m] <=> <<c, d>> \in known[m] \/ (m = b /\ c = b /\ d = e)
  BY <1>4
<1> QED BY <1>3, <1>5 DEF R

HelpersTyped ==
    /\ living \subseteq Containers \cup Dependencies
    /\ wanted \in SUBSET Helpers!Pairs /\ depSlots \in SUBSET Helpers!Pairs
    /\ contSlots \in SUBSET Helpers!Pairs /\ cleaned \in SUBSET Helpers!Pairs
    /\ depToCont \in [Containers -> SUBSET Helpers!Pairs]
    /\ contToDep \in [Containers -> SUBSET Helpers!Pairs]
    /\ property \in [Containers -> Dependencies \cup {None}]
    /\ handle \in [Containers -> Dependencies \cup {None}]

LEMMA HelperTypes == Helpers!TypeOK <=> HelpersTyped
BY DEF Helpers!TypeOK, HelpersTyped

LEMMA HelperTypesNext == Helpers!TypeOK' <=> HelpersTyped'
BY HelperTypes, PTL

LEMMA RegisterStep ==
    ASSUME HelpersInv, NEW b \in Containers, NEW e \in Dependencies, Helpers!Register(b, e)
    PROVE  HelpersInv' /\ Helpers!CleansUpTheLiving
<1>0. HelpersTyped /\ ManagersKnow /\ HandlesFollow
  BY HelperTypes DEF HelpersInv
<1>1. /\ {b, e} \subseteq living
      /\ wanted' = wanted \cup {<<b, e>>}
      /\ depSlots' = depSlots \cup {<<b, e>>}
      /\ contSlots' = contSlots \cup {<<b, e>>}
      /\ depToCont' = Helpers!Registered(depToCont, b, e)
      /\ contToDep' = Helpers!Registered(contToDep, b, e)
      /\ living' = living /\ property' = property /\ handle' = handle /\ cleaned' = cleaned
  BY DEF Helpers!Register
<1>2. /\ depToCont' \in [Containers -> SUBSET Helpers!Pairs]
      /\ contToDep' \in [Containers -> SUBSET Helpers!Pairs]
  BY <1>0, <1>1, RegisteredPairs DEF HelpersTyped
<1>3. \A m, c \in Containers, d \in Dependencies :
         <<c, d>> \in depToCont'[m] <=> <<c, d>> \in depToCont[m] \/ (m = b /\ c = b /\ d = e)
  <2>1. depToCont \in [Containers -> SUBSET Helpers!Pairs]
    BY <1>0 DEF HelpersTyped
  <2> TAKE m, c \in Containers, d \in Dependencies
  <2>2. <<c, d>> \in Helpers!Registered(depToCont, b, e)[m] <=>
            <<c, d>> \in depToCont[m] \/ (m = b /\ c = b /\ d = e)
    BY ONLY <2>1, RegisteredPairs, b \in Containers, e \in Dependencies,
       m \in Containers, c \in Containers, d \in Dependencies
  <2>3. depToCont' = Helpers!Registered(depToCont, b, e)
    BY <1>1
  <2> QED BY ONLY <2>2, <2>3
<1>9. \A m, c \in Containers, d \in Dependencies :
         <<c, d>> \in contToDep'[m] <=> <<c, d>> \in contToDep[m] \/ (m = b /\ c = b /\ d = e)
  <2>1. contToDep \in [Containers -> SUBSET Helpers!Pairs]
    BY <1>0 DEF HelpersTyped
  <2> TAKE m, c \in Containers, d \in Dependencies
  <2>2. <<c, d>> \in Helpers!Registered(contToDep, b, e)[m] <=>
            <<c, d>> \in contToDep[m] \/ (m = b /\ c = b /\ d = e)
    BY ONLY <2>1, RegisteredPairs, b \in Containers, e \in Dependencies,
       m \in Containers, c \in Containers, d \in Dependencies
  <2>3. contToDep' = Helpers!Registered(contToDep, b, e)
    BY <1>1
  <2> QED BY ONLY <2>2, <2>3
<1>4. HelpersTyped'
  BY <1>0, <1>1, <1>2 DEF HelpersTyped, Helpers!Pairs
<1>5. ManagersKnow'
  <2> SUFFICES ASSUME NEW m \in Containers, NEW c \in Containers, NEW d \in Dependencies
               PROVE  Known(m, c, d)'
    BY DEF ManagersKnow
  <2>0. Known(m, c, d)
    BY <1>0 DEF ManagersKnow
  <2>1. /\ <<c, d>> \in wanted' <=> <<c, d>> \in wanted \/ (c = b /\ d = e)
        /\ <<c, d>> \in depSlots' <=> <<c, d>> \in depSlots \/ (c = b /\ d = e)
        /\ <<c, d>> \in contSlots' <=> <<c, d>> \in contSlots \/ (c = b /\ d = e)
        /\ living' = living /\ b \in living /\ e \in living
    BY <1>1
  <2>2. /\ <<c, d>> \in depToCont'[m] <=> <<c, d>> \in depToCont[m] \/ (m = b /\ c = b /\ d = e)
        /\ <<c, d>> \in contToDep'[m] <=> <<c, d>> \in contToDep[m] \/ (m = b /\ c = b /\ d = e)
    BY <1>3, <1>9
  <2> QED BY ONLY <2>0, <2>1, <2>2 DEF Known
<1>6. HandlesFollow'
  BY <1>0, <1>1 DEF HandlesFollow
<1>7. Helpers!CleansUpTheLiving
  BY <1>1 DEF Helpers!CleansUpTheLiving
<1> QED BY <1>4, <1>5, <1>6, <1>7, HelperTypesNext DEF HelpersInv

LEMMA UnregisterStep ==
    ASSUME HelpersInv, NEW b \in Containers, NEW e \in Dependencies, Helpers!Unregister(b, e)
    PROVE  HelpersInv' /\ Helpers!CleansUpTheLiving
<1>0. HelpersTyped /\ ManagersKnow /\ HandlesFollow
  BY HelperTypes DEF HelpersInv
<1> DEFINE one == {<<b, e>>}
<1>1. /\ <<b, e>> \in wanted /\ wanted' = wanted \ one
      /\ depSlots' = depSlots \ (one \cap depToCont[b])
      /\ contSlots' = contSlots \ (one \cap contToDep[b])
      /\ depToCont' = Helpers!Erased(depToCont, one)
      /\ contToDep' = Helpers!Erased(contToDep, one)
      /\ living' = living /\ property' = property /\ handle' = handle /\ cleaned' = cleaned
  BY DEF Helpers!Unregister
<1>2. one \in SUBSET Helpers!Pairs
  BY DEF Helpers!Pairs
<1>3. \A c \in Containers, d \in Dependencies : <<c, d>> \in one <=> c = b /\ d = e
  OBVIOUS
<1> HIDE DEF one
<1>4. /\ depToCont' \in [Containers -> SUBSET Helpers!Pairs]
      /\ contToDep' \in [Containers -> SUBSET Helpers!Pairs]
  BY <1>0, <1>1, <1>2, ErasedPairs DEF HelpersTyped
<1>5. \A m, c \in Containers, d \in Dependencies :
         <<c, d>> \in depToCont'[m] <=> <<c, d>> \in depToCont[m] /\ ~(<<c, d>> \in one /\ m = c)
  <2>1. depToCont \in [Containers -> SUBSET Helpers!Pairs]
    BY <1>0 DEF HelpersTyped
  <2> QED BY ONLY <1>1, <1>2, <2>1, ErasedPairs
<1>10. \A m, c \in Containers, d \in Dependencies :
         <<c, d>> \in contToDep'[m] <=> <<c, d>> \in contToDep[m] /\ ~(<<c, d>> \in one /\ m = c)
  <2>1. contToDep \in [Containers -> SUBSET Helpers!Pairs]
    BY <1>0 DEF HelpersTyped
  <2> QED BY ONLY <1>1, <1>2, <2>1, ErasedPairs
<1>6. HelpersTyped'
  BY <1>0, <1>1, <1>4 DEF HelpersTyped
<1>7. ManagersKnow'
  <2> SUFFICES ASSUME NEW m \in Containers, NEW c \in Containers, NEW d \in Dependencies
               PROVE  Known(m, c, d)'
    BY DEF ManagersKnow
  <2>0. Known(m, c, d)
    BY <1>0 DEF ManagersKnow
  <2>1. <<b, e>> \in depToCont[b] /\ <<b, e>> \in contToDep[b]
    BY <1>0, <1>1 DEF ManagersKnow, Known
  <2>2. <<c, d>> \in one <=> c = b /\ d = e
    BY <1>3
  <2>3. /\ <<c, d>> \in wanted' <=> <<c, d>> \in wanted /\ ~(c = b /\ d = e)
        /\ <<c, d>> \in depSlots' <=> <<c, d>> \in depSlots /\ ~(c = b /\ d = e)
        /\ <<c, d>> \in contSlots' <=> <<c, d>> \in contSlots /\ ~(c = b /\ d = e)
        /\ living' = living
    BY ONLY <1>1, <2>1, <2>2
  <2>4. /\ <<c, d>> \in depToCont'[m] <=> <<c, d>> \in depToCont[m] /\ ~(c = b /\ d = e /\ m = c)
        /\ <<c, d>> \in contToDep'[m] <=> <<c, d>> \in contToDep[m] /\ ~(c = b /\ d = e /\ m = c)
    BY <1>5, <1>10, <2>2
  <2> QED BY ONLY <2>0, <2>3, <2>4 DEF Known
<1>8. HandlesFollow'
  BY <1>0, <1>1 DEF HandlesFollow
<1>9. Helpers!CleansUpTheLiving
  BY <1>1 DEF Helpers!CleansUpTheLiving
<1> QED BY <1>6, <1>7, <1>8, <1>9, HelperTypesNext DEF HelpersInv

LEMMA SetPropertyStep ==
    ASSUME HelpersInv, NEW b \in Containers, NEW e \in Dependencies \cup {None},
           Helpers!SetProperty(b, e)
    PROVE  HelpersInv' /\ Helpers!CleansUpTheLiving
<1>0. HelpersTyped /\ ManagersKnow /\ HandlesFollow
  BY HelperTypes DEF HelpersInv
<1>1. /\ b \in living /\ e \in living \cup {None}
      /\ property' = [property EXCEPT ![b] = e] /\ handle' = [handle EXCEPT ![b] = e]
      /\ living' = living /\ wanted' = wanted /\ depSlots' = depSlots /\ contSlots' = contSlots
      /\ depToCont' = depToCont /\ contToDep' = contToDep /\ cleaned' = cleaned
  BY DEF Helpers!SetProperty
<1>2. HelpersTyped'
  <2>1. e \in Dependencies \cup {None}
    OBVIOUS
  <2>2. /\ property' \in [Containers -> Dependencies \cup {None}]
        /\ handle' \in [Containers -> Dependencies \cup {None}]
    BY <1>0, <1>1, <2>1 DEF HelpersTyped
  <2> QED BY <1>0, <1>1, <2>2 DEF HelpersTyped
<1>3. ManagersKnow'
  <2>1. UNCHANGED <<living, wanted, depSlots, contSlots, depToCont, contToDep>>
    BY <1>1
  <2>2. ASSUME NEW m \in Containers, NEW c \in Containers, NEW d \in Dependencies
        PROVE  Known(m, c, d)'
    <3>1. Known(m, c, d)
      BY <1>0 DEF ManagersKnow
    <3> QED BY ONLY <2>1, <3>1 DEF Known
  <2> QED BY <2>2 DEF ManagersKnow
<1>4. HandlesFollow'
  <2> SUFFICES ASSUME NEW c \in Containers
               PROVE  /\ handle'[c] = IF c \in living THEN property'[c] ELSE None
                      /\ handle'[c] # None => handle'[c] \in living
    BY <1>1 DEF HandlesFollow
  <2>1. CASE c = b
    BY <1>0, <1>1, <2>1 DEF HelpersTyped
  <2>2. CASE c # b
    BY <1>0, <1>1, <2>2 DEF HandlesFollow, HelpersTyped
  <2> QED BY <2>1, <2>2
<1>5. Helpers!CleansUpTheLiving
  BY <1>1 DEF Helpers!CleansUpTheLiving
<1> QED BY <1>2, <1>3, <1>4, <1>5, HelperTypesNext DEF HelpersInv

LEMMA DestroyDependencyStep ==
    ASSUME HelpersInv, NEW e \in Dependencies, Helpers!DestroyDependency(e)
    PROVE  HelpersInv' /\ Helpers!CleansUpTheLiving
<1>0. HelpersTyped /\ ManagersKnow /\ HandlesFollow
  BY HelperTypes DEF HelpersInv
<1> DEFINE hit == {p \in depSlots : p[2] = e}
<1>1. /\ e \in living /\ living' = living \ {e}
      /\ cleaned' = cleaned \cup hit
      /\ wanted' = wanted \ {p \in wanted : p[2] = e}
      /\ depSlots' = depSlots \ hit
      /\ depToCont' = Helpers!Erased(depToCont, hit)
      /\ property' = [c \in Containers |-> IF handle[c] = e THEN None ELSE property[c]]
      /\ handle' = [c \in Containers |-> IF handle[c] = e THEN None ELSE handle[c]]
      /\ contToDep' = contToDep /\ contSlots' = contSlots
  BY DEF Helpers!DestroyDependency
<1>2. hit \in SUBSET Helpers!Pairs
  BY <1>0 DEF HelpersTyped
<1>3. /\ \A c \in Containers, d \in Dependencies : <<c, d>> \in hit <=> <<c, d>> \in depSlots /\ d = e
      /\ \A c \in Containers, d \in Dependencies :
            <<c, d>> \in wanted' <=> <<c, d>> \in wanted /\ d # e
  BY <1>1
<1> HIDE DEF hit
<1>4. depToCont' \in [Containers -> SUBSET Helpers!Pairs]
  BY <1>0, <1>1, <1>2, ErasedPairs DEF HelpersTyped
<1>5. \A m, c \in Containers, d \in Dependencies :
         <<c, d>> \in depToCont'[m] <=> <<c, d>> \in depToCont[m] /\ ~(<<c, d>> \in hit /\ m = c)
  <2>1. depToCont \in [Containers -> SUBSET Helpers!Pairs]
    BY <1>0 DEF HelpersTyped
  <2>2. depToCont' = Helpers!Erased(depToCont, hit)
    BY <1>1
  <2> QED BY ONLY <1>2, <2>1, <2>2, ErasedPairs
<1>6. HelpersTyped'
  <2>1. \A c \in Containers : property'[c] \in Dependencies \cup {None}
                               /\ handle'[c] \in Dependencies \cup {None}
    BY <1>0, <1>1 DEF HelpersTyped
  <2>2. /\ property' \in [Containers -> Dependencies \cup {None}]
        /\ handle' \in [Containers -> Dependencies \cup {None}]
    BY <1>1, <2>1
  <2> QED BY <1>0, <1>1, <1>2, <1>4, <2>2 DEF HelpersTyped
<1>7. ManagersKnow'
  <2> SUFFICES ASSUME NEW m \in Containers, NEW c \in Containers, NEW d \in Dependencies
               PROVE  Known(m, c, d)'
    BY DEF ManagersKnow
  <2>0. Known(m, c, d)
    BY <1>0 DEF ManagersKnow
  <2>1. c # e
    BY LibraryAssumption
  <2>2. /\ <<c, d>> \in hit <=> <<c, d>> \in depSlots /\ d = e
        /\ <<c, d>> \in wanted' <=> <<c, d>> \in wanted /\ d # e
        /\ <<c, d>> \in depToCont'[m] <=> <<c, d>> \in depToCont[m] /\ ~(<<c, d>> \in hit /\ m = c)
    BY <1>3, <1>5
  <2>3. /\ depSlots' = depSlots \ hit /\ living' = living \ {e}
        /\ contToDep' = contToDep /\ contSlots' = contSlots
    BY <1>1
  <2> QED BY ONLY <2>0, <2>1, <2>2, <2>3 DEF Known
<1>8. HandlesFollow'
  <2> SUFFICES ASSUME NEW c \in Containers
               PROVE  /\ handle'[c] = IF c \in living' THEN property'[c] ELSE None
                      /\ handle'[c] # None => handle'[c] \in living'
    BY DEF HandlesFollow
  <2>1. /\ property'[c] = IF handle[c] = e THEN None ELSE property[c]
        /\ handle'[c] = IF handle[c] = e THEN None ELSE handle[c]
        /\ c # e /\ e # None
    BY <1>1, LibraryAssumption
  <2> QED BY <1>0, <1>1, <2>1 DEF HandlesFollow
<1>9. Helpers!CleansUpTheLiving
  <2> SUFFICES ASSUME NEW c \in Containers, NEW d \in Dependencies
               PROVE  /\ <<c, d>> \in cleaned' \ cleaned => c \in living
                      /\ <<c, d>> \in wanted /\ d \in living \ living' => <<c, d>> \in cleaned'
    BY DEF Helpers!CleansUpTheLiving, Helpers!Pairs
  <2>1. Known(c, c, d)
    BY <1>0 DEF ManagersKnow
  <2> QED BY <1>1, <1>3, <2>1 DEF Known
<1> QED BY <1>6, <1>7, <1>8, <1>9, HelperTypesNext DEF HelpersInv

LEMMA DestroyContainerStep ==
    ASSUME HelpersInv, NEW b \in Containers, Helpers!DestroyContainer(b)
    PROVE  HelpersInv' /\ Helpers!CleansUpTheLiving
<1>0. HelpersTyped /\ ManagersKnow /\ HandlesFollow
  BY HelperTypes DEF HelpersInv
<1> DEFINE mine == {p \in contSlots : p[1] = b}
<1>1. /\ living' = living \ {b} /\ wanted' = wanted \ {p \in wanted : p[1] = b}
      /\ depSlots' = IF mine = {} THEN depSlots ELSE depSlots \ depToCont[b]
      /\ depToCont' = IF mine = {} THEN depToCont ELSE [depToCont EXCEPT ![b] = {}]
      /\ contToDep' = Helpers!Erased(contToDep, mine)
      /\ contSlots' = contSlots \ mine
      /\ handle' = [handle EXCEPT ![b] = None]
      /\ property' = property /\ cleaned' = cleaned
  BY DEF Helpers!DestroyContainer
<1>2. mine \in SUBSET Helpers!Pairs
  BY <1>0 DEF HelpersTyped
<1>3. /\ \A c \in Containers, d \in Dependencies : <<c, d>> \in mine <=> <<c, d>> \in contSlots /\ c = b
      /\ \A c \in Containers, d \in Dependencies :
            <<c, d>> \in wanted' <=> <<c, d>> \in wanted /\ c # b
  BY <1>1
<1> HIDE DEF mine
<1>4. contToDep' \in [Containers -> SUBSET Helpers!Pairs]
  BY <1>0, <1>1, <1>2, ErasedPairs DEF HelpersTyped
<1>5. \A m, c \in Containers, d \in Dependencies :
         <<c, d>> \in contToDep'[m] <=> <<c, d>> \in contToDep[m] /\ ~(<<c, d>> \in mine /\ m = c)
  <2>1. contToDep \in [Containers -> SUBSET Helpers!Pairs]
    BY <1>0 DEF HelpersTyped
  <2>2. contToDep' = Helpers!Erased(contToDep, mine)
    BY <1>1
  <2> QED BY ONLY <1>2, <2>1, <2>2, ErasedPairs
<1>6. HelpersTyped'
  <2>1. depSlots' \in SUBSET Helpers!Pairs
    BY <1>0, <1>1 DEF HelpersTyped
  <2>2. depToCont' \in [Containers -> SUBSET Helpers!Pairs]
    BY <1>0, <1>1 DEF HelpersTyped
  <2>3. handle' \in [Containers -> Dependencies \cup {None}]
    BY <1>0, <1>1 DEF HelpersTyped
  <2> QED BY <1>0, <1>1, <1>4, <2>1, <2>2, <2>3 DEF HelpersTyped
<1>7. ManagersKnow'
  <2> SUFFICES ASSUME NEW m \in Containers, NEW c \in Containers, NEW d \in Dependencies
               PROVE  Known(m, c, d)'
    BY DEF ManagersKnow
  <2>0. Known(m, c, d) /\ Known(b, c, d)
    BY <1>0 DEF ManagersKnow
  <2>1. d # b
    BY LibraryAssumption
  <2>2. /\ <<c, d>> \in mine <=> <<c, d>> \in contSlots /\ c = b
        /\ <<c, d>> \in wanted' <=> <<c, d>> \in wanted /\ c # b
        /\ <<c, d>> \in contToDep'[m] <=> <<c, d>> \in contToDep[m] /\ ~(<<c, d>> \in mine /\ m = c)
    BY <1>3, <1>5
  <2>3. living' = living \ {b} /\ contSlots' = contSlots \ mine
    BY <1>1
  <2>4. CASE mine = {}
    <3>1. depSlots' = depSlots /\ depToCont' = depToCont
      BY <1>1, <2>4
    <3>2. <<c, d>> \notin mine
      BY <2>4
    <3> QED BY ONLY <2>0, <2>1, <2>2, <2>3, <3>1, <3>2 DEF Known
  <2>5. CASE mine # {}
    <3>1. depSlots' = depSlots \ depToCont[b]
      BY <1>1, <2>5
    <3>2. depToCont'[m] = IF m = b THEN {} ELSE depToCont[m]
      BY <1>0, <1>1, <2>5 DEF HelpersTyped
    <3> QED BY ONLY <2>0, <2>1, <2>2, <2>3, <3>1, <3>2 DEF Known
  <2> QED BY <2>4, <2>5
<1>8. HandlesFollow'
  <2> SUFFICES ASSUME NEW c \in Containers
               PROVE  /\ handle'[c] = IF c \in living' THEN property'[c] ELSE None
                      /\ handle'[c] # None => handle'[c] \in living'
    BY DEF HandlesFollow
  <2>1. handle[c] \in Dependencies \cup {None}
    BY <1>0 DEF HelpersTyped
  <2>2. handle[c] # None => handle[c] # b
    BY <2>1, LibraryAssumption
  <2>3. handle'[c] = IF c = b THEN None ELSE handle[c]
    BY <1>0, <1>1 DEF HelpersTyped
  <2> QED BY <1>0, <1>1, <2>2, <2>3 DEF HandlesFollow
<1>9. Helpers!CleansUpTheLiving
  <2> SUFFICES ASSUME NEW c \in Containers, NEW d \in Dependencies
               PROVE  /\ <<c, d>> \in cleaned' \ cleaned => c \in living
                      /\ <<c, d>> \in wanted /\ d \in living \ living' => <<c, d>> \in cleaned'
    BY DEF Helpers!CleansUpTheLiving, Helpers!Pairs
  <2> QED BY <1>1, LibraryAssumption
<1> QED BY <1>6, <1>7, <1>8, <1>9, HelperTypesNext DEF HelpersInv

LEMMA HelpersStep ==
    ASSUME HelpersInv, [Helpers!Next]_helperVars
    PROVE  HelpersInv' /\ Helpers!CleansUpTheLiving
<1>1. CASE UNCHANGED helperVars
  <2>1. /\ living' = living /\ wanted' = wanted /\ depToCont' = depToCont
        /\ contToDep' = contToDep /\ depSlots' = depSlots /\ contSlots' = contSlots
        /\ property' = property /\ handle' = handle /\ cleaned' = cleaned
    BY <1>1 DEF helperVars
  <2>2. HelpersTyped /\ ManagersKnow /\ HandlesFollow
    BY HelperTypes DEF HelpersInv
  <2>3. HelpersTyped'
    BY <2>1, <2>2 DEF HelpersTyped
  <2>4. ManagersKnow'
    <3> SUFFICES ASSUME NEW m \in Containers, NEW c \in Containers, NEW d \in Dependencies
                 PROVE  Known(m, c, d)'
      BY DEF ManagersKnow
    <3>1. Known(m, c, d)
      BY <2>2 DEF ManagersKnow
    <3> QED BY ONLY <2>1, <3>1 DEF Known
  <2>5. HandlesFollow' /\ Helpers!CleansUpTheLiving
    BY <2>1, <2>2 DEF HandlesFollow, Helpers!CleansUpTheLiving
  <2> QED BY <2>3, <2>4, <2>5, HelperTypesNext DEF HelpersInv
<1> QED
  BY <1>1, RegisterStep, UnregisterStep, SetPropertyStep, DestroyDependencyStep,
     DestroyContainerStep
  DEF Helpers!Next

LEMMA HelpersAreRight ==
    Helpers!Spec => /\ [](Helpers!TypeOK /\ Helpers!PropertiesAreLive)
                    /\ [][Helpers!CleansUpTheLiving]_helperVars
<1>1. Helpers!Init => HelpersInv
  <2> SUFFICES ASSUME Helpers!Init PROVE HelpersInv
    OBVIOUS
  <2>1. HelpersTyped
    BY DEF Helpers!Init, HelpersTyped
  <2>2. ManagersKnow
    BY DEF Helpers!Init, ManagersKnow, Known
  <2>3. HandlesFollow
    BY DEF Helpers!Init, HandlesFollow
  <2> QED BY <2>1, <2>2, <2>3, HelperTypes DEF HelpersInv
<1>2. HelpersInv /\ [Helpers!Next]_helperVars =>
          HelpersInv' /\ [Helpers!CleansUpTheLiving]_helperVars
  BY HelpersStep
<1>3. HelpersInv => Helpers!TypeOK /\ Helpers!PropertiesAreLive
  BY DEF HelpersInv, HandlesFollow, Helpers!PropertiesAreLive
<1>4. Helpers!Spec <=> Helpers!Init /\ [][Helpers!Next]_helperVars
  BY DEF Helpers!Spec, Helpers!vars, helperVars
<1> QED BY <1>1, <1>2, <1>3, <1>4, PTL
-----------------------------------------------------------------------------
(***************************************************************************)
(* File mappers: every mapping belongs to one of them.                     *)
(***************************************************************************)
MapsTyped == map \in [Mappers -> Mapped!Maps \cup {NoMap}]

EachHasOne ==
    /\ \A a : a \in mappings <=> \E x \in Mappers : a \in Mapped!Held(map[x])
    /\ \A x, y \in Mappers : x # y => Mapped!Held(map[x]) \cap Mapped!Held(map[y]) = {}

UnmapTells ==
    answered.call = "unmap" /\ answered.answer => Mapped!Held(map[answered.of]) = {}

MappersInv == MapsTyped /\ EachHasOne /\ UnmapTells

LEMMA OwnedMappings == MappersInv => Mapped!MappingsAreOwned
<1> SUFFICES ASSUME MappersInv PROVE Mapped!MappingsAreOwned
  OBVIOUS
<1>1. \A x \in Mappers : map[x] = NoMap \/ map[x] \in Mapped!Maps
  BY DEF MappersInv, MapsTyped
<1>2. mappings = UNION {Mapped!Held(map[x]) : x \in Mappers}
  <2>1. \A a : a \in mappings <=> \E x \in Mappers : a \in Mapped!Held(map[x])
    BY DEF MappersInv, EachHasOne
  <2> QED BY ONLY Zenon, <2>1
<1> QED BY <1>1, <1>2 DEF MappersInv, EachHasOne, UnmapTells, Mapped!MappingsAreOwned

(* One mapper gets another map, and what that maps, or nothing, takes the  *)
(* place of what the old one mapped.                                       *)
LEMMA ReplacedMap ==
    ASSUME MapsTyped, EachHasOne, NEW x \in Mappers, NEW m \in Mapped!Maps \cup {NoMap},
           map' = [map EXCEPT ![x] = m],
           mappings' = (mappings \ Mapped!Held(map[x])) \cup Mapped!Held(m),
           Mapped!Held(m) \cap (mappings \ Mapped!Held(map[x])) = {}
    PROVE  MapsTyped' /\ EachHasOne' /\ map'[x] = m
<1> DEFINE H(y) == Mapped!Held(map[y])
           h == Mapped!Held(m)
<1>1. /\ map' \in [Mappers -> Mapped!Maps \cup {NoMap}] /\ map'[x] = m
      /\ \A y \in Mappers : y # x => map'[y] = map[y]
  BY DEF MapsTyped
<1>2. \A y \in Mappers : Mapped!Held(map'[y]) = IF y = x THEN h ELSE H(y)
  BY <1>1
<1>3. /\ \A a : a \in mappings <=> \E y \in Mappers : a \in H(y)
      /\ \A y, z \in Mappers : y # z => H(y) \cap H(z) = {}
  BY DEF EachHasOne
<1>4. mappings' = (mappings \ H(x)) \cup h /\ h \cap (mappings \ H(x)) = {}
  OBVIOUS
<1> HIDE DEF H, h
<1>5. ASSUME NEW a PROVE a \in mappings' <=> \E y \in Mappers : a \in Mapped!Held(map'[y])
  <2>1. a \in mappings' <=> (a \in mappings /\ a \notin H(x)) \/ a \in h
    BY <1>4
  <2>2. a \in mappings /\ a \notin H(x) <=> \E y \in Mappers : y # x /\ a \in H(y)
    BY <1>3
  <2>3. (\E y \in Mappers : a \in Mapped!Held(map'[y])) <=>
            (a \in h \/ \E y \in Mappers : y # x /\ a \in H(y))
    BY <1>2
  <2> QED BY <2>1, <2>2, <2>3
<1>6. ASSUME NEW y \in Mappers, NEW z \in Mappers, y # z
      PROVE  Mapped!Held(map'[y]) \cap Mapped!Held(map'[z]) = {}
  <2>1. \A w \in Mappers : w # x => H(w) \cap h = {}
    <3> SUFFICES ASSUME NEW w \in Mappers, w # x, NEW a, a \in H(w), a \in h PROVE FALSE
      OBVIOUS
    <3>1. a \in mappings /\ a \notin H(x)
      BY <1>3
    <3> QED BY <3>1, <1>4
  <2> QED BY <1>2, <1>3, <1>6, <2>1
<1>7. EachHasOne'
  BY <1>5, <1>6 DEF EachHasOne
<1> QED BY <1>1, <1>7 DEF MapsTyped

LEMMA HeldMap ==
    /\ Mapped!Held(NoMap) = {}
    /\ \A m \in Mapped!Maps : m # NoMap /\ Mapped!Held(m) = {m.at} \ {0}
BY LibraryAssumption DEF Mapped!Held

LEMMA MapsToFits ==
    ASSUME MapsTyped, EachHasOne, NEW x \in Mappers, NEW writable \in BOOLEAN,
           NEW range \in Mapped!Ranges,
           NEW r \in Mapped!MapsTo(x, map[x], writable, range, mappings)
    PROVE  /\ r.map \in Mapped!Maps
           /\ r.left = (mappings \ Mapped!Held(map[x])) \cup Mapped!Held(r.map)
           /\ Mapped!Held(r.map) \cap (mappings \ Mapped!Held(map[x])) = {}
<1>1. map[x] \in Mapped!Maps \cup {NoMap}
  BY DEF MapsTyped
<1>2. Mapped!Held(map[x]) \subseteq mappings
  BY DEF EachHasOne
<1> DEFINE stays == Mapped!IsMapped(map[x], writable)
           kept == mappings \ Mapped!Held(map[x])
           free == {0} \cup IF Mapped!MayMap(x, writable) THEN Addresses \ kept ELSE {}
<1>3. CASE stays
  <2>1. r.map = map[x] /\ r.left = mappings
    BY <1>3 DEF Mapped!MapsTo
  <2> QED BY <1>1, <1>2, <1>3, <2>1 DEF Mapped!IsMapped
<1>4. CASE ~stays
  <2> DEFINE fresh(a) == [writable |-> writable, at |-> a,
                          range |-> IF a = 0 THEN "none" ELSE range]
  <2>1. \E a \in free : r.map = fresh(a) /\ r.left = kept \cup ({a} \ {0})
    BY <1>4 DEF Mapped!MapsTo, Mapped!Fresh
  <2>2. PICK a \in free : r.map = fresh(a) /\ r.left = kept \cup ({a} \ {0})
    BY <2>1
  <2>3. a \in Addresses \cup {0} /\ (a # 0 => a \notin kept)
    BY <2>2
  <2>4. r.map \in Mapped!Maps /\ r.map.at = a
    BY <2>2, <2>3 DEF Mapped!Maps
  <2>5. Mapped!Held(r.map) = {a} \ {0}
    BY <2>4, HeldMap
  <2> QED BY <2>2, <2>3, <2>4, <2>5
<1> QED BY <1>3, <1>4

LEMMA MapStep ==
    ASSUME MappersInv, NEW x \in Mappers, Mapped!Map(x)
    PROVE  MappersInv'
<1>1. \E writable \in BOOLEAN, range \in Mapped!Ranges :
         \E r \in Mapped!MapsTo(x, map[x], writable, range, mappings) :
            map' = [map EXCEPT ![x] = r.map] /\ mappings' = r.left
  BY DEF Mapped!Map
<1>2. PICK writable \in BOOLEAN, range \in Mapped!Ranges :
         \E r \in Mapped!MapsTo(x, map[x], writable, range, mappings) :
            map' = [map EXCEPT ![x] = r.map] /\ mappings' = r.left
  BY <1>1
<1>3. PICK r \in Mapped!MapsTo(x, map[x], writable, range, mappings) :
         map' = [map EXCEPT ![x] = r.map] /\ mappings' = r.left
  BY <1>2
<1>4. MapsTyped /\ EachHasOne
  BY DEF MappersInv
<1>5. MapsTyped' /\ EachHasOne'
  BY <1>3, <1>4, MapsToFits, ReplacedMap
<1>6. UnmapTells'
  BY DEF Mapped!Map, UnmapTells
<1> QED BY <1>5, <1>6 DEF MappersInv

LEMMA UnmapStep ==
    ASSUME MappersInv, NEW x \in Mappers, Mapped!Unmap(x)
    PROVE  MappersInv'
<1> DEFINE results(given) ==
             IF given /\ map[x] # NoMap THEN Mapped!MapsTo(x, map[x], TRUE, "whole", mappings)
             ELSE {[map |-> map[x], left |-> mappings]}
           unmaps(r, synced) == r.map # NoMap /\ (r.map.writable => r.map.at # 0 /\ synced)
           ends(r, synced) ==
             /\ map' = [map EXCEPT ![x] = IF unmaps(r, synced)
                                          THEN [r.map EXCEPT !.at = 0, !.range = "none"]
                                          ELSE r.map]
             /\ mappings' = IF unmaps(r, synced) THEN r.left \ Mapped!Held(r.map) ELSE r.left
             /\ answered' = [call |-> "unmap", of |-> x, range |-> "none",
                             answer |-> unmaps(r, synced)]
<1>1. \E given, synced \in BOOLEAN : \E r \in results(given) : ends(r, synced)
  BY DEF Mapped!Unmap
<1>2. PICK given, synced \in BOOLEAN : \E r \in results(given) : ends(r, synced)
  BY <1>1
<1>3. PICK r \in results(given) : ends(r, synced)
  BY <1>2
<1>4. MapsTyped /\ EachHasOne /\ map[x] \in Mapped!Maps \cup {NoMap}
  BY DEF MappersInv, MapsTyped
<1> DEFINE others == mappings \ Mapped!Held(map[x])
<1>0. "whole" \in Mapped!Ranges
  BY DEF Mapped!Ranges
<1>5. /\ r.map \in Mapped!Maps \cup {NoMap}
      /\ r.left = others \cup Mapped!Held(r.map) /\ Mapped!Held(r.map) \cap others = {}
  <2>1. CASE given /\ map[x] # NoMap
    BY <1>0, <1>4, <2>1, MapsToFits
  <2>2. CASE ~(given /\ map[x] # NoMap)
    <3>0. results(given) = {[map |-> map[x], left |-> mappings]}
      BY Zenon, <2>2
    <3>1. r.map = map[x] /\ r.left = mappings
      <4> HIDE DEF results
      <4> QED BY <3>0
    <3>2. Mapped!Held(map[x]) \subseteq mappings
      BY <1>4 DEF EachHasOne
    <3> QED BY <1>4, <3>1, <3>2
  <2> QED BY <2>1, <2>2
<1>6. CASE unmaps(r, synced)
  <2> DEFINE m == [r.map EXCEPT !.at = 0, !.range = "none"]
  <2>1. m \in Mapped!Maps /\ m.at = 0
    BY <1>5, <1>6 DEF Mapped!Maps
  <2>2. Mapped!Held(m) = {}
    BY <2>1, HeldMap
  <2>3. /\ map' = [map EXCEPT ![x] = m] /\ mappings' = r.left \ Mapped!Held(r.map)
        /\ answered'.of = x
    BY <1>3, <1>6
  <2> HIDE DEF m
  <2>4. mappings' = others \cup Mapped!Held(m) /\ Mapped!Held(m) \cap others = {}
    BY <1>5, <2>2, <2>3
  <2>5. MapsTyped' /\ EachHasOne' /\ map'[x] = m
    BY <1>4, <2>1, <2>3, <2>4, ReplacedMap
  <2>6. UnmapTells'
    BY <2>2, <2>3, <2>5 DEF UnmapTells
  <2> QED BY <2>5, <2>6 DEF MappersInv
<1>7. CASE ~unmaps(r, synced)
  <2>1. /\ map' = [map EXCEPT ![x] = r.map] /\ mappings' = r.left
        /\ ~answered'.answer
    BY <1>3, <1>7
  <2>2. MapsTyped' /\ EachHasOne'
    BY <1>4, <1>5, <2>1, ReplacedMap
  <2> QED BY <2>1, <2>2 DEF MappersInv, UnmapTells
<1> QED BY <1>6, <1>7

LEMMA MoveStep ==
    ASSUME MappersInv, NEW x \in Mappers, NEW y \in Mappers, Mapped!Move(x, y)
    PROVE  MappersInv'
<1> DEFINE H(z) == Mapped!Held(map[z])
<1>1. /\ x # y /\ map' = [map EXCEPT ![x] = map[y], ![y] = NoMap]
      /\ mappings' = mappings \ H(x) /\ ~answered'.answer
  BY DEF Mapped!Move, Mapped!Silent
<1>2. MapsTyped /\ EachHasOne
  BY DEF MappersInv
<1>3. /\ map' \in [Mappers -> Mapped!Maps \cup {NoMap}]
      /\ \A z \in Mappers : map'[z] = IF z = y THEN NoMap ELSE IF z = x THEN map[y] ELSE map[z]
  BY <1>1, <1>2 DEF MapsTyped
<1>4. \A z \in Mappers :
         Mapped!Held(map'[z]) = IF z = y THEN {} ELSE IF z = x THEN H(y) ELSE H(z)
  BY <1>3, HeldMap
<1>5. /\ \A a : a \in mappings <=> \E z \in Mappers : a \in H(z)
      /\ \A z, w \in Mappers : z # w => H(z) \cap H(w) = {}
  BY <1>2 DEF EachHasOne
<1> HIDE DEF H
<1>6. ASSUME NEW a PROVE a \in mappings' <=> \E z \in Mappers : a \in Mapped!Held(map'[z])
  <2>1. a \in mappings' <=> a \in mappings /\ a \notin H(x)
    BY <1>1
  <2>2. ASSUME a \in mappings, a \notin H(x) PROVE \E z \in Mappers : a \in Mapped!Held(map'[z])
    <3>1. PICK z \in Mappers : a \in H(z)
      BY <1>5, <2>2
    <3>2. CASE z = y
      BY <1>1, <1>4, <3>1, <3>2
    <3>3. CASE z # y
      BY <1>4, <2>2, <3>1, <3>3
    <3> QED BY <3>2, <3>3
  <2>3. ASSUME NEW z \in Mappers, a \in Mapped!Held(map'[z]) PROVE a \in mappings /\ a \notin H(x)
    <3>1. z # y
      BY <1>4, <2>3
    <3>2. CASE z = x
      BY <1>1, <1>4, <1>5, <2>3, <3>1, <3>2
    <3>3. CASE z # x
      BY <1>4, <1>5, <2>3, <3>1, <3>3
    <3> QED BY <3>2, <3>3
  <2> QED BY <2>1, <2>2, <2>3
<1>7. ASSUME NEW z \in Mappers, NEW w \in Mappers, z # w
      PROVE  Mapped!Held(map'[z]) \cap Mapped!Held(map'[w]) = {}
  BY <1>4, <1>5, <1>7
<1>8. EachHasOne'
  BY <1>6, <1>7 DEF EachHasOne
<1> QED BY <1>1, <1>3, <1>8 DEF MappersInv, MapsTyped, UnmapTells

LEMMA MappersAreRight == Mapped!FmSpec => []Mapped!MappingsAreOwned
<1>1. Mapped!FmInit => MappersInv
  <2> SUFFICES ASSUME Mapped!FmInit PROVE MappersInv
    OBVIOUS
  <2>1. /\ map = [x \in Mappers |-> NoMap] /\ mappings = {}
        /\ ~answered.answer
    BY DEF Mapped!FmInit, Mapped!Silent
  <2> QED BY <2>1, HeldMap DEF MappersInv, MapsTyped, EachHasOne, UnmapTells
<1>2. MappersInv /\ [Mapped!FmNext]_mapVars => MappersInv'
  <2> SUFFICES ASSUME MappersInv, [Mapped!FmNext]_mapVars PROVE MappersInv'
    OBVIOUS
  <2>1. CASE Mapped!FileChanges
    <3>1. map' = map /\ mappings' = mappings /\ ~answered'.answer
      BY <2>1 DEF Mapped!FileChanges, Mapped!Silent
    <3> QED BY <3>1 DEF MappersInv, MapsTyped, EachHasOne, UnmapTells
  <2>2. CASE UNCHANGED mapVars
    BY <2>2 DEF mapVars, MappersInv, MapsTyped, EachHasOne, UnmapTells
  <2> QED BY <2>1, <2>2, MapStep, UnmapStep, MoveStep DEF Mapped!FmNext
<1>3. Mapped!FmSpec <=> Mapped!FmInit /\ [][Mapped!FmNext]_mapVars
  BY DEF Mapped!FmSpec, Mapped!fmVars, mapVars
<1> QED BY <1>1, <1>2, <1>3, OwnedMappings, PTL
-----------------------------------------------------------------------------
(***************************************************************************)
(* Files: what a stream has not handed over reaches from within the file   *)
(* to the place it is at.                                                  *)
(***************************************************************************)
StreamFits ==
    /\ Len(unwritten) <= place
    /\ place - Len(unwritten) <= Len(content)
    /\ Len(content) <= MaxFile

FilesInv == Disk!FiTypeOK /\ StreamFits

LEMMA FileNumbers ==
    ASSUME FilesInv
    PROVE  /\ content \in Seq(Letters) /\ unwritten \in Seq(Letters)
           /\ Len(content) \in Nat /\ Len(unwritten) \in Nat
           /\ place \in Nat /\ place <= MaxFile /\ MaxFile \in Nat /\ 1 <= MaxFile
           /\ Len(unwritten) <= place /\ place - Len(unwritten) <= Len(content)
           /\ Len(content) <= MaxFile
           /\ (unwritten = <<>> <=> Len(unwritten) = 0)
BY LibraryAssumption DEF FilesInv, Disk!FiTypeOK, StreamFits

LEMMA FlushedFits ==
    ASSUME FilesInv
    PROVE  /\ Disk!Flushed \in Seq(Letters) /\ Len(Disk!Flushed) \in Nat
           /\ Len(content) <= Len(Disk!Flushed) /\ Len(Disk!Flushed) <= MaxFile
           /\ place <= Len(Disk!Flushed)
           /\ (unwritten = <<>> => Disk!Flushed = content)
<1> DEFINE F == Disk!Flushed
           start == place - Len(unwritten)
           before == SubSeq(content, 1, start)
           after == SubSeq(content, place + 1, Len(content))
<1>1. /\ content \in Seq(Letters) /\ unwritten \in Seq(Letters)
      /\ Len(content) \in Nat /\ Len(unwritten) \in Nat
      /\ place \in Nat /\ place <= MaxFile /\ MaxFile \in Nat
      /\ Len(unwritten) <= place /\ start <= Len(content)
      /\ Len(content) <= MaxFile
      /\ (unwritten = <<>> <=> Len(unwritten) = 0)
  BY FileNumbers
<1>2. CASE unwritten = <<>>
  <2>1. F = content
    BY <1>2 DEF Disk!Flushed
  <2> QED BY ONLY <1>1, <1>2, <2>1
<1>3. CASE unwritten # <<>>
  <2>1. F = before \o unwritten \o after
    BY <1>3 DEF Disk!Flushed
  <2>2. \A i \in 1..Len(content) : content[i] \in Letters
    BY <1>1
  <2>3. start \in Nat
    BY <1>1
  <2>4. before \in Seq(Letters) /\ Len(before) = start
    BY ONLY <1>1, <2>2, <2>3, SubSeqProperties
  <2>5. /\ after \in Seq(Letters)
        /\ Len(after) = IF place + 1 <= Len(content) THEN Len(content) - place ELSE 0
    BY ONLY <1>1, <2>2, SubSeqProperties
  <2> HIDE DEF F, before, after
  <2>6. before \o unwritten \in Seq(Letters)
        /\ Len(before \o unwritten) = Len(before) + Len(unwritten)
    BY ONLY <1>1, <2>4, ConcatProperties
  <2>7. F \in Seq(Letters) /\ Len(F) = Len(before \o unwritten) + Len(after)
    BY ONLY <2>1, <2>5, <2>6, ConcatProperties
  <2>8. Len(F) = start + Len(unwritten) + Len(after)
    BY ONLY <2>4, <2>6, <2>7
  <2>9. Len(F) = IF place + 1 <= Len(content) THEN Len(content) ELSE place
    BY ONLY <1>1, <2>3, <2>5, <2>8
  <2> QED BY <1>1, <1>3, <2>7, <2>9 DEF F
<1> QED BY <1>2, <1>3 DEF F

LEMMA PrefixOfFile ==
    ASSUME NEW S, NEW s \in Seq(S), NEW n \in 0..Len(s)
    PROVE  Disk!IsPrefix(SubSeq(s, 1, n), s)
<1>1. Len(s) \in Nat /\ \A i \in 1..n : s[i] \in S
  OBVIOUS
<1>2. Len(SubSeq(s, 1, n)) = n /\ SubSeq(s, 1, n) \in Seq(S)
  BY <1>1, SubSeqProperties
<1>3. SubSeq(SubSeq(s, 1, n), 1, n) = SubSeq(s, 1, n)
  BY <1>2, SubSeqFull
<1> QED BY <1>1, <1>2, <1>3 DEF Disk!IsPrefix

(* Flush, close and open hand everything over, and end at a place in it.   *)
LEMMA HandedOver ==
    ASSUME FilesInv, content' \in Seq(Letters), Len(content') <= MaxFile,
           unwritten' = <<>>, place' \in Nat, place' <= Len(content'),
           storage' = storage, linked' \in BOOLEAN, good' \in BOOLEAN,
           stream' \in Disk!Modes \cup {{}}, read' = Disk!Nothing
    PROVE  FilesInv' /\ Disk!ReadsFromTheStart
<1>1. Len(content') \in Nat /\ MaxFile \in Nat /\ Len(unwritten') = 0
  BY LibraryAssumption
<1>2. unwritten' \in Seq(Letters) /\ place' \in 0..MaxFile
  BY <1>1
<1>3. read'.ended = "none"
      /\ read' \in [ended : {"none", "returned", "zeros", "throws"}, bytes : Seq(Letters)]
  BY DEF Disk!Nothing
<1>4. storage' \in {"normal", "asset"}
  BY DEF FilesInv, Disk!FiTypeOK
<1>5. Disk!FiTypeOK'
  BY <1>2, <1>3, <1>4 DEF Disk!FiTypeOK
<1>6. StreamFits'
  BY <1>1 DEF StreamFits
<1>7. Disk!ReadsFromTheStart
  BY <1>3 DEF Disk!ReadsFromTheStart
<1> QED BY <1>5, <1>6, <1>7 DEF FilesInv

LEMMA EmptyFile == <<>> \in Seq(Letters) /\ Len(<<>>) = 0
OBVIOUS

LEMMA StreamSteps ==
    ASSUME FilesInv,
           Disk!Flush \/ (\E mode \in Disk!Modes : Disk!Open(mode)) \/ Disk!Close
    PROVE  FilesInv' /\ Disk!ReadsFromTheStart
<1>1. /\ Disk!Flushed \in Seq(Letters) /\ Len(Disk!Flushed) \in Nat
      /\ Len(Disk!Flushed) <= MaxFile /\ place <= Len(Disk!Flushed) /\ place \in Nat
  BY FlushedFits, FileNumbers
<1>2. linked \in BOOLEAN /\ good \in BOOLEAN /\ stream \in Disk!Modes \cup {{}}
  BY DEF FilesInv, Disk!FiTypeOK
<1>3. CASE Disk!Flush
  <2>1. /\ content' = Disk!Flushed /\ unwritten' = <<>> /\ read' = Disk!Nothing
        /\ UNCHANGED <<storage, linked, stream, good, place>>
    BY <1>3 DEF Disk!Flush
  <2> QED BY <1>1, <1>2, <2>1, HandedOver
<1>4. CASE Disk!Close
  <2>1. /\ content' = Disk!Flushed /\ stream' = {} /\ place' = 0 /\ unwritten' = <<>>
        /\ read' = Disk!Nothing /\ UNCHANGED <<storage, linked, good>>
    BY <1>4 DEF Disk!Close
  <2>2. stream' \in Disk!Modes \cup {{}} /\ place' \in Nat /\ place' <= Len(content')
    BY <1>1, <2>1
  <2>3. linked' \in BOOLEAN /\ good' \in BOOLEAN
    BY <1>2, <2>1
  <2>4. content' \in Seq(Letters) /\ Len(content') <= MaxFile
    BY <1>1, <2>1
  <2> QED BY <2>1, <2>2, <2>3, <2>4, HandedOver
<1>5. ASSUME NEW mode \in Disk!Modes, Disk!Open(mode) PROVE FilesInv' /\ Disk!ReadsFromTheStart
  <2>1. /\ place' = 0 /\ unwritten' = <<>> /\ read' = Disk!Nothing /\ storage' = storage
        /\ content' = <<>> \/ content' = Disk!Flushed
    BY <1>5 DEF Disk!Open
  <2>2. stream' = mode \/ stream' = {}
    BY <1>5 DEF Disk!Open
  <2>3. good' = TRUE /\ (linked' = TRUE \/ linked' = linked)
    BY Zenon, <1>5 DEF Disk!Open
  <2>4. linked' \in BOOLEAN /\ good' \in BOOLEAN
    BY ONLY Zenon, <1>2, <2>3
  <2>5. content' \in Seq(Letters) /\ Len(content') <= MaxFile /\ Len(content') \in Nat
    <3>1. CASE content' = <<>>
      BY <3>1, EmptyFile, LibraryAssumption
    <3>2. CASE content' = Disk!Flushed
      BY <1>1, <3>2
    <3> QED BY <2>1, <3>1, <3>2
  <2>6. place' \in Nat /\ place' <= Len(content')
    BY <2>1, <2>5
  <2>7. stream' \in Disk!Modes \cup {{}}
    BY <2>2
  <2> QED BY <2>1, <2>4, <2>5, <2>6, <2>7, HandedOver
<1> QED BY <1>3, <1>4, <1>5

LEMMA WriteStep ==
    ASSUME FilesInv, Disk!Write
    PROVE  FilesInv' /\ Disk!ReadsFromTheStart
<1>1. /\ stream # {} /\ storage = "normal" /\ place < MaxFile
      /\ read' = Disk!Nothing /\ UNCHANGED <<storage, linked, content, stream>>
  BY DEF Disk!Write
<1>2. \/ /\ \E x \in Letters : unwritten' = Append(unwritten, x)
         /\ place' = place + 1 /\ good' = good
      \/ good' = FALSE /\ UNCHANGED <<unwritten, place>>
  BY Zenon DEF Disk!Write
<1>3. read'.ended = "none"
      /\ read' \in [ended : {"none", "returned", "zeros", "throws"}, bytes : Seq(Letters)]
  BY <1>1 DEF Disk!Nothing
<1>4. /\ linked \in BOOLEAN /\ good \in BOOLEAN /\ stream \in Disk!Modes \cup {{}}
      /\ content \in Seq(Letters) /\ unwritten \in Seq(Letters)
  BY DEF FilesInv, Disk!FiTypeOK
<1>5. /\ Len(content) \in Nat /\ Len(unwritten) \in Nat /\ place \in Nat /\ MaxFile \in Nat
      /\ Len(unwritten) <= place /\ place - Len(unwritten) <= Len(content)
      /\ Len(content) <= MaxFile
  BY FileNumbers
<1>6. good' \in BOOLEAN /\ linked' \in BOOLEAN
  BY ONLY Zenon, <1>1, <1>2, <1>4
<1>7. /\ unwritten' \in Seq(Letters) /\ Len(unwritten') - Len(unwritten) = place' - place
      /\ Len(unwritten') \in Nat /\ place' \in 0..MaxFile
  <2>1. CASE UNCHANGED <<unwritten, place>>
    BY <1>1, <1>4, <1>5, <2>1
  <2>2. ASSUME NEW x \in Letters, unwritten' = Append(unwritten, x), place' = place + 1
        PROVE  /\ unwritten' \in Seq(Letters) /\ Len(unwritten') - Len(unwritten) = place' - place
               /\ Len(unwritten') \in Nat /\ place' \in 0..MaxFile
    <3>1. unwritten' \in Seq(Letters) /\ Len(unwritten') = Len(unwritten) + 1
      BY <1>4, <2>2, AppendProperties
    <3> QED BY ONLY <1>1, <1>5, <2>2, <3>1
  <2> QED BY <1>2, <2>1, <2>2
<1>8. StreamFits'
  <2>1. Len(content') = Len(content)
    BY <1>1
  <2> QED BY ONLY <1>5, <1>7, <2>1 DEF StreamFits
<1>9. Disk!FiTypeOK'
  <2>1. storage' \in {"normal", "asset"} /\ stream' # {} /\ storage' # "asset"
    BY <1>1
  <2> QED BY <1>1, <1>3, <1>4, <1>6, <1>7, <2>1 DEF Disk!FiTypeOK
<1>10. Disk!ReadsFromTheStart
  BY <1>3 DEF Disk!ReadsFromTheStart
<1> QED BY <1>8, <1>9, <1>10 DEF FilesInv

LEMMA ReadAllStep ==
    ASSUME FilesInv, Disk!ReadAll
    PROVE  FilesInv' /\ Disk!ReadsFromTheStart
<1>1. /\ Disk!Flushed \in Seq(Letters) /\ Len(Disk!Flushed) \in Nat
      /\ Len(content) <= Len(Disk!Flushed) /\ Len(Disk!Flushed) <= MaxFile
      /\ (unwritten = <<>> => Disk!Flushed = content)
  BY FlushedFits
<1>2. /\ content \in Seq(Letters) /\ Len(content) \in Nat /\ MaxFile \in Nat
      /\ Len(content) <= MaxFile
  BY FileNumbers
<1>3. UNCHANGED <<storage, linked, stream>>
  BY DEF Disk!ReadAll
<1>4. /\ linked \in BOOLEAN /\ good \in BOOLEAN /\ stream \in Disk!Modes \cup {{}}
      /\ storage \in {"normal", "asset"} /\ place \in 0..MaxFile /\ unwritten \in Seq(Letters)
      /\ (stream = {} \/ storage = "asset") => unwritten = <<>>
  BY DEF FilesInv, Disk!FiTypeOK
<1> DEFINE Results == [ended : {"none", "returned", "zeros", "throws"}, bytes : Seq(Letters)]
           Left == UNCHANGED <<content, unwritten, place>>
           Emptied == /\ content' = Disk!Flushed /\ unwritten' = <<>>
                      /\ place' = Len(content) \/ place' = 0
<1>5. ASSUME read' \in Results, Left \/ Emptied, good' \in BOOLEAN
      PROVE  FilesInv'
  <2>1. CASE Left
    BY <1>3, <1>4, <1>5, <2>1 DEF FilesInv, Disk!FiTypeOK, StreamFits
  <2>2. CASE Emptied
    <3>1. /\ place' \in 0..MaxFile /\ place' <= Len(Disk!Flushed) /\ place' \in Nat
      BY <1>1, <1>2, <2>2
    <3>2. content' \in Seq(Letters) /\ unwritten' \in Seq(Letters) /\ Len(unwritten') = 0
      BY <1>1, <2>2, EmptyFile
    <3>3. Disk!FiTypeOK'
      BY <1>3, <1>4, <1>5, <2>2, <3>1, <3>2 DEF Disk!FiTypeOK
    <3>4. StreamFits'
      <4>1. Len(content') = Len(Disk!Flushed)
        BY <2>2
      <4> QED BY ONLY <1>1, <3>1, <3>2, <4>1 DEF StreamFits
    <3> QED BY <3>3, <3>4 DEF FilesInv
  <2> QED BY <1>5, <2>1, <2>2
<1>6. CASE ~linked
  <2>1. /\ read' = [Disk!Nothing EXCEPT !.ended = "throws"]
        /\ Left /\ good' = good
    BY <1>6 DEF Disk!ReadAll
  <2>2. read' \in Results
    <3>1. read' = [ended |-> "throws", bytes |-> <<>>]
      BY <2>1 DEF Disk!Nothing
    <3> QED BY <3>1, EmptyFile
  <2>3. Disk!ReadsFromTheStart
    BY <1>6 DEF Disk!ReadsFromTheStart
  <2> QED BY <1>4, <1>5, <2>1, <2>2, <2>3
<1>7. CASE linked /\ content = <<>>
  <2>1. read' = [ended |-> "returned", bytes |-> <<>>] /\ Left /\ good' = good
    BY <1>7 DEF Disk!ReadAll, Disk!Returns
  <2>2. read' \in Results
    BY <2>1
  <2>3. Disk!IsPrefix(read'.bytes, content') /\ read'.bytes = content'
    BY <1>7, <2>1, EmptyFile DEF Disk!IsPrefix
  <2>4. Disk!ReadsFromTheStart
    BY <2>1, <2>3 DEF Disk!ReadsFromTheStart
  <2> QED BY <1>4, <1>5, <2>1, <2>2, <2>4
<1>8. CASE linked /\ content # <<>> /\ "in" \in stream /\ good
  <2>1. /\ read' = [ended |-> "returned", bytes |-> SubSeq(Disk!Flushed, 1, Len(content))]
        /\ Emptied /\ good' = good
    BY <1>8 DEF Disk!ReadAll, Disk!Returns
  <2>2. Len(content) \in 0..Len(Disk!Flushed)
    BY <1>1, <1>2
  <2>3. /\ Disk!IsPrefix(read'.bytes, content')
        /\ read'.ended = "returned"
    BY <1>1, <2>1, <2>2, PrefixOfFile
  <2>4. unwritten = <<>> => read'.bytes = content'
    <3>1. SubSeq(content, 1, Len(content)) = content
      BY <1>2, SubSeqFull
    <3> QED BY <1>1, <2>1, <3>1
  <2>5. Disk!ReadsFromTheStart
    BY <2>3, <2>4 DEF Disk!ReadsFromTheStart
  <2>6. SubSeq(Disk!Flushed, 1, Len(content)) \in Seq(Letters)
    <3>1. \A i \in 1..Len(content) : Disk!Flushed[i] \in Letters
      BY <1>1, <1>2
    <3> QED BY <1>2, <3>1, SubSeqProperties
  <2>7. read' \in Results
    BY <2>1, <2>6
  <2> QED BY <1>4, <1>5, <2>1, <2>5, <2>7
<1>9. CASE linked /\ content # <<>> /\ ~("in" \in stream /\ good)
  <2>1. /\ read' = [Disk!Nothing EXCEPT !.ended = "zeros"] /\ good' = FALSE
        /\ Left \/ Emptied
    BY <1>9 DEF Disk!ReadAll
  <2>2. read' \in Results /\ read'.ended = "zeros"
    <3>1. read' = [ended |-> "zeros", bytes |-> <<>>]
      BY <2>1 DEF Disk!Nothing
    <3> QED BY <3>1, EmptyFile
  <2>3. Disk!ReadsFromTheStart
    BY <1>9, <2>2 DEF Disk!ReadsFromTheStart
  <2>4. good' \in BOOLEAN
    BY Zenon, <2>1
  <2> QED BY <1>5, <2>1, <2>2, <2>3, <2>4
<1> QED BY <1>6, <1>7, <1>8, <1>9

LEMMA FilesStep ==
    ASSUME FilesInv, [Disk!FiNext]_diskVars
    PROVE  FilesInv' /\ Disk!ReadsFromTheStart
<1>1. CASE Disk!RemoveFile
  <2>1. /\ linked' = FALSE /\ read' = Disk!Nothing
        /\ UNCHANGED <<storage, content, stream, good, place, unwritten>>
    BY <1>1 DEF Disk!RemoveFile
  <2>2. linked' \in BOOLEAN
    BY Zenon, <2>1
  <2>3. read'.ended = "none"
        /\ read' \in [ended : {"none", "returned", "zeros", "throws"}, bytes : Seq(Letters)]
    BY <2>1 DEF Disk!Nothing
  <2>4. Disk!FiTypeOK' /\ StreamFits'
    BY <2>1, <2>2, <2>3 DEF FilesInv, Disk!FiTypeOK, StreamFits
  <2> QED BY <2>3, <2>4 DEF FilesInv, Disk!ReadsFromTheStart
<1>2. CASE UNCHANGED diskVars
  BY <1>2 DEF diskVars, FilesInv, Disk!FiTypeOK, StreamFits, Disk!ReadsFromTheStart
<1> QED BY <1>1, <1>2, StreamSteps, WriteStep, ReadAllStep DEF Disk!FiNext

LEMMA FilesAreRight ==
    Disk!FiSpec => []Disk!FiTypeOK /\ [][Disk!ReadsFromTheStart]_diskVars
<1>1. Disk!FiInit => FilesInv
  <2> SUFFICES ASSUME Disk!FiInit PROVE FilesInv
    OBVIOUS
  <2>1. /\ storage \in {"normal", "asset"} /\ linked \in BOOLEAN
        /\ content \in {<<>>} \cup {<<x>> : x \in Letters}
        /\ stream = {} /\ place = 0 /\ unwritten = <<>> /\ read = Disk!Nothing
    BY DEF Disk!FiInit
  <2>2. good \in BOOLEAN
    BY Zenon DEF Disk!FiInit
  <2>3. content \in Seq(Letters) /\ Len(content) \in 0..1
    <3>1. CASE content = <<>>
      BY <3>1, EmptyFile
    <3>2. ASSUME NEW x \in Letters, content = <<x>>
          PROVE  content \in Seq(Letters) /\ Len(content) \in 0..1
      BY <3>2
    <3> QED BY <2>1, <3>1, <3>2
  <2>4. read \in [ended : {"none", "returned", "zeros", "throws"}, bytes : Seq(Letters)]
    BY <2>1 DEF Disk!Nothing
  <2>5. Disk!FiTypeOK
    BY <2>1, <2>2, <2>3, <2>4, LibraryAssumption DEF Disk!FiTypeOK
  <2>6. StreamFits
    <3>1. Len(unwritten) = 0 /\ MaxFile \in Nat /\ 1 <= MaxFile
      BY <2>1, EmptyFile, LibraryAssumption
    <3> QED BY ONLY <2>1, <2>3, <3>1 DEF StreamFits
  <2> QED BY <2>5, <2>6 DEF FilesInv
<1>2. FilesInv /\ [Disk!FiNext]_diskVars => FilesInv' /\ [Disk!ReadsFromTheStart]_diskVars
  BY FilesStep
<1>3. FilesInv => Disk!FiTypeOK
  BY DEF FilesInv
<1>4. Disk!FiSpec <=> Disk!FiInit /\ [][Disk!FiNext]_diskVars
  BY DEF Disk!FiSpec, Disk!fiVars, diskVars
<1> QED BY <1>1, <1>2, <1>3, <1>4, PTL
-----------------------------------------------------------------------------
(* Whatever the program calls, and whatever slots call in the middle, what *)
(* listeners keep of other objects is right: childAdded and childRemoved   *)
(* tell the children, and no pointer to a destroyed object is left.        *)
THEOREM ListenersAreRight ==
    Spec /\ Post!Spec /\ Helpers!Spec => []ListenersHoldTheLiving
<1>1. Post!TypeOK /\ Helpers!TypeOK /\ Helpers!PropertiesAreLive /\ ListenersAgree
          => ListenersHoldTheLiving
  BY DEF ListenersHoldTheLiving
<1> QED BY <1>1, PostmanIsRight, HelpersAreRight, ListenersAreTold, PTL

(* No step shows an event to its target before the filters, destroys a     *)
(* child unannounced, cleans up a destroyed container or reads a file from *)
(* its middle.                                                             *)
THEOREM OrderOfSteps ==
    Spec /\ Post!Spec /\ Helpers!Spec /\ Disk!FiSpec => StepsAreInOrder
<1>1. ASSUME UNCHANGED vars PROVE AnnouncedDies
  BY <1>1 DEF vars, AnnouncedDies
<1>2. ASSUME UNCHANGED postVars PROVE Post!FiltersGoFirst
  BY <1>2 DEF postVars, Post!FiltersGoFirst
<1>3. ASSUME UNCHANGED helperVars PROVE Helpers!CleansUpTheLiving
  BY <1>3 DEF helperVars, Helpers!CleansUpTheLiving
<1>4. ASSUME UNCHANGED diskVars PROVE Disk!ReadsFromTheStart
  BY <1>4 DEF diskVars, Disk!ReadsFromTheStart
<1>5. [AnnouncedDies]_vars /\ [Post!FiltersGoFirst]_postVars
          /\ [Helpers!CleansUpTheLiving]_helperVars /\ [Disk!ReadsFromTheStart]_diskVars
      => [/\ AnnouncedDies
          /\ Post!FiltersGoFirst
          /\ Helpers!CleansUpTheLiving
          /\ Disk!ReadsFromTheStart]_<<objectVars, fileVars>>
  BY <1>1, <1>2, <1>3, <1>4
<1> QED
  BY <1>5, NoneDiesUnannounced, PostmanIsRight, HelpersAreRight, FilesAreRight, PTL
  DEF StepsAreInOrder

(* After any maps, unmaps, failures and moves every mapping of the system  *)
(* has one owner, and a File keeps its types.                              *)
THEOREM FilesAreSound == Mapped!FmSpec /\ Disk!FiSpec => []FilesAgree
<1>1. Mapped!MappingsAreOwned /\ Disk!FiTypeOK => FilesAgree
  BY DEF FilesAgree
<1> QED BY <1>1, MappersAreRight, FilesAreRight, PTL
=============================================================================
