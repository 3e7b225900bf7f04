----------------------------- MODULE ObjectTree -----------------------------
(***************************************************************************)
(* Object and its children on one thread: addChild, takeChild and ~Object, *)
(* with slots of parentChanged, childAdded, childRemoved and destroyed     *)
(* that call them again.  The calls under way are a stack; each stops at   *)
(* the signals it emits, where program code runs.                          *)
(*                                                                         *)
(* An object is owned by the vector of its parent, by the local pointer of *)
(* a takeChild under way, or by the program.  A slot keeps out of what the *)
(* calls below it are in the middle of: see MayCall and Untouched.         *)
(***************************************************************************)
EXTENDS Naturals, SequencesExt

CONSTANTS Objects, None, MaxDepth  \* bound: calls under way at once

VARIABLES
    alive,     \* objects whose destructor has not finished
    parent,    \* m_parent
    children,  \* m_children; None is a unique_ptr moved from
    stack,     \* the calls under way, the innermost last
    told       \* the children a listener knows from childAdded and childRemoved

vars == <<alive, parent, children, stack, told>>

Calls == {"addChild", "takeChild", "~Object"}

Signals == {"parentChanged", "childAdded", "childRemoved", "destroyed"}

ASSUME ObjectsAssumption == None \notin Objects \cup Signals /\ MaxDepth \in Nat

Frames ==
    {f \in [call : Calls, emits : Signals \cup {None}, of : Objects,
            child : Objects \cup {None}, at : Nat] :
        f.child = None => f.call = "~Object"}

TypeOK ==
    /\ alive \subseteq Objects
    /\ parent \in [Objects -> Objects \cup {None}]
    /\ children \in [Objects -> Seq(Objects \cup {None})]
    /\ stack \in Seq(Frames) /\ Len(stack) <= MaxDepth
    /\ told \in [Objects -> SUBSET Objects]

Init ==
    /\ alive = Objects
    /\ parent = [o \in Objects |-> None]
    /\ children = [o \in Objects |-> <<>>]
    /\ stack = <<>>
    /\ told = [o \in Objects |-> {}]
-----------------------------------------------------------------------------
ChildrenOf(o) == ToSet(children[o]) \ {None}

\* o and everything below it.
Subtree(o) ==
    {x \in Objects : \A S \in SUBSET Objects :
        (o \in S /\ \A p \in S : ChildrenOf(p) \subseteq S) => x \in S}

Busy(o) == \E i \in DOMAIN stack : o \in {stack[i].of, stack[i].child}

\* The program holds the unique_ptr of o, and no call works on its subtree.
Owns(o) ==
    /\ o \in alive
    /\ \A x \in Subtree(o) : ~Busy(x)
    /\ \A p \in Objects : o \notin ChildrenOf(p)

\* takeChild holds an iterator until it erases, ~Object refers to the last
\* place until it pops it.
HoldsPlace(frame) ==
    \/ frame.call = "takeChild" /\ frame.emits = "parentChanged"
    \/ frame.call = "~Object" /\ frame.emits = "childRemoved"

\* No call below holds a place in the children of o or announces c.
Untouched(o, c) ==
    \A i \in DOMAIN stack :
        stack[i].child # c /\ ~(stack[i].of = o /\ HoldsPlace(stack[i]))

Top == Last(stack)

MayCall == Len(stack) < MaxDepth /\ (stack # <<>> => Top.emits # None)

Called(call, signal, o, c, i) ==
    stack' = Append(stack, [call |-> call, emits |-> signal, of |-> o, child |-> c, at |-> i])

GoesOn(call, signal) == stack # <<>> /\ Top.call = call /\ Top.emits = signal

Emits(signal, c) ==
    stack' = [stack EXCEPT ![Len(stack)] = [@ EXCEPT !.emits = signal, !.child = c]]

Returns == stack' = Front(stack)

Announce(p, c) == told' = [told EXCEPT ![p] = @ \cup {c}]

Withdraw(p, c) == told' = [told EXCEPT ![p] = @ \ {c}]
-----------------------------------------------------------------------------
(* addChild, whose assert is the third conjunct.                           *)
AddChild(p, c) ==
    /\ MayCall
    /\ p \in alive /\ Owns(c) /\ p \notin Subtree(c)
    /\ parent[c] = None
    /\ Untouched(p, c)
    /\ parent' = [parent EXCEPT ![c] = p]
    /\ children' = [children EXCEPT ![p] = Append(@, c)]
    /\ Called("addChild", "parentChanged", p, c, 0)
    /\ UNCHANGED <<alive, told>>

AddChildGoesOn ==
    /\ GoesOn("addChild", "parentChanged")
    /\ Announce(Top.of, Top.child)
    /\ Emits("childAdded", Top.child)
    /\ UNCHANGED <<alive, parent, children>>

AddChildReturns ==
    /\ GoesOn("addChild", "childAdded")
    /\ Returns
    /\ UNCHANGED <<alive, parent, children, told>>

\* Mutant: the pointer is copied out of the vector.
TakeChildMutant(p, c) ==
    /\ MayCall
    /\ p \in alive
    /\ Untouched(p, c)
    /\ \E i \in DOMAIN children[p] :
        /\ children[p][i] = c
        /\ Called("takeChild", "parentChanged", p, c, i)
    /\ parent' = [parent EXCEPT ![c] = None]
    /\ UNCHANGED <<alive, children, told>>

(* takeChild moves the pointer out of the vector and erases the place it   *)
(* was at after parentChanged.                                             *)
TakeChild(p, c) ==
    /\ MayCall
    /\ p \in alive
    /\ Untouched(p, c)
    /\ \E i \in DOMAIN children[p] :
        /\ children[p][i] = c
        /\ children' = [children EXCEPT ![p][i] = None]
        /\ Called("takeChild", "parentChanged", p, c, i)
    /\ parent' = [parent EXCEPT ![c] = None]
    /\ UNCHANGED <<alive, told>>

\* Mutant: erases the last place instead of the iterator's.
TakeChildGoesOnMutant ==
    /\ GoesOn("takeChild", "parentChanged")
    /\ children' = [children EXCEPT ![Top.of] = Front(@)]
    /\ Withdraw(Top.of, Top.child)
    /\ Emits("childRemoved", Top.child)
    /\ UNCHANGED <<alive, parent>>

TakeChildGoesOn ==
    /\ GoesOn("takeChild", "parentChanged")
    /\ children' = [children EXCEPT ![Top.of] = RemoveAt(@, Top.at)]
    /\ Withdraw(Top.of, Top.child)
    /\ Emits("childRemoved", Top.child)
    /\ UNCHANGED <<alive, parent>>

TakeChildReturns ==
    /\ GoesOn("takeChild", "childRemoved")
    /\ Returns
    /\ UNCHANGED <<alive, parent, children, told>>
-----------------------------------------------------------------------------
(* ~Object, by the program that owns the object or by `delete this` in     *)
(* Object::event, and of each child by pop_back.                           *)
Destroy(o) ==
    /\ MayCall
    /\ Owns(o)
    /\ Called("~Object", "destroyed", o, None, 0)
    /\ UNCHANGED <<alive, parent, children, told>>

\* Mutant: childRemoved is not emitted by the destructor.
RemoveLastChildMutant ==
    /\ GoesOn("~Object", "destroyed") \/ GoesOn("~Object", None)
    /\ children[Top.of] # <<>>
    /\ Emits("childRemoved", Last(children[Top.of]))
    /\ UNCHANGED <<alive, parent, children, told>>

RemoveLastChild ==
    /\ GoesOn("~Object", "destroyed") \/ GoesOn("~Object", None)
    /\ children[Top.of] # <<>>
    /\ Withdraw(Top.of, Last(children[Top.of]))
    /\ Emits("childRemoved", Last(children[Top.of]))
    /\ UNCHANGED <<alive, parent, children>>

\* Mutant: pop_back before the announcement of the next child only.
DestroyChildMutant ==
    /\ GoesOn("~Object", "childRemoved")
    /\ Len(stack) < MaxDepth
    /\ children' = [children EXCEPT ![Top.of] = Tail(@)]
    /\ stack' = Append([stack EXCEPT ![Len(stack)].emits = None],
                       [call |-> "~Object", emits |-> "destroyed", child |-> None, at |-> 0,
                        of |-> Head(children[Top.of])])
    /\ UNCHANGED <<alive, parent, told>>

DestroyChild ==
    /\ GoesOn("~Object", "childRemoved")
    /\ Len(stack) < MaxDepth
    /\ children' = [children EXCEPT ![Top.of] = Front(@)]
    /\ stack' = Append([stack EXCEPT ![Len(stack)].emits = None],
                       [call |-> "~Object", emits |-> "destroyed", child |-> None, at |-> 0,
                        of |-> Last(children[Top.of])])
    /\ UNCHANGED <<alive, parent, told>>

\* Mutant: the children outlive the object.
DestroyEndsMutant ==
    /\ GoesOn("~Object", "destroyed") \/ GoesOn("~Object", None)
    /\ alive' = alive \ {Top.of}
    /\ Returns
    /\ UNCHANGED <<parent, children, told>>

DestroyEnds ==
    /\ GoesOn("~Object", "destroyed") \/ GoesOn("~Object", None)
    /\ children[Top.of] = <<>>
    /\ alive' = alive \ {Top.of}
    /\ Returns
    /\ UNCHANGED <<parent, children, told>>
-----------------------------------------------------------------------------
Next ==
    \/ \E p, c \in Objects : AddChild(p, c) \/ TakeChild(p, c)
    \/ AddChildGoesOn \/ AddChildReturns
    \/ TakeChildGoesOn \/ TakeChildReturns
    \/ \E o \in Objects : Destroy(o)
    \/ RemoveLastChild \/ DestroyChild \/ DestroyEnds

Spec == Init /\ [][Next]_vars
-----------------------------------------------------------------------------
\* ~Object of p is in the middle of ~Object of c.
DestroyedBy(c, p) ==
    \E i \in 2..Len(stack) :
        /\ stack[i].call = "~Object" /\ stack[i].of = c
        /\ stack[i - 1].call = "~Object" /\ stack[i - 1].of = p

(* A pointer to a parent is never left behind: the parent of a living      *)
(* object is alive and owns it, or is destroying it right now, whatever    *)
(* slots add, take and destroy during the calls.                           *)
ParentsOwn ==
    \A c \in alive : parent[c] # None =>
        parent[c] \in alive /\ (c \in ChildrenOf(parent[c]) \/ DestroyedBy(c, parent[c]))

(* An object is owned once: it is in one place of one vector, points back  *)
(* to that parent and is alive, so that no destructor runs twice for it.   *)
OwnedOnce ==
    \A p \in Objects : \A i \in DOMAIN children[p] : children[p][i] # None =>
        /\ children[p][i] \in alive
        /\ parent[children[p][i]] = p
        /\ \A j \in DOMAIN children[p] : children[p][j] = children[p][i] => i = j

(* A parent pointer leads to an owner, and an object is owned once:        *)
(* addChild, takeChild and ~Object.                                        *)
TreeAgrees == TypeOK /\ ParentsOwn /\ OwnedOnce

(* When no call is under way, who followed childAdded and childRemoved     *)
(* knows the children of every living object, and the vectors hold no      *)
(* pointer that was moved from.                                            *)
ListenersAgree ==
    stack = <<>> =>
        \A o \in alive : told[o] = ToSet(children[o])

(* A child that its parent destroys was announced by childRemoved, and is  *)
(* the one announced last.                                                 *)
AnnouncedDies ==
    \A c \in alive \ alive' :
        parent[c] # None =>
            /\ c \notin told[parent[c]]
            /\ stack[Len(stack) - 1].child = c
=============================================================================
