----------------------------- MODULE QuickSort -----------------------------
(***************************************************************************)
(* KDFoundation::quick_sort of constexpr_sort.h, one comparison at a time: *)
(* the range is partitioned twice around the element in its middle, into   *)
(* less, equal and greater, and the outer parts are sorted in turn.  The   *)
(* calls that are not done with their range are on a stack.                *)
(***************************************************************************)
EXTENDS Integers, Sequences, FiniteSets

CONSTANTS
    Elements,  \* numbers: what cmp orders
    MaxLength  \* bound: length of the array

ASSUME ElementsAreNumbers == Elements \subseteq Int /\ MaxLength \in Nat

VARIABLES
    array,
    given,     \* the array as it was handed to sort
    todo,      \* the calls of quick_sort, <<first, last>>, last excluded
    part       \* what the first of them is doing

qsVars == <<array, given, todo, part>>

NoPart == [step |-> "none"]

QsInit ==
    /\ array \in UNION {[1..n -> Elements] : n \in 0..MaxLength}
    /\ given = array
    /\ todo = << <<1, Len(array) + 1>> >>
    /\ part = NoPart
-----------------------------------------------------------------------------
First == Head(todo)[1]

Past == Head(todo)[2]

Return ==
    /\ part = NoPart /\ todo # <<>> /\ Past - First <= 1
    /\ todo' = Tail(todo)
    /\ UNCHANGED <<array, given, part>>

\* What is in front of `front` satisfies the predicate, what is behind it not.
QuickSortCall ==
    /\ part = NoPart /\ todo # <<>> /\ Past - First > 1
    /\ part' = [step |-> "less", pivot |-> array[First + ((Past - First) \div 2)],
                front |-> First, at |-> First, middle |-> First]
    /\ UNCHANGED <<array, given, todo>>

\* Mutant: the second partition looks for what the first one looked for.
SatisfiesMutant(x) == x < part.pivot

\* The predicates of the two partitions.
Satisfies(x) == IF part.step = "less" THEN x < part.pivot ELSE ~(part.pivot < x)

IterSwap(a, i, j) == [a EXCEPT ![i] = a[j], ![j] = a[i]]

\* partition looks at one more element.  While find_if_not is looking for the
\* first that does not satisfy the predicate, this swap is one with itself.
Partition ==
    /\ part # NoPart /\ part.at < Past
    /\ IF Satisfies(array[part.at])
       THEN /\ array' = IterSwap(array, part.at, part.front)
            /\ part' = [part EXCEPT !.at = part.at + 1, !.front = part.front + 1]
       ELSE /\ array' = array
            /\ part' = [part EXCEPT !.at = part.at + 1]
    /\ UNCHANGED <<given, todo>>

\* middle1 is where the first partition ends and the second one starts.
Middle1 ==
    /\ part # NoPart /\ part.at = Past /\ part.step = "less"
    /\ part' = [part EXCEPT !.step = "equal", !.at = part.front, !.middle = part.front]
    /\ UNCHANGED <<array, given, todo>>

\* The second one has ended, in middle2: quick_sort calls itself twice.
Middle2 ==
    /\ part # NoPart /\ part.at = Past /\ part.step = "equal"
    /\ todo' = << <<First, part.middle>>, <<part.front, Past>> >> \o Tail(todo)
    /\ part' = NoPart
    /\ UNCHANGED <<array, given>>

QsNext == Return \/ QuickSortCall \/ Partition \/ Middle1 \/ Middle2

QsSpec == QsInit /\ [][QsNext]_qsVars
-----------------------------------------------------------------------------
Occurrences(s, x) == Cardinality({i \in DOMAIN s : s[i] = x})

\* Elements that no call will compare any more are in order, the calls work on
\* ranges of their own with a pivot between them, nothing is lost or made up on the
\* way, and the stack does not outgrow the array; so the array is sorted when no
\* call is left.
SortsTheRest ==
    /\ \A i, j \in DOMAIN array :
          i < j => \/ array[i] <= array[j]
                   \/ \E k \in DOMAIN todo : todo[k][1] <= i /\ j < todo[k][2]
    /\ \A k, l \in DOMAIN todo : k < l => todo[k][2] < todo[l][1]
    /\ \A x \in Elements : Occurrences(array, x) = Occurrences(given, x)
    /\ Len(todo) <= Len(given) + 1
=============================================================================
