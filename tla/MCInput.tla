------------------------------- MODULE MCInput -------------------------------
(* Instances for TLC of WaylandSeat (a seat with a mouse, or one with a      *)
(* keyboard and a touch screen), of WaylandGlobals and of Keyboards, one of  *)
(* the three in each behaviour.                                              *)
EXTENDS WaylandSeat, WaylandGlobals, Keyboards, TLC

CONSTANTS w1, w2, leftButton, rightButton, k1, k2, f1, f2

VARIABLE subject

MouseOrKeyboard == {{"pointer"}, {"keyboard", "touch"}}

\* Two seats, two relative pointer managers and one of everything else, but for
\* decorations, which are treated like the data manager.
SomeGlobals ==
    {[kind |-> k, name |-> k] :
        k \in {"compositor", "shm", "shell", "output", "data manager", "constraints"}}
        \cup [kind : {"seat", "relative"}, name : {"first", "second"}]

\* A, Z, 2, Tab, F12, Left, both Shifts and the right Control.
SomeCaps ==
    {cap \in UsKeyboard :
        cap.key \in {\h41, \h5a, \h32, \h102, \h11e, \h107, \h160, \h164, \h165}}

Symmetric == Permutations({w1, w2}) \cup Permutations({leftButton, rightButton})
               \cup Permutations({k1, k2}) \cup Permutations({f1, f2})

\* What is not the subject of a behaviour starts, and stays, in one state.
MCInit ==
    /\ subject \in {"seat", "globals", "keys"}
    /\ Init /\ WgInit /\ KbInit
    /\ subject # "seat" =>
          ~hasFrames /\ ~supported /\ ~acc.focusChange /\ "pointer" \in devices
    /\ subject # "keys" => platform = "xcb"

SeatStep == subject = "seat" /\ Next /\ UNCHANGED <<subject, wgVars, kbVars>>

GlobalStep == subject = "globals" /\ WgNext /\ UNCHANGED <<subject, vars, kbVars>>

KeyStep == subject = "keys" /\ KbNext /\ UNCHANGED <<subject, vars, wgVars>>

MCNext == SeatStep \/ GlobalStep \/ KeyStep

MCSpec == MCInit /\ [][MCNext]_<<subject, vars, wgVars, kbVars>>
=============================================================================
