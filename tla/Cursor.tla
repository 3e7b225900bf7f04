------------------------------- MODULE Cursor -------------------------------
(***************************************************************************)
(* The disabled cursor of an xcb and of a Win32 window: hidden, put back   *)
(* into the centre of the window after every move, while the position that *)
(* is reported goes on by what the hand did.  A line stands for the plane. *)
(* Both platforms have the same handleMouseMove, under two servers: X      *)
(* queues an event for every move, Windows makes one WM_MOUSEMOVE, or raw  *)
(* input for each.                                                         *)
(***************************************************************************)
EXTENDS Integers, Sequences

CONSTANTS Reach,     \* bound: how far from 0 the pointer gets
          Centres,   \* where the centre of the window may be
          MaxMoves   \* bound: events under way

Positions == -Reach..Reach

ASSUME CursorAssumption ==
    Reach \in Nat /\ MaxMoves \in Nat /\ Centres \subseteq Positions

VARIABLES
    pointerSystem,     \* "xcb" or "win32"
    mode,       \* m_cursorMode
    previous,   \* m_previousCursorPosition
    warped,     \* m_previousWarpedCursorPosition
    restore,    \* m_cursorRestorePosition
    raw,        \* m_rawMouseInputEnabled
    pointer, centre,   \* the server's
    moves,      \* under way: where to, by what of the hand, and whether warped
    reported,   \* how far the last step moved cursorPosition: {} or one distance
    counted     \* history: previous is where the last event left the pointer

cursorVars ==
    <<pointerSystem, mode, previous, warped, restore, raw, pointer, centre, moves, reported,
      counted>>

Move == [pos : Positions, by : -2 * Reach..2 * Reach, warp : BOOLEAN]

CursorTypeOK ==
    /\ pointerSystem \in {"xcb", "win32"} /\ mode \in {"normal", "disabled"} /\ raw \in BOOLEAN
    /\ previous \in Positions /\ warped \in Positions \cup Centres
    /\ restore \in Positions /\ pointer \in Positions /\ centre \in Centres
    /\ moves \in Seq(Move) /\ Len(moves) <= MaxMoves + 3
    /\ reported \subseteq -3 * Reach..3 * Reach /\ counted \in BOOLEAN

\* The pointer may be anywhere; the window has remembered nothing yet.
CursorInit ==
    /\ pointerSystem \in {"xcb", "win32"} /\ mode = "normal" /\ raw = FALSE
    /\ previous = 0 /\ warped = 0 /\ restore = 0 /\ moves = <<>> /\ reported = {}
    /\ pointer \in Positions /\ centre \in Centres /\ counted = FALSE
-----------------------------------------------------------------------------
\* Two moves that Windows makes one of; what counts of a merged warp is
\* whether the hand had a part in it.
Merged(a, b) ==
    [pos |-> b.pos, warp |-> a.warp \/ b.warp,
     by |-> IF ~a.warp /\ ~b.warp THEN a.by + b.by
            ELSE IF a.by = 0 /\ b.by = 0 THEN 0 ELSE 1]

\* What is under way after a move: X adds an event, Windows has at most one.
Moved(q, move) ==
    IF pointerSystem = "xcb" \/ q = <<>> THEN Append(q, move) ELSE <<Merged(q[1], move)>>

WarpTo(pos, q) ==
    pointer' = pos /\ moves' = Moved(q, [pos |-> pos, by |-> 0, warp |-> TRUE])

\* A move of the hand.
HandMoves ==
    /\ Len(moves) < MaxMoves
    /\ \E to \in Positions \ {pointer} :
           /\ pointer' = to
           /\ moves' = Moved(moves, [pos |-> to, by |-> to - pointer, warp |-> FALSE])
    /\ reported' = {}
    /\ UNCHANGED <<pointerSystem, mode, previous, warped, restore, raw, centre, counted>>

ResizeMoves(c) ==
    /\ c # centre /\ centre' = c /\ reported' = {}
    /\ UNCHANGED <<pointerSystem, mode, previous, warped, restore, raw, pointer, moves, counted>>
-----------------------------------------------------------------------------
\* Mutant: a move that is not reported is not remembered either.
RememberMutant(pos) == previous' = IF pos # warped THEN pos ELSE previous

Remember(pos) == previous' = pos

Recentre(pos, q) ==
    \/ mode = "disabled" /\ pos # centre /\ WarpTo(centre, q) /\ warped' = centre
    \/ (mode = "normal" \/ pos = centre) /\ moves' = q /\ UNCHANGED <<pointer, warped>>

\* handleMouseMove; in normal mode the position itself is reported.
HandleMouseMove(pos, q) ==
    /\ reported' = IF mode = "disabled" /\ pos # warped THEN {pos - previous} ELSE {}
    /\ Remember(pos)
    /\ Recentre(pos, q)
    /\ UNCHANGED <<pointerSystem, mode, restore, raw, centre>>

HandleNext ==
    /\ moves # <<>> /\ ~raw /\ counted' = TRUE
    /\ HandleMouseMove(Head(moves).pos, Tail(moves))

\* A WM_MOUSEMOVE that comes while there is raw input.
IgnoreNext ==
    /\ moves # <<>> /\ raw
    /\ moves' = Tail(moves) /\ reported' = {}
    /\ UNCHANGED <<pointerSystem, mode, previous, warped, restore, raw, pointer, centre, counted>>

\* processRawInput, of relative motion: nothing but in disabled mode.
ProcessRawInput(by) ==
    /\ raw /\ by # 0 /\ previous + by \in Positions
    /\ mode = "disabled"
    /\ HandleMouseMove(previous + by, moves) /\ UNCHANGED counted

Disable ==
    /\ mode = "normal" /\ mode' = "disabled"
    /\ restore' = pointer
    /\ WarpTo(centre, moves) /\ warped' = centre
    /\ reported' = {} /\ UNCHANGED <<pointerSystem, previous, raw, centre, counted>>

Enable ==
    /\ mode = "disabled" /\ mode' = "normal"
    /\ WarpTo(restore, moves)
    /\ reported' = {}
    /\ UNCHANGED <<pointerSystem, previous, warped, restore, raw, centre, counted>>

\* The application switches raw input; what is remembered is old then.
SwitchRaw ==
    /\ pointerSystem = "win32" /\ raw' = ~raw /\ counted' = FALSE
    /\ reported' = {}
    /\ UNCHANGED <<pointerSystem, mode, previous, warped, restore, pointer, centre, moves>>

CursorNext ==
    \/ HandMoves \/ HandleNext \/ IgnoreNext
    \/ \E c \in Centres : ResizeMoves(c)
    \/ \E by \in Positions : ProcessRawInput(by)
    \/ Len(moves) < MaxMoves /\ (Disable \/ Enable)
    \/ SwitchRaw

CursorSpec == CursorInit /\ [][CursorNext]_cursorVars
-----------------------------------------------------------------------------
OfTheHand(e) == ~e.warp

\* Windows may have merged a warp with moves of the hand: such an event is neither.
OfAWarp(e) == e.warp /\ e.by = 0

\* What a disabled cursor reports is what the hand did: a move of the hand moves
\* it by as much, unless it ends where the pointer was warped to last (it is taken
\* for that warp), or is the first one after creation or raw input.
ReportsTheHand ==
    LET e == Head(moves)
    IN  OfTheHand(e) /\ counted => reported' = IF e.pos = warped THEN {} ELSE {e.by}

\* A warp is not reported, unless another one has followed it when it arrives:
\* enableCursor's, put back by disableCursor at once, or one to a former centre.
\* The code remembers but one.
HidesTheWarp ==
    OfAWarp(Head(moves)) /\ reported' # {} => \E i \in 2..Len(moves) : moves[i].warp

\* The two together, for every event that a disabled cursor handles.
MovesAreReal == HandleNext /\ mode = "disabled" => ReportsTheHand /\ HidesTheWarp

\* When all is handled, the next move of a disabled cursor will be counted from
\* where the pointer is, also after moves that were not reported.
CountsFromThePointer ==
    mode = "disabled" /\ moves = <<>> /\ counted => previous = pointer

\* The position that a disabled cursor counts from is where the pointer is, once
\* the moves and warps under way have been handled: handleMouseMove,
\* disableCursor and enableCursor of the xcb and the Win32 window.
CursorAgrees == CursorTypeOK /\ CountsFromThePointer
=============================================================================
