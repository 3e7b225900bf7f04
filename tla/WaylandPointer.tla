--------------------------- MODULE WaylandPointer ---------------------------
(***************************************************************************)
(* The pointer of a Wayland seat, from LinuxWaylandPlatformInput.  Since   *)
(* version 5 of wl_seat the events of one moment come as a group that a    *)
(* frame event ends: they are accumulated until then, except for buttons.  *)
(* The compositor is external: it enters and leaves surfaces in turn, does *)
(* so in groups without buttons, and keeps its focus while one is pressed. *)
(* A surface is named by its window, as in the integration's m_windows.    *)
(***************************************************************************)
EXTENDS Naturals, FiniteSets

CONSTANTS Windows, None, Buttons,
          MaxSlots  \* bound: connections from one window's cursorChanged

ASSUME SeatAssumption ==
    None \notin Windows /\ "unlocked" \notin Windows /\ MaxSlots \in Nat

VARIABLES
    hasFrames,      \* the version of the seat has frames
    registered,     \* m_windows: the windows that have a surface
    cursorEnabled,  \* Window::cursorEnabled
    pointer,        \* m_pointer.pointer exists
    focus,          \* m_pointer.focus
    acc,            \* m_pointer.accumulatedEvent
    constraints,    \* the manager that locks pointers: "none", "live" or "gone"
    lockedTo,       \* the surface of lockedPointerV1, or "unlocked"
    lapsed,         \* history: the pointer left, or lost, the surface it is locked to,
                    \* or the manager came after the pointer
    cursorShown,    \* what wl_pointer_set_cursor said last
    slots,          \* connections from cursorChanged of a window to setCursor
    sent,           \* the events the last step sent, and the windows they went to
    over,           \* compositor: the surface the pointer is on
    held,           \* compositor: the buttons pressed there
    grouped         \* compositor: events have been sent since the last frame

lockVars == <<constraints, lockedTo, lapsed>>

clientVars == <<pointer, focus, acc, lockVars, cursorShown, slots>>

pointerVars == <<hasFrames, registered, cursorEnabled, clientVars, sent, over, held, grouped>>

Nothing == [focus |-> None, focusChange |-> FALSE,
            axis |-> FALSE, pos |-> FALSE, delta |-> FALSE]

PointerTypeOK ==
    /\ hasFrames \in BOOLEAN
    /\ registered \subseteq Windows
    /\ cursorEnabled \in [Windows -> BOOLEAN]
    /\ pointer \in BOOLEAN
    /\ focus \in Windows \cup {None}
    /\ acc \in [focus : Windows \cup {None}, focusChange : BOOLEAN,
                axis : BOOLEAN, pos : BOOLEAN, delta : BOOLEAN]
    /\ constraints \in {"none", "live", "gone"}
    /\ lockedTo \in Windows \cup {"unlocked"}
    /\ lapsed \in BOOLEAN
    /\ cursorShown \in BOOLEAN
    /\ slots \in [Windows -> 0..MaxSlots]
    /\ sent \in SUBSET ({"move", "wheel", "relative", "press", "release"} \X Windows)
    /\ over \in Windows \cup {None}
    /\ held \subseteq Buttons
    /\ grouped \in BOOLEAN

\* focusChange is not initialised by the code.
PointerInit ==
    /\ hasFrames \in BOOLEAN
    /\ registered = Windows
    /\ cursorEnabled = [w \in Windows |-> TRUE]
    /\ pointer = FALSE
    /\ focus = None
    /\ \E garbage \in BOOLEAN : acc = [Nothing EXCEPT !.focusChange = garbage]
    /\ constraints = "none"
    /\ lockedTo = "unlocked"
    /\ lapsed = FALSE
    /\ cursorShown = TRUE
    /\ slots = [w \in Windows |-> 0]
    /\ sent = {}
    /\ over = None
    /\ held = {}
    /\ grouped = FALSE
-----------------------------------------------------------------------------
\* LinuxWaylandPlatformIntegration::window, for a lookup that finds w.
Finds(w) == w \in registered

\* Mutant: to the focus from before the group.
SendMutant(kinds, s) ==
    sent' = IF Finds(focus) THEN kinds \X {focus} ELSE {}

\* The events of these kinds, to the window of surface s if there is one.
Send(kinds, s) == sent' = IF Finds(s) THEN kinds \X {s} ELSE {}

Unlock == lockedTo' = "unlocked" /\ lapsed' = FALSE /\ UNCHANGED constraints

\* A lock that is held is kept, whatever surface it is for.  Locking a surface
\* that does not exist, or with a manager that was destroyed, ends the program:
\* the model does not go there.
Lock(s) ==
    /\ constraints # "none" /\ lockedTo = "unlocked" => constraints = "live" /\ Finds(s)
    /\ IF constraints = "live" /\ lockedTo = "unlocked"
       THEN lockedTo' = s /\ lapsed' = FALSE
       ELSE UNCHANGED <<lockedTo, lapsed>>
    /\ UNCHANGED constraints

SetCursor(s, enabled) ==
    \/ /\ Finds(s) /\ enabled[s]
       /\ Unlock
       /\ cursorShown' = TRUE
    \/ /\ ~(Finds(s) /\ enabled[s])
       /\ cursorShown' = FALSE
       /\ Lock(s)

\* Mutant: cursorChanged is not connected to setCursor.
ConnectedMutant(s) == slots

Connected(s) == IF Finds(s) THEN [slots EXCEPT ![s] = @ + 1] ELSE slots

MayConnect(s) == Finds(s) => slots[s] < MaxSlots

DisconnectAll(s) == slots' = IF Finds(s) THEN [slots EXCEPT ![s] = 0] ELSE slots
-----------------------------------------------------------------------------
(* wl_pointer events.  A group, the compositor's or a single event before  *)
(* version 5, is handled whole by the client at its end.                   *)
InitPointer == pointer' = TRUE /\ UNCHANGED <<focus, lockVars, over, held, grouped>>

DestroyPointer ==
    /\ pointer' = FALSE /\ focus' = None
    /\ Unlock
    /\ over' = None /\ held' = {} /\ grouped' = FALSE

Events == pointer /\ UNCHANGED <<hasFrames, registered, cursorEnabled, pointer>>

Group == grouped' = hasFrames

\* The pointer leaves the surface it is locked to, and the lock stays.
Lapses(s) == lapsed' = (lapsed \/ lockedTo = s)

Accumulate(event) == acc' = event /\ sent' = {} /\ UNCHANGED <<focus, cursorShown, slots>>

AtOnce(kinds) ==
    /\ Send(kinds, focus)
    /\ UNCHANGED <<focus, acc, cursorShown, slots>>

PointerEnter(s) ==
    /\ Events /\ over = None /\ s \in registered
    /\ over' = s /\ Group
    /\ \/ /\ hasFrames
          /\ Accumulate([acc EXCEPT !.focus = s, !.focusChange = TRUE])
          /\ UNCHANGED lockVars
       \/ /\ ~hasFrames /\ MayConnect(s)
          /\ focus' = s
          /\ slots' = Connected(s)
          /\ SetCursor(s, cursorEnabled)
          /\ sent' = {} /\ UNCHANGED acc
    /\ UNCHANGED held

PointerLeave ==
    /\ Events /\ over # None /\ held = {}
    /\ over' = None /\ Group
    /\ \/ /\ hasFrames
          /\ Accumulate([acc EXCEPT !.focus = None, !.focusChange = TRUE])
       \/ /\ ~hasFrames
          /\ DisconnectAll(focus)
          /\ focus' = None
          /\ sent' = {} /\ UNCHANGED <<acc, cursorShown>>
    /\ Lapses(over) /\ UNCHANGED <<constraints, lockedTo, held>>

\* A position at the origin counts as none, and so does a delta of zero.
PointerMotion(atOrigin) ==
    /\ Events /\ over # None /\ Group
    /\ \/ hasFrames /\ Accumulate([acc EXCEPT !.pos = ~atOrigin])
       \/ ~hasFrames /\ AtOnce({"move"})
    /\ UNCHANGED <<lockVars, over, held>>

PointerAxis ==
    /\ Events /\ over # None /\ Group
    /\ \/ hasFrames /\ Accumulate([acc EXCEPT !.axis = TRUE])
       \/ ~hasFrames /\ AtOnce({"wheel"})
    /\ UNCHANGED <<lockVars, over, held>>

PointerRelativeMotionV1(zero) ==
    /\ Events /\ over # None /\ Group
    /\ \/ hasFrames /\ Accumulate([acc EXCEPT !.delta = ~zero])
       \/ ~hasFrames /\ AtOnce({"relative"})
    /\ UNCHANGED <<lockVars, over, held>>

PointerButton(b) ==
    /\ Events /\ over # None /\ ~acc.focusChange /\ Group
    /\ \/ b \notin held /\ held' = held \cup {b} /\ AtOnce({"press"})
       \/ b \in held /\ held' = held \ {b} /\ AtOnce({"release"})
    /\ UNCHANGED <<lockVars, over>>

\* Mutant: the focus is not cleared at the end of a frame that leaves.
PointerFrameMutant ==
    LET entered == acc.focusChange /\ acc.focus # None
        kinds == {k \in {"wheel", "move", "relative"} :
                    \/ k = "wheel" /\ acc.axis
                    \/ k = "move" /\ acc.pos
                    \/ k = "relative" /\ acc.delta}
    IN
    /\ Events /\ hasFrames /\ grouped
    /\ grouped' = FALSE
    /\ Send(kinds, acc.focus)
    /\ focus' = IF entered THEN acc.focus ELSE focus
    /\ entered => MayConnect(acc.focus)
    /\ slots' = IF entered THEN Connected(acc.focus) ELSE slots
    /\ \/ entered /\ SetCursor(acc.focus, cursorEnabled)
       \/ ~entered /\ UNCHANGED <<lockVars, cursorShown>>
    /\ acc' = [Nothing EXCEPT !.focus = acc.focus]
    /\ UNCHANGED <<over, held>>

PointerFrame ==
    LET entered == acc.focusChange /\ acc.focus # None
        left == acc.focusChange /\ acc.focus = None
        kinds == {k \in {"wheel", "move", "relative"} :
                    \/ k = "wheel" /\ acc.axis
                    \/ k = "move" /\ acc.pos
                    \/ k = "relative" /\ acc.delta}
    IN
    /\ Events /\ hasFrames /\ grouped
    /\ grouped' = FALSE
    /\ Send(kinds, acc.focus)
    /\ focus' = IF acc.focusChange THEN acc.focus ELSE focus
    /\ entered => MayConnect(acc.focus)
    /\ slots' = IF entered THEN Connected(acc.focus) ELSE slots
    /\ \/ entered /\ SetCursor(acc.focus, cursorEnabled)
       \/ ~entered /\ UNCHANGED <<lockVars, cursorShown>>
    /\ acc' = [Nothing EXCEPT !.focus = acc.focus]
    /\ UNCHANGED <<over, held>>
-----------------------------------------------------------------------------
(* The program.  A window left in a frame stays connected to setCursor,    *)
(* which is then about the focus, and one connected by a pointer that is   *)
(* gone would call into that.  No program code runs between an enter or    *)
(* leave and the end of its group.                                         *)
ChangeCursor(w) ==
    /\ (grouped => ~acc.focusChange)
    /\ Finds(w) /\ (slots[w] > 0 => pointer)
    /\ cursorEnabled' = [cursorEnabled EXCEPT ![w] = ~@]
    /\ \/ slots[w] > 0 /\ SetCursor(focus, cursorEnabled')
       \/ slots[w] = 0 /\ UNCHANGED <<lockVars, cursorShown>>
    /\ sent' = {}
    /\ UNCHANGED <<hasFrames, registered, pointer, focus, acc, slots, over, held, grouped>>

\* destroy of the platform window: the compositor forgets the surface silently.
DestroyWindow(w) ==
    /\ (grouped => ~acc.focusChange) /\ Finds(w)
    /\ registered' = registered \ {w}
    /\ over' = IF over = w THEN None ELSE over
    /\ held' = IF over = w THEN {} ELSE held
    /\ Lapses(w)
    /\ sent' = {}
    /\ UNCHANGED <<hasFrames, cursorEnabled, pointer, focus, acc, constraints, lockedTo,
                   cursorShown, slots, grouped>>

ManagerChanges(to) ==
    /\ constraints' = to /\ sent' = {}
    /\ UNCHANGED <<hasFrames, registered, cursorEnabled, pointer, focus, acc, cursorShown,
                   slots, over, held, grouped>>

\* global for zwp_pointer_constraints_v1, of which the compositor has one.
ConstraintsCome ==
    /\ constraints # "live" /\ ManagerChanges("live")
    /\ lapsed' = (lapsed \/ pointer) /\ UNCHANGED lockedTo

\* Mutant: the seat keeps its lock.
ConstraintsGoMutant ==
    /\ constraints = "live" /\ ManagerChanges("gone")
    /\ UNCHANGED <<lockedTo, lapsed>>

\* globalRemove: destroyPointerConstraintsV1 of every seat.
ConstraintsGo ==
    /\ constraints = "live" /\ ManagerChanges("gone")
    /\ lockedTo' = "unlocked" /\ UNCHANGED lapsed

PointerNext ==
    \/ \E w \in Windows : PointerEnter(w) \/ ChangeCursor(w) \/ DestroyWindow(w)
    \/ PointerLeave \/ PointerAxis \/ PointerFrame \/ ConstraintsCome \/ ConstraintsGo
    \/ \E atOrigin \in BOOLEAN : PointerMotion(atOrigin) \/ PointerRelativeMotionV1(atOrigin)
    \/ \E b \in Buttons : PointerButton(b)
-----------------------------------------------------------------------------
(* Between groups the client's focus is the compositor's, or a surface     *)
(* that was destroyed and that no lookup finds.                            *)
FocusAgrees ==
    pointer /\ ~grouped => focus = over \/ (focus # None /\ ~Finds(focus))

(* The pointer is hidden exactly while the cursor of the window it is in is*)
(* disabled, however it came there and whenever the program changed that or*)
(* another window's cursor.  It is free while that cursor is enabled, and  *)
(* otherwise locked to that very window, if the compositor can lock it and *)
(* did not, since it is locked, take it elsewhere.  No lock outlives the   *)
(* pointer or the manager.                                                 *)
LockFollowsCursor ==
    /\ pointer /\ ~grouped /\ Finds(focus) =>
          /\ cursorShown = cursorEnabled[focus]
          /\ cursorEnabled[focus] => lockedTo = "unlocked"
          /\ ~cursorEnabled[focus] /\ constraints = "live" /\ ~lapsed => lockedTo = focus
    /\ lockedTo # "unlocked" => pointer /\ constraints = "live"

(* Events reach the window the pointer is in, those of a group the one it  *)
(* is in when the group ends, never one that it has left.                  *)
SentToFocus ==
    \A e \in sent' : e[2] = focus' /\ e[2] = over
=============================================================================
