----------------------------- MODULE SeatProofs -----------------------------
(***************************************************************************)
(* The Wayland seat and the compositor agree, for any windows, buttons,    *)
(* keys and fingers, and whatever devices the seat is made of.  At the end:*)
(* the keys and modifiers a window is told of (Keyboards, four platforms). *)
(***************************************************************************)
EXTENDS WaylandSeat, Keyboards, TLAPS

(***************************************************************************)
(* The pointer.  A group whose focus changes knows where the pointer is    *)
(* now; at any other time the client's focus is where it is, or a surface  *)
(* that was destroyed, and what is accumulated is for the focus.           *)
(***************************************************************************)
Changing == grouped /\ acc.focusChange

FramesMakeGroups == grouped => hasFrames

NoPointerNoFocus ==
    ~pointer => focus = None /\ over = None /\ ~grouped

GroupKnowsWhere == pointer /\ Changing => acc.focus = over

FocusIsWhere ==
    pointer /\ ~Changing => focus = over \/ (focus # None /\ ~Finds(focus))

GroupIsForFocus ==
    pointer /\ hasFrames =>
        /\ grouped /\ ~acc.focusChange => acc.focus = focus
        /\ ~grouped /\ over # None => ~acc.focusChange /\ acc.focus = focus

FocusIsConnected == pointer /\ Finds(focus) => slots[focus] > 0

LockFollows ==
    pointer /\ ~Changing /\ Finds(focus) =>
        /\ cursorShown = cursorEnabled[focus]
        /\ cursorEnabled[focus] => lockedTo = "unlocked"
        /\ ~cursorEnabled[focus] /\ constraints = "live" => lockedTo # "unlocked" \/ lapsed

LockIsWhere ==
    lockedTo # "unlocked" =>
        pointer /\ constraints = "live" /\ (lapsed \/ lockedTo = over)

SentInside == \A e \in sent : e[2] = focus /\ e[2] = over

PointerInv ==
    /\ PointerTypeOK
    /\ FramesMakeGroups /\ NoPointerNoFocus
    /\ GroupKnowsWhere /\ FocusIsWhere /\ GroupIsForFocus
    /\ FocusIsConnected /\ LockFollows /\ LockIsWhere /\ SentInside

LEMMA PointerStart == PointerInit => PointerInv
<1> SUFFICES ASSUME PointerInit PROVE PointerInv
  OBVIOUS
<1> USE DEF PointerInit
<1>1. PICK garbage \in BOOLEAN : acc = [Nothing EXCEPT !.focusChange = garbage]
  OBVIOUS
<1>2. acc \in [focus : Windows \cup {None}, focusChange : BOOLEAN,
               axis : BOOLEAN, pos : BOOLEAN, delta : BOOLEAN]
  BY <1>1 DEF Nothing
<1>3. slots \in [Windows -> 0..MaxSlots]
  BY SeatAssumption
<1>4. PointerTypeOK
  BY <1>2, <1>3 DEF PointerTypeOK
<1> QED
  BY <1>4 DEF PointerInv, FramesMakeGroups, NoPointerNoFocus, Changing, GroupKnowsWhere,
     FocusIsWhere, GroupIsForFocus, FocusIsConnected, LockFollows, LockIsWhere, SentInside

(***************************************************************************)
(* Locking and hiding.  After setCursor for a surface that is found the    *)
(* pointer is hidden exactly if its cursor is disabled, free if it is not, *)
(* and locked if it can be.  A new lock is for the surface the pointer is  *)
(* on, if setCursor is about that surface.                                 *)
(***************************************************************************)
SetTo(s, enabled) ==
    /\ cursorShown' = enabled[s]
    /\ enabled[s] => lockedTo' = "unlocked"
    /\ ~enabled[s] /\ constraints' = "live" => lockedTo' # "unlocked"

LEMMA SetCursorFollows ==
    ASSUME NEW s \in Windows, NEW enabled \in [Windows -> BOOLEAN], Finds(s),
           SetCursor(s, enabled)
    PROVE  SetTo(s, enabled)
<1>1. CASE enabled[s]
  BY <1>1 DEF SetCursor, Unlock, SetTo
<1>2. CASE ~enabled[s]
  <2>1. cursorShown' = FALSE /\ Lock(s)
    BY <1>2 DEF SetCursor
  <2>2. constraints' = "live" => lockedTo' # "unlocked"
    BY <2>1, SeatAssumption DEF Lock
  <2> QED BY <1>2, <2>1, <2>2 DEF SetTo
<1> QED BY <1>1, <1>2

LockTypes ==
    /\ constraints \in {"none", "live", "gone"} /\ lapsed \in BOOLEAN
    /\ lockedTo \in Windows \cup {"unlocked"}

LEMMA SetCursorLocks ==
    ASSUME NEW s, NEW enabled \in [Windows -> BOOLEAN], LockTypes, LockIsWhere,
           registered \subseteq Windows, pointer, pointer',
           over' = over \/ over = None, Finds(s) => s = over', SetCursor(s, enabled)
    PROVE  LockIsWhere' /\ LockTypes' /\ cursorShown' \in BOOLEAN
<1>1. lockedTo # "unlocked" => constraints = "live" /\ (lapsed \/ lockedTo = over')
  BY SeatAssumption DEF LockIsWhere, LockTypes
<1>2. CASE Finds(s) /\ enabled[s]
  BY <1>2 DEF SetCursor, Unlock, LockIsWhere, LockTypes
<1>3. CASE ~(Finds(s) /\ enabled[s])
  <2>1. cursorShown' = FALSE /\ Lock(s)
    BY <1>3 DEF SetCursor
  <2>2. CASE constraints = "live" /\ lockedTo = "unlocked"
    <3>1. lockedTo' = s /\ lapsed' = FALSE /\ constraints' = constraints /\ Finds(s)
      BY <2>1, <2>2 DEF Lock
    <3> QED BY <2>1, <2>2, <3>1 DEF LockIsWhere, LockTypes, Finds
  <2>3. CASE ~(constraints = "live" /\ lockedTo = "unlocked")
    <3>1. UNCHANGED lockVars
      BY <2>1, <2>3 DEF Lock, lockVars
    <3> QED BY <1>1, <2>1, <3>1 DEF LockIsWhere, LockTypes, lockVars
  <2> QED BY <2>2, <2>3
<1> QED BY <1>2, <1>3

LEMMA ConnectedGrows ==
    ASSUME NEW s \in Windows, slots \in [Windows -> 0..MaxSlots], Finds(s), MayConnect(s)
    PROVE  /\ Connected(s) \in [Windows -> 0..MaxSlots] /\ Connected(s)[s] > 0
BY SeatAssumption DEF Connected, MayConnect

LEMMA SendGoesTo ==
    ASSUME NEW kinds \in SUBSET {"move", "wheel", "relative", "press", "release"},
           NEW s, registered \subseteq Windows, Send(kinds, s)
    PROVE  /\ sent' \in SUBSET ({"move", "wheel", "relative", "press", "release"} \X Windows)
           /\ \A e \in sent' : e[2] = s /\ Finds(s)
BY DEF Send, Finds

(***************************************************************************)
(* The events of a group and the single events, one by one.                *)
(***************************************************************************)
LEMMA EnterStep == ASSUME PointerInv, NEW s \in Windows, PointerEnter(s) PROVE PointerInv'
<1> USE DEF PointerInv
<1>0. s # None /\ Finds(s) /\ over = None /\ pointer /\ over' = s /\ sent' = {}
  BY SeatAssumption DEF PointerEnter, Events, Finds, Accumulate
<1>1. CASE hasFrames
  <2>1. /\ acc' = [acc EXCEPT !.focus = s, !.focusChange = TRUE] /\ grouped' = TRUE
        /\ UNCHANGED <<hasFrames, registered, cursorEnabled, pointer, focus, constraints,
                       lockedTo, lapsed, cursorShown, slots, held>>
    BY <1>1 DEF PointerEnter, Events, Group, Accumulate, lockVars
  <2>2. acc'.focus = s /\ acc'.focusChange
    BY <2>1 DEF PointerTypeOK
  <2> QED
    BY <1>0, <1>1, <2>1, <2>2, SeatAssumption
    DEF PointerTypeOK, FramesMakeGroups, NoPointerNoFocus, Changing, GroupKnowsWhere,
        FocusIsWhere, GroupIsForFocus, FocusIsConnected, LockFollows, LockIsWhere, SentInside, Finds
<1>2. CASE ~hasFrames
  <2>1. /\ focus' = s /\ slots' = Connected(s) /\ SetCursor(s, cursorEnabled) /\ grouped' = FALSE
        /\ MayConnect(s)
        /\ UNCHANGED <<hasFrames, registered, cursorEnabled, pointer, acc, held>>
    BY <1>2 DEF PointerEnter, Events, Group
  <2>2. SetTo(s, cursorEnabled) /\ LockIsWhere' /\ LockTypes' /\ cursorShown' \in BOOLEAN
    BY <1>0, <2>1, SetCursorFollows, SetCursorLocks DEF PointerTypeOK, LockTypes
  <2>3. slots' \in [Windows -> 0..MaxSlots] /\ slots'[s] > 0
    BY <1>0, <2>1, ConnectedGrows DEF PointerTypeOK
  <2> QED
    BY <1>0, <1>2, <2>1, <2>2, <2>3
    DEF PointerTypeOK, FramesMakeGroups, NoPointerNoFocus, Changing, GroupKnowsWhere,
        FocusIsWhere, GroupIsForFocus, FocusIsConnected, LockFollows, LockTypes, SetTo,
        SentInside, Finds
<1> QED BY <1>1, <1>2

LEMMA LeaveStep == ASSUME PointerInv, PointerLeave PROVE PointerInv'
<1> USE DEF PointerInv
<1>0. /\ over # None /\ held' = held /\ pointer /\ over' = None /\ sent' = {} /\ ~Finds(None)
      /\ lapsed' = (lapsed \/ lockedTo = over)
      /\ UNCHANGED <<hasFrames, registered, cursorEnabled, pointer, constraints, lockedTo,
                     cursorShown>>
  BY SeatAssumption DEF PointerLeave, Events, Finds, Accumulate, PointerTypeOK, Lapses
<1>1. CASE hasFrames
  <2>1. /\ acc' = [acc EXCEPT !.focus = None, !.focusChange = TRUE] /\ grouped' = TRUE
        /\ UNCHANGED <<focus, slots>>
    BY <1>1 DEF PointerLeave, Group, Accumulate
  <2>2. acc'.focus = None /\ acc'.focusChange
    BY <2>1 DEF PointerTypeOK
  <2> QED
    BY <1>0, <1>1, <2>1, <2>2
    DEF PointerTypeOK, FramesMakeGroups, NoPointerNoFocus, Changing, GroupKnowsWhere,
        FocusIsWhere, GroupIsForFocus, FocusIsConnected, LockFollows, LockIsWhere, SentInside, Finds
<1>2. CASE ~hasFrames
  <2>1. /\ focus' = None /\ DisconnectAll(focus) /\ grouped' = FALSE /\ acc' = acc
    BY <1>2 DEF PointerLeave, Group
  <2>2. slots' \in [Windows -> 0..MaxSlots]
    <3>1. 0 \in 0..MaxSlots
      BY SeatAssumption
    <3> QED BY <2>1, <3>1 DEF DisconnectAll, PointerTypeOK
  <2> QED
    BY <1>0, <1>2, <2>1, <2>2
    DEF PointerTypeOK, FramesMakeGroups, NoPointerNoFocus, Changing, GroupKnowsWhere,
        FocusIsWhere, GroupIsForFocus, FocusIsConnected, LockFollows, LockIsWhere, SentInside, Finds
<1> QED BY <1>1, <1>2

(***************************************************************************)
(* An event within a group that changes no focus, and one that is sent to  *)
(* the focus at once: it is where the pointer is.                          *)
(***************************************************************************)
LEMMA AccumulateStep ==
    ASSUME PointerInv, NEW event, pointer, hasFrames, over # None, Accumulate(event), Group,
           event \in [focus : {acc.focus}, focusChange : {acc.focusChange},
                      axis : BOOLEAN, pos : BOOLEAN, delta : BOOLEAN],
           UNCHANGED <<hasFrames, registered, cursorEnabled, pointer, lockVars, over, held>>
    PROVE  PointerInv'
<1> USE DEF PointerInv
<1>1. /\ acc'.focus = acc.focus /\ acc'.focusChange = acc.focusChange /\ sent' = {}
      /\ UNCHANGED <<focus, constraints, lockedTo, lapsed, cursorShown, slots>> /\ grouped' = TRUE
      /\ acc' \in [focus : Windows \cup {None}, focusChange : BOOLEAN,
                   axis : BOOLEAN, pos : BOOLEAN, delta : BOOLEAN]
  BY DEF Accumulate, Group, PointerTypeOK, lockVars
<1>2. PointerTypeOK'
  BY <1>1 DEF PointerTypeOK
<1>3. acc.focusChange => Changing
  BY DEF GroupIsForFocus, Changing
<1>4. ~acc.focusChange => acc.focus = focus
  BY DEF GroupIsForFocus
<1> QED
  BY <1>1, <1>2, <1>3, <1>4
  DEF FramesMakeGroups, NoPointerNoFocus, Changing, GroupKnowsWhere,
      FocusIsWhere, GroupIsForFocus, FocusIsConnected, LockFollows, LockIsWhere, SentInside, Finds

LEMMA AtOnceStep ==
    ASSUME PointerInv, NEW kinds \in SUBSET {"move", "wheel", "relative", "press", "release"},
           pointer, over # None, ~Changing, hasFrames => ~acc.focusChange, AtOnce(kinds), Group,
           held' \subseteq Buttons,
           UNCHANGED <<hasFrames, registered, cursorEnabled, pointer, lockVars, over>>
    PROVE  PointerInv'
<1> USE DEF PointerInv
<1>1. /\ UNCHANGED <<focus, acc, constraints, lockedTo, lapsed, cursorShown, slots>>
      /\ Send(kinds, focus)
  BY DEF AtOnce, lockVars
<1>2. /\ sent' \in SUBSET ({"move", "wheel", "relative", "press", "release"} \X Windows)
      /\ \A e \in sent' : e[2] = focus /\ Finds(focus)
  BY <1>1, SendGoesTo DEF PointerTypeOK
<1>3. SentInside'
  BY <1>1, <1>2 DEF SentInside, FocusIsWhere
<1>4. grouped' = hasFrames
  BY DEF Group
<1>5. ~Changing'
  BY <1>1, <1>4 DEF Changing
<1>6. hasFrames => acc.focus = focus
  BY DEF GroupIsForFocus
<1>7. PointerTypeOK'
  BY <1>1, <1>2, <1>4 DEF PointerTypeOK
<1> QED
  BY <1>1, <1>3, <1>4, <1>5, <1>6, <1>7
  DEF FramesMakeGroups, NoPointerNoFocus, GroupKnowsWhere,
      FocusIsWhere, GroupIsForFocus, FocusIsConnected, LockFollows, LockIsWhere, Finds

LEMMA SingleEventStep ==
    ASSUME PointerInv,
           PointerAxis \/ \E zero \in BOOLEAN : PointerMotion(zero) \/ PointerRelativeMotionV1(zero)
    PROVE  PointerInv'
<1>0. /\ pointer /\ over # None /\ Group
      /\ UNCHANGED <<hasFrames, registered, cursorEnabled, pointer, lockVars, over, held>>
  BY DEF PointerAxis, PointerMotion, PointerRelativeMotionV1, Events
<1>1. CASE hasFrames
  <2>1. acc \in [focus : {acc.focus}, focusChange : {acc.focusChange},
                 axis : BOOLEAN, pos : BOOLEAN, delta : BOOLEAN]
    BY DEF PointerInv, PointerTypeOK
  <2>2. \E event \in [focus : {acc.focus}, focusChange : {acc.focusChange},
                      axis : BOOLEAN, pos : BOOLEAN, delta : BOOLEAN] : Accumulate(event)
    BY <1>1, <2>1 DEF PointerAxis, PointerMotion, PointerRelativeMotionV1
  <2> QED BY <1>0, <1>1, <2>2, AccumulateStep
<1>2. CASE ~hasFrames
  <2>1. \E k \in {"move", "wheel", "relative"} : AtOnce({k})
    BY <1>2 DEF PointerAxis, PointerMotion, PointerRelativeMotionV1
  <2>2. PICK kinds \in SUBSET {"move", "wheel", "relative", "press", "release"} : AtOnce(kinds)
    BY <2>1
  <2>3. ~Changing /\ held' \subseteq Buttons
    BY <1>0, <1>2 DEF Changing, PointerInv, FramesMakeGroups, PointerTypeOK
  <2> QED BY <1>0, <1>2, <2>2, <2>3, AtOnceStep
<1> QED BY <1>1, <1>2

LEMMA ButtonStep ==
    ASSUME PointerInv, NEW b \in Buttons, PointerButton(b) PROVE PointerInv'
<1>1. /\ pointer /\ over # None /\ Group /\ ~acc.focusChange
      /\ UNCHANGED <<hasFrames, registered, cursorEnabled, pointer, lockVars, over>>
  BY DEF PointerButton, Events
<1>2. held' \subseteq Buttons
  BY DEF PointerButton, PointerInv, PointerTypeOK
<1>3. AtOnce({"press"}) \/ AtOnce({"release"})
  BY DEF PointerButton
<1>4. PICK kinds \in SUBSET {"move", "wheel", "relative", "press", "release"} : AtOnce(kinds)
  BY <1>3
<1> QED BY <1>1, <1>2, <1>4, AtOnceStep DEF Changing

(***************************************************************************)
(* The end of a group: the focus becomes the surface accumulated.          *)
(***************************************************************************)
LEMMA FrameStep == ASSUME PointerInv, PointerFrame PROVE PointerInv'
<1> USE DEF PointerInv
<1> DEFINE entered == acc.focusChange /\ acc.focus # None
           kinds == {k \in {"wheel", "move", "relative"} :
                       \/ k = "wheel" /\ acc.axis
                       \/ k = "move" /\ acc.pos
                       \/ k = "relative" /\ acc.delta}
<1>0. /\ pointer /\ hasFrames /\ grouped /\ grouped' = FALSE /\ Send(kinds, acc.focus)
      /\ UNCHANGED <<hasFrames, registered, cursorEnabled, pointer, over, held>>
      /\ focus' = (IF acc.focusChange THEN acc.focus ELSE focus)
      /\ acc' = [Nothing EXCEPT !.focus = acc.focus]
  BY DEF PointerFrame, Events
<1>1. /\ entered => MayConnect(acc.focus) /\ slots' = Connected(acc.focus)
                    /\ SetCursor(acc.focus, cursorEnabled)
      /\ ~entered => UNCHANGED <<slots, constraints, lockedTo, lapsed, cursorShown>>
  BY DEF PointerFrame, lockVars
<1>2. focus' = acc.focus /\ acc.focus \in Windows \cup {None}
  BY <1>0 DEF GroupIsForFocus, PointerTypeOK
<1>3. /\ acc' \in [focus : Windows \cup {None}, focusChange : BOOLEAN,
                   axis : BOOLEAN, pos : BOOLEAN, delta : BOOLEAN]
      /\ acc'.focus = acc.focus /\ ~acc'.focusChange
  BY <1>0, <1>2 DEF Nothing
<1>4. acc.focus = over \/ (acc.focus # None /\ ~Finds(acc.focus))
  BY <1>0 DEF GroupKnowsWhere, FocusIsWhere, GroupIsForFocus, Changing
<1>5. /\ sent' \in SUBSET ({"move", "wheel", "relative", "press", "release"} \X Windows)
      /\ \A e \in sent' : e[2] = acc.focus /\ Finds(acc.focus)
  <2>1. kinds \in SUBSET {"move", "wheel", "relative", "press", "release"}
    OBVIOUS
  <2>2. registered \subseteq Windows
    BY DEF PointerTypeOK
  <2> HIDE DEF kinds
  <2> QED BY <1>0, <2>1, <2>2, SendGoesTo
<1>6. SentInside'
  BY <1>0, <1>2, <1>4, <1>5 DEF SentInside
<1>7. /\ slots' \in [Windows -> 0..MaxSlots] /\ cursorShown' \in BOOLEAN
      /\ LockTypes' /\ LockIsWhere'
      /\ Finds(acc.focus) =>
            /\ slots'[acc.focus] > 0
            /\ cursorShown' = cursorEnabled[acc.focus]
            /\ cursorEnabled[acc.focus] => lockedTo' = "unlocked"
            /\ ~cursorEnabled[acc.focus] /\ constraints' = "live" =>
                  lockedTo' # "unlocked" \/ lapsed'
  <2>1. CASE entered
    <3>1. acc.focus \in Windows /\ (acc.focus = over \/ ~Finds(acc.focus))
      BY <1>2, <1>4, <2>1
    <3>2. LockIsWhere' /\ LockTypes' /\ cursorShown' \in BOOLEAN
      BY <1>0, <1>1, <2>1, <3>1, SetCursorLocks DEF PointerTypeOK, LockTypes
    <3>3. CASE Finds(acc.focus)
      BY <1>1, <2>1, <3>1, <3>2, <3>3, SetCursorFollows, ConnectedGrows
      DEF PointerTypeOK, SetTo
    <3>4. CASE ~Finds(acc.focus)
      <4>1. slots' = slots
        BY <1>1, <2>1, <3>4 DEF Connected
      <4> QED BY <3>2, <3>4, <4>1 DEF PointerTypeOK
    <3> QED BY <3>3, <3>4
  <2>2. CASE ~entered
    <3>1. UNCHANGED <<slots, constraints, lockedTo, lapsed, cursorShown>>
      BY <1>1, <2>2
    <3>2. ~Finds(None)
      BY SeatAssumption DEF Finds, PointerTypeOK
    <3>3. Finds(acc.focus) => ~Changing /\ acc.focus = focus
      BY <1>0, <2>2, <3>2 DEF Changing, GroupIsForFocus
    <3> QED
      BY <1>0, <3>1, <3>3
      DEF PointerTypeOK, FocusIsConnected, LockFollows, LockIsWhere, LockTypes
  <2> QED BY <2>1, <2>2
<1>8. PointerTypeOK'
  BY <1>0, <1>2, <1>3, <1>5, <1>7 DEF PointerTypeOK, LockTypes
<1> QED
  BY <1>0, <1>2, <1>3, <1>4, <1>6, <1>7, <1>8
  DEF FramesMakeGroups, NoPointerNoFocus, Changing, GroupKnowsWhere,
      FocusIsWhere, GroupIsForFocus, FocusIsConnected, LockFollows, LockIsWhere, Finds

(***************************************************************************)
(* The program, and devices that come and go.                              *)
(***************************************************************************)
LEMMA ChangeCursorStep == ASSUME PointerInv, NEW w \in Windows, ChangeCursor(w) PROVE PointerInv'
<1> USE DEF PointerInv
<1>0. /\ Finds(w) /\ ~Changing /\ sent' = {}
      /\ cursorEnabled' = [cursorEnabled EXCEPT ![w] = ~cursorEnabled[w]]
      /\ UNCHANGED <<hasFrames, registered, pointer, focus, acc, slots, over, held, grouped>>
  BY DEF ChangeCursor, Changing
<1>1. cursorEnabled' \in [Windows -> BOOLEAN]
  BY <1>0 DEF PointerTypeOK
<1>2. CASE slots[w] > 0
  <2>1. pointer /\ SetCursor(focus, cursorEnabled')
    BY <1>2 DEF ChangeCursor
  <2>2. Finds(focus) => focus = over
    BY <1>0, <2>1 DEF FocusIsWhere
  <2>3. LockIsWhere' /\ LockTypes' /\ cursorShown' \in BOOLEAN
    BY <1>0, <1>1, <2>1, <2>2, SetCursorLocks DEF PointerTypeOK, LockTypes
  <2>4. Finds(focus) => SetTo(focus, cursorEnabled')
    BY <1>1, <2>1, SetCursorFollows DEF PointerTypeOK, Finds
  <2> QED
    BY <1>0, <1>1, <2>1, <2>3, <2>4
    DEF PointerTypeOK, FramesMakeGroups, NoPointerNoFocus, Changing, GroupKnowsWhere,
        FocusIsWhere, GroupIsForFocus, FocusIsConnected, LockFollows, LockTypes, SetTo,
        SentInside, Finds
<1>3. CASE slots[w] = 0
  <2>1. UNCHANGED <<constraints, lockedTo, lapsed, cursorShown>>
    BY <1>3 DEF ChangeCursor, lockVars
  <2>2. pointer /\ Finds(focus) => focus # w /\ cursorEnabled'[focus] = cursorEnabled[focus]
    BY <1>0, <1>3 DEF FocusIsConnected, PointerTypeOK, Finds
  <2> QED
    BY <1>0, <1>1, <2>1, <2>2
    DEF PointerTypeOK, FramesMakeGroups, NoPointerNoFocus, Changing, GroupKnowsWhere,
        FocusIsWhere, GroupIsForFocus, FocusIsConnected, LockFollows, LockIsWhere, SentInside, Finds
<1> QED BY <1>2, <1>3 DEF PointerTypeOK

LEMMA DestroyWindowStep ==
    ASSUME PointerInv, NEW w \in Windows, DestroyWindow(w) PROVE PointerInv'
<1> USE DEF PointerInv
<1>1. /\ Finds(w) /\ ~Changing /\ sent' = {} /\ registered' = registered \ {w}
      /\ over' = (IF over = w THEN None ELSE over) /\ held' \subseteq Buttons
      /\ lapsed' = (lapsed \/ lockedTo = w)
      /\ UNCHANGED <<hasFrames, cursorEnabled, pointer, focus, acc, constraints, lockedTo,
                     cursorShown, slots, grouped>>
  BY DEF DestroyWindow, Changing, PointerTypeOK, Lapses
<1>2. w # None
  BY SeatAssumption
<1> QED
  BY <1>1, <1>2
  DEF PointerTypeOK, FramesMakeGroups, NoPointerNoFocus, Changing, GroupKnowsWhere,
      FocusIsWhere, GroupIsForFocus, FocusIsConnected, LockFollows, LockIsWhere, SentInside, Finds

LEMMA ConstraintsStep ==
    ASSUME PointerInv, ConstraintsCome \/ ConstraintsGo PROVE PointerInv'
<1> USE DEF PointerInv
<1>1. /\ sent' = {}
      /\ UNCHANGED <<hasFrames, registered, cursorEnabled, pointer, focus, acc, cursorShown,
                     slots, over, held, grouped>>
  BY DEF ConstraintsCome, ConstraintsGo, ManagerChanges
<1>2. \/ /\ constraints # "live" /\ constraints' = "live"
         /\ lapsed' = (lapsed \/ pointer) /\ lockedTo' = lockedTo
      \/ constraints' = "gone" /\ lockedTo' = "unlocked" /\ lapsed' = lapsed
  BY DEF ConstraintsCome, ConstraintsGo, ManagerChanges
<1>3. PointerTypeOK'
  BY <1>1, <1>2 DEF PointerTypeOK
<1> QED
  BY <1>1, <1>2, <1>3
  DEF FramesMakeGroups, NoPointerNoFocus, Changing, GroupKnowsWhere,
      FocusIsWhere, GroupIsForFocus, FocusIsConnected, LockFollows, LockIsWhere, SentInside, Finds

LEMMA DeviceStep == ASSUME PointerInv, NEW change, change = "init" => ~pointer, Pointer(change)
                    PROVE  PointerInv'
<1> USE DEF PointerInv
<1>0. sent' = {} /\ UNCHANGED <<hasFrames, registered, cursorEnabled, acc, cursorShown, slots>>
  BY DEF Pointer
<1>1. CASE change = "init"
  <2>1. /\ ~pointer /\ pointer' = TRUE
        /\ UNCHANGED <<focus, constraints, lockedTo, lapsed, over, held, grouped>>
    BY <1>1 DEF Pointer, InitPointer, lockVars
  <2>2. ~Finds(None)
    BY SeatAssumption DEF Finds, PointerTypeOK
  <2> QED
    BY <1>0, <2>1, <2>2
    DEF PointerTypeOK, FramesMakeGroups, NoPointerNoFocus, Changing, GroupKnowsWhere,
        FocusIsWhere, GroupIsForFocus, FocusIsConnected, LockFollows, LockIsWhere, SentInside, Finds
<1>2. CASE change = "destroy"
  <2>1. /\ pointer' = FALSE /\ focus' = None /\ lockedTo' = "unlocked" /\ over' = None
        /\ held' = {} /\ grouped' = FALSE /\ constraints' = constraints /\ lapsed' = FALSE
    BY <1>2 DEF Pointer, DestroyPointer, Unlock
  <2> QED
    BY <1>0, <2>1
    DEF PointerTypeOK, FramesMakeGroups, NoPointerNoFocus, Changing, GroupKnowsWhere,
        FocusIsWhere, GroupIsForFocus, FocusIsConnected, LockFollows, LockIsWhere, SentInside, Finds
<1>3. CASE change = "none"
  <2>1. UNCHANGED <<pointer, focus, constraints, lockedTo, lapsed, over, held, grouped>>
    BY <1>3 DEF Pointer, lockVars
  <2> QED
    BY <1>0, <2>1
    DEF PointerTypeOK, FramesMakeGroups, NoPointerNoFocus, Changing, GroupKnowsWhere,
        FocusIsWhere, GroupIsForFocus, FocusIsConnected, LockFollows, LockIsWhere, SentInside, Finds
<1> QED BY <1>1, <1>2, <1>3 DEF Pointer

LEMMA PointerUnchanged == PointerInv /\ UNCHANGED pointerVars => PointerInv'
BY DEF pointerVars, clientVars, lockVars, PointerInv, PointerTypeOK, FramesMakeGroups, NoPointerNoFocus,
       Changing, GroupKnowsWhere, FocusIsWhere, GroupIsForFocus, FocusIsConnected,
       LockFollows, LockIsWhere, SentInside, Finds

LEMMA PointerStep == PointerInv /\ [Next]_vars => PointerInv'
<1> SUFFICES ASSUME PointerInv, [Next]_vars PROVE PointerInv'
  OBVIOUS
<1>1. CASE PointerNext
  BY <1>1, EnterStep, LeaveStep, SingleEventStep, ButtonStep, FrameStep, ChangeCursorStep,
     DestroyWindowStep, ConstraintsStep DEF PointerNext
<1>2. CASE KeyboardNext \/ TouchNext
  <2>1. UNCHANGED pointerVars
    BY <1>2 DEF KeyboardNext, TouchNext, KeyboardKeymap, KeyboardLeave, KeyboardRepeatKey,
       KeyboardEnter, KeyPressed, KeyReleased, KeyEvents, TouchDown, TouchUp, TouchCancel,
       TouchEvents
  <2> QED BY <2>1, PointerUnchanged
<1>3. ASSUME NEW caps \in SUBSET devices, Capabilities(caps)
      PROVE  PointerInv'
  <2>1. /\ Pointer(PointerChanges(pointer, "pointer" \in caps))
        /\ PointerChanges(pointer, "pointer" \in caps) = "init" => ~pointer
    BY <1>3 DEF Capabilities, PointerChanges
  <2> QED BY <2>1, DeviceStep
<1>4. CASE SeatRemoved
  <2>1. Pointer(IF pointer THEN "destroy" ELSE "none")
    BY <1>4 DEF SeatRemoved
  <2> QED BY <2>1, DeviceStep
<1>5. CASE UNCHANGED vars
  BY <1>5, PointerUnchanged DEF vars
<1> QED BY <1>1, <1>2, <1>3, <1>4, <1>5 DEF Next
-----------------------------------------------------------------------------
(***************************************************************************)
(* The keyboard: client and compositor always agree on its focus, and a    *)
(* keymap is loaded only if the compositor's format is supported.          *)
(***************************************************************************)
KeyboardInv ==
    /\ KeyboardTypeOK /\ RepeatsOnlyHeld
    /\ kbFocus = kbOver /\ (keymap => supported)

LEMMA KeyboardUnchanged ==
    KeyboardInv /\ UNCHANGED <<keyboardVars, touchVars>> => KeyboardInv'
BY DEF keyboardVars, touchVars, KeyboardInv, KeyboardTypeOK, RepeatsOnlyHeld

LEMMA KeyStep == ASSUME KeyboardInv, KeyboardNext PROVE KeyboardInv'
<1> USE DEF KeyboardInv, KeyboardTypeOK, RepeatsOnlyHeld, KeyEvents, touchVars
<1>1. CASE KeyboardKeymap
  BY <1>1 DEF KeyboardKeymap
<1>2. CASE KeyboardLeave
  BY <1>2 DEF KeyboardLeave, Stop
<1>3. CASE KeyboardRepeatKey
  BY <1>3 DEF KeyboardRepeatKey, SendKeys
<1>4. ASSUME NEW w \in Windows, KeyboardEnter(w)
      PROVE  KeyboardInv'
  BY <1>4 DEF KeyboardEnter
<1>5. ASSUME NEW k \in Keys, KeyPressed(k)
      PROVE  KeyboardInv'
  <2>1. CASE keymap
    <3>1. /\ repeat' = [running |-> TRUE, key |-> k, interval |-> "delay"] /\ keymap' = keymap
          /\ down' = down \cup {k} /\ SendKeys({"press"}) /\ keyboard
          /\ UNCHANGED <<kbFocus, kbOver, keyboard, supported, touch, point, leftDown, fingers>>
      BY <1>5, <2>1 DEF KeyPressed
    <3>2. keysSent' \in {{}, {"press"}}
      BY <3>1 DEF SendKeys
    <3>3. repeat' \in [running : BOOLEAN, key : Keys \cup {None}, interval : {"delay", "rate"}]
          /\ repeat'.key \in down'
      BY <3>1
    <3> QED BY <2>1, <3>1, <3>2, <3>3
  <2>2. CASE ~keymap
    BY <1>5, <2>2 DEF KeyPressed
  <2> QED BY <2>1, <2>2
<1>6. ASSUME NEW k \in Keys, KeyReleased(k)
      PROVE  KeyboardInv'
  BY <1>6 DEF KeyReleased, SendKeys, Stop
<1> QED BY <1>1, <1>2, <1>3, <1>4, <1>5, <1>6 DEF KeyboardNext

LEMMA TouchStep == ASSUME KeyboardInv, TouchNext PROVE KeyboardInv'
<1> USE DEF KeyboardInv, KeyboardTypeOK, RepeatsOnlyHeld, TouchEvents, keyboardVars, Presses
<1>1. ASSUME NEW f \in Fingers, NEW w \in Windows, TouchDown(f, w)
      PROVE  KeyboardInv'
  <2>1. /\ fingers' \in [Fingers -> Windows \cup {None}]
        /\ leftDown' \in [Windows -> BOOLEAN]
    BY <1>1 DEF TouchDown
  <2>2. point' \in [id : Fingers \cup {None}, counts : BOOLEAN]
    <3>1. [id |-> f, counts |-> TRUE] \in [id : Fingers \cup {None}, counts : BOOLEAN]
      OBVIOUS
    <3> QED BY <1>1, <3>1 DEF TouchDown
  <2> QED BY <1>1, <2>1, <2>2 DEF TouchDown
<1>2. ASSUME NEW f \in Fingers, TouchUp(f)
      PROVE  KeyboardInv'
  <2>1. /\ fingers' \in [Fingers -> Windows \cup {None}]
        /\ leftDown' \in [Windows -> BOOLEAN]
    BY <1>2 DEF TouchUp
  <2>2. point' \in [id : Fingers \cup {None}, counts : BOOLEAN]
    BY <1>2 DEF TouchUp
  <2> QED BY <1>2, <2>1, <2>2 DEF TouchUp
<1>3. CASE TouchCancel
  <2>1. /\ fingers' \in [Fingers -> Windows \cup {None}]
        /\ leftDown' \in [Windows -> BOOLEAN]
    BY <1>3 DEF TouchCancel
  <2>2. point' \in [id : Fingers \cup {None}, counts : BOOLEAN]
    BY <1>3 DEF TouchCancel
  <2> QED BY <1>3, <2>1, <2>2 DEF TouchCancel
<1> QED BY <1>1, <1>2, <1>3 DEF TouchNext

LEMMA KeyboardDevices ==
    ASSUME KeyboardInv, NEW k, NEW t, Keyboard(k), Touch(t)
    PROVE  KeyboardInv'
<1> USE DEF KeyboardInv, KeyboardTypeOK, RepeatsOnlyHeld
<1>1. /\ keyboard' \in BOOLEAN /\ keymap' \in BOOLEAN /\ supported' = supported
      /\ keysSent' = {} /\ down' \subseteq Keys
      /\ kbFocus' \in Windows \cup {None} /\ kbFocus' = kbOver'
      /\ repeat' \in [running : BOOLEAN, key : Keys \cup {None}, interval : {"delay", "rate"}]
      /\ keymap' => supported'
      /\ RepeatsOnlyHeld'
  <2>1. CASE k = "init"
    BY <2>1 DEF Keyboard, InitKeyboard
  <2>2. CASE k = "destroy"
    BY <2>2 DEF Keyboard, DestroyKeyboard, Stop
  <2>3. CASE k = "none"
    BY <2>3 DEF Keyboard
  <2> QED BY <2>1, <2>2, <2>3 DEF Keyboard
<1>2. /\ touch' \in BOOLEAN /\ point' = point /\ leftDown' = leftDown
      /\ fingers' \in [Fingers -> Windows \cup {None}]
  BY DEF Touch, InitTouch, DestroyTouch, touchVars
<1>3. KeyboardTypeOK'
  <2>1. /\ point \in [id : Fingers \cup {None}, counts : BOOLEAN]
        /\ leftDown \in [Windows -> BOOLEAN] /\ supported \in BOOLEAN
    OBVIOUS
  <2>2. keysSent' \in {{}, {"press"}, {"release"}, {"release", "press"}}
    BY <1>1
  <2>3. kbOver' \in Windows \cup {None}
    BY <1>1
  <2> HIDE DEF KeyboardInv, RepeatsOnlyHeld
  <2> QED BY <1>1, <1>2, <2>1, <2>2, <2>3
<1> HIDE DEF KeyboardTypeOK, RepeatsOnlyHeld
<1> QED BY <1>1, <1>3

LEMMA KeyboardStep == KeyboardInv /\ [Next]_vars => KeyboardInv'
<1> SUFFICES ASSUME KeyboardInv, [Next]_vars PROVE KeyboardInv'
  OBVIOUS
<1>1. CASE PointerNext /\ UNCHANGED <<keyboardVars, touchVars, seat, devices>>
  BY <1>1, KeyboardUnchanged
<1>2. ASSUME NEW caps \in SUBSET devices, Capabilities(caps)
      PROVE  KeyboardInv'
  BY <1>2, KeyboardDevices DEF Capabilities
<1>3. CASE SeatRemoved
  BY <1>3, KeyboardDevices DEF SeatRemoved
<1>4. CASE UNCHANGED vars
  BY <1>4, KeyboardUnchanged DEF vars
<1> QED BY <1>1, <1>2, <1>3, <1>4, KeyStep, TouchStep DEF Next
-----------------------------------------------------------------------------
SeatInv == PointerInv /\ KeyboardInv /\ seat \in BOOLEAN /\ devices \in DeviceSets

LEMMA SeatStart == Init => SeatInv
<1>1. KeyboardInit => KeyboardInv
  <2> SUFFICES ASSUME KeyboardInit PROVE KeyboardInv
    OBVIOUS
  <2>1. repeat \in [running : BOOLEAN, key : Keys \cup {None}, interval : {"delay", "rate"}]
    BY DEF KeyboardInit
  <2>2. point \in [id : Fingers \cup {None}, counts : BOOLEAN]
    BY DEF KeyboardInit
  <2> QED BY <2>1, <2>2 DEF KeyboardInit, KeyboardInv, KeyboardTypeOK, RepeatsOnlyHeld
<1> QED BY <1>1, PointerStart DEF Init, SeatInv

LEMMA SeatStep == SeatInv /\ [Next]_vars => SeatInv'
<1>1. ASSUME SeatInv, [Next]_vars
      PROVE  (seat \in BOOLEAN /\ devices \in DeviceSets)'
  BY <1>1 DEF SeatInv, Next, Capabilities, SeatRemoved, vars
<1> QED BY <1>1, PointerStep, KeyboardStep DEF SeatInv

LEMMA SeatInvSuffices == SeatInv => InputAgrees
<1> SUFFICES ASSUME SeatInv PROVE InputAgrees
  OBVIOUS
<1>1. TypeOK /\ RepeatsOnlyHeld
  BY DEF SeatInv, PointerInv, KeyboardInv, TypeOK
<1>2. FocusAgrees /\ LockFollowsCursor
  BY DEF SeatInv, PointerInv, FocusIsWhere, LockFollows, LockIsWhere, Changing, FocusAgrees,
         LockFollowsCursor
<1> QED BY <1>1, <1>2 DEF InputAgrees

(* Whatever comes and goes in whatever order, a seat and its compositor    *)
(* agree between groups on the surface the pointer is in; the pointer is   *)
(* hidden exactly while the cursor of its window is disabled, then locked  *)
(* to that window if the compositor can and did not take it elsewhere      *)
(* since, and free otherwise; no lock outlives its manager; and a key      *)
(* repeats only while it is held (LinuxWaylandPlatformInput).              *)
THEOREM InputIsRight == Spec => []InputAgrees
<1> QED BY SeatStart, SeatStep, SeatInvSuffices, PTL DEF Spec

(***************************************************************************)
(* What a step sends goes to the focus; what no step sent stays there.     *)
(***************************************************************************)
LEMMA StepsSendToFocus == SeatInv /\ [Next]_vars => SentToFocus
<1> SUFFICES ASSUME SeatInv, [Next]_vars PROVE SentToFocus
  OBVIOUS
<1>1. SentInside'
  BY PointerStep DEF SeatInv, PointerInv
<1>2. sent' = {} \/ over' = over
  <2>1. CASE PointerNext
    BY <2>1 DEF PointerNext, PointerEnter, PointerLeave, PointerAxis, PointerFrame, PointerMotion,
       PointerRelativeMotionV1, PointerButton, ChangeCursor, DestroyWindow, Accumulate,
       ConstraintsCome, ConstraintsGo, ManagerChanges
  <2>2. CASE KeyboardNext \/ TouchNext
    BY <2>2 DEF KeyboardNext, TouchNext, KeyboardKeymap, KeyboardLeave, KeyboardRepeatKey,
       KeyboardEnter, KeyPressed, KeyReleased, KeyEvents, TouchDown, TouchUp, TouchCancel,
       TouchEvents, pointerVars
  <2>3. CASE SeatRemoved \/ \E caps \in SUBSET devices : Capabilities(caps)
    BY <2>3 DEF SeatRemoved, Capabilities, Pointer
  <2>4. CASE UNCHANGED vars
    BY <2>4 DEF vars, pointerVars
  <2> QED BY <2>1, <2>2, <2>3, <2>4 DEF Next
<1> QED BY <1>1, <1>2 DEF SentInside, SentToFocus

(***************************************************************************)
(* Only a repetition puts the rate in use, and only the first finger, or   *)
(* the end of the touch, takes the button up.                              *)
(***************************************************************************)
LEMMA StepsDelayFirst == SeatInv /\ [Next]_vars => DelayComesFirst
<1> SUFFICES ASSUME SeatInv, [Next]_vars PROVE DelayComesFirst
  OBVIOUS
<1>1. repeat \in [running : BOOLEAN, key : Keys \cup {None}, interval : {"delay", "rate"}]
  BY DEF SeatInv, KeyboardInv, KeyboardTypeOK
<1>2. CASE repeat' = repeat \/ Stop \/ KeyboardRepeatKey
  BY <1>1, <1>2 DEF Stop, KeyboardRepeatKey, DelayComesFirst
<1>3. ASSUME NEW k \in Keys, KeyPressed(k)
      PROVE  DelayComesFirst
  BY <1>2, <1>3 DEF KeyPressed, DelayComesFirst
<1>4. CASE \/ PointerNext /\ UNCHANGED <<keyboardVars, touchVars, seat, devices>>
           \/ TouchNext \/ UNCHANGED vars
  <2>1. repeat' = repeat
    BY <1>4 DEF Next, TouchNext, TouchDown, TouchUp, TouchCancel, TouchEvents, keyboardVars, vars
  <2> QED BY <1>2, <2>1
<1>5. CASE KeyboardNext
  BY <1>2, <1>3, <1>5 DEF KeyboardNext, KeyboardKeymap, KeyboardLeave, KeyboardEnter, KeyReleased
<1>6. CASE SeatRemoved \/ \E caps \in SUBSET devices : Capabilities(caps)
  BY <1>2, <1>6 DEF SeatRemoved, Capabilities, Keyboard, InitKeyboard, DestroyKeyboard
<1> QED BY <1>4, <1>5, <1>6 DEF Next

LEMMA StepsReleaseFirst == SeatInv /\ [Next]_vars => FirstFingerReleases
<1> SUFFICES ASSUME SeatInv, [Next]_vars PROVE FirstFingerReleases
  OBVIOUS
<1>1. leftDown \in [Windows -> BOOLEAN] /\ fingers \in [Fingers -> Windows \cup {None}]
  BY DEF SeatInv, KeyboardInv, KeyboardTypeOK
<1>2. CASE leftDown' = leftDown
  BY <1>2 DEF FirstFingerReleases
<1>3. ASSUME NEW f \in Fingers, NEW w \in Windows, TouchDown(f, w)
      PROVE  FirstFingerReleases
  BY <1>1, <1>3 DEF TouchDown, Presses, FirstFingerReleases
<1>4. ASSUME NEW f \in Fingers, TouchUp(f)
      PROVE  FirstFingerReleases
  BY <1>1, <1>4 DEF TouchUp, FirstFingerReleases
<1>5. CASE TouchCancel
  BY <1>1, <1>5 DEF TouchCancel, FirstFingerReleases
<1>6. CASE \/ PointerNext /\ UNCHANGED <<keyboardVars, touchVars, seat, devices>>
           \/ KeyboardNext \/ UNCHANGED vars
  <2>1. leftDown' = leftDown
    BY <1>6 DEF Next, KeyboardNext, KeyboardKeymap, KeyboardLeave, KeyboardRepeatKey,
       KeyboardEnter, KeyPressed, KeyReleased, KeyEvents, touchVars, vars
  <2> QED BY <1>2, <2>1
<1>7. CASE SeatRemoved \/ \E caps \in SUBSET devices : Capabilities(caps)
  BY <1>2, <1>7 DEF SeatRemoved, Capabilities, Touch, InitTouch, DestroyTouch, touchVars
<1> QED BY <1>3, <1>4, <1>5, <1>6, <1>7 DEF Next, TouchNext

(* Pointer events are sent to the window the pointer is in when they are   *)
(* sent, a key that is pressed repeats after the delay first, and the      *)
(* press of the first finger ends with it or with the touch, on every path *)
(* of every group, device change and seat removal.                         *)
THEOREM EventsAreForTheFocus == Spec => EventsFindTheFocus
<1>1. SeatInv /\ [Next]_vars => [SentToFocus /\ DelayComesFirst /\ FirstFingerReleases]_vars
  BY StepsSendToFocus, StepsDelayFirst, StepsReleaseFirst
<1> QED BY <1>1, SeatStart, SeatStep, PTL DEF Spec, EventsFindTheFocus
-----------------------------------------------------------------------------
(***************************************************************************)
(* The modifiers.  The state of the keyboard knows what is held: on Xcb    *)
(* until the focus has been elsewhere, on Wayland while the window has the *)
(* focus, unless a modifiers event is under way.                           *)
(***************************************************************************)
StateKnows ==
    /\ platform = "xcb" /\ ~away => focused /\ xkb = Modifiers(capsHeld)
    /\ platform = "wayland" /\ focused /\ ~due => xkb = Modifiers(capsHeld)

KeysInv == StateKnows /\ ModifiersAreHeld

LEMMA KeysStart == KbInit => KeysInv
<1> SUFFICES ASSUME KbInit PROVE KeysInv
  OBVIOUS
<1>1. Modifiers({}) = {}
  BY DEF Modifiers
<1>2. focused /\ ~away /\ xkb = {} /\ capsHeld = {} /\ told.kind = "none"
  BY DEF KbInit, Untold
<1> QED BY <1>1, <1>2 DEF KeysInv, StateKnows, ModifiersAreHeld

LEMMA OneMore ==
    ASSUME NEW caps, NEW cap
    PROVE  Modifiers(caps \cup {cap}) = Modifiers(caps) \cup ModifierOf(cap)
BY DEF Modifiers

LEMMA OneFewer ==
    ASSUME NEW caps, NEW cap \in caps
    PROVE  LET m == Modifiers(caps)
               fewer == Modifiers(caps \ {cap})
           IN  (m \ ModifierOf(cap)) \cup (m \cap fewer) = fewer
<1>1. (caps \ {cap}) \cup {cap} = caps
  OBVIOUS
<1>2. Modifiers(caps) = Modifiers(caps \ {cap}) \cup ModifierOf(cap)
  BY <1>1, OneMore
<1> QED BY <1>2

\* What each platform does with a key: the state follows, the window is told.
LEMMA KeyIsTold ==
    ASSUME KeysInv, NEW kind \in {"press", "release"}, NEW cap, focused, ~due,
           HandleKey(kind, cap), UNCHANGED <<platform, focused, away>>,
           IF kind = "press" THEN cap \notin capsHeld /\ capsHeld' = capsHeld \cup {cap}
           ELSE cap \in capsHeld /\ capsHeld' = capsHeld \ {cap}
    PROVE  KeysInv'
<1>1. capsHeld = IF kind = "press" THEN capsHeld' \ {cap} ELSE capsHeld' \cup {cap}
  OBVIOUS
<1>2. CASE XcbKey(kind, cap)
  <2>1. xkb = Modifiers(capsHeld) => xkb' = Modifiers(capsHeld')
    <3>1. CASE kind = "press"
      BY <1>2, <3>1, OneMore DEF XcbKey
    <3>2. CASE kind = "release"
      BY <1>2, <3>2, OneFewer DEF XcbKey
    <3> QED BY <3>1, <3>2
  <2>2. /\ platform = "xcb" /\ platform' = "xcb" /\ focused' /\ away' = away
        /\ told'.modifiers = xkb'
    BY <1>2 DEF XcbKey, Tell
  <2>3. ~away => xkb = Modifiers(capsHeld)
    BY <2>2 DEF KeysInv, StateKnows
  <2> QED BY <2>1, <2>2, <2>3 DEF KeysInv, StateKnows, ModifiersAreHeld
<1>3. CASE WaylandKey(kind, cap)
  <2>1. /\ platform = "wayland" /\ platform' = "wayland" /\ due'
        /\ told'.modifiers = xkb /\ told'.kind = kind /\ told'.cap = cap
    BY <1>3 DEF WaylandKey, Tell
  <2>2. xkb = Modifiers(capsHeld)
    BY <2>1 DEF KeysInv, StateKnows
  <2>3. told'.modifiers = Modifiers(IF told'.kind = "press" THEN capsHeld' \ {told'.cap}
                                          ELSE capsHeld' \cup {told'.cap})
    BY <1>1, <2>1, <2>2
  <2> QED BY <2>1, <2>3 DEF KeysInv, StateKnows, ModifiersAreHeld
<1>4. CASE Win32Key(kind, cap) \/ AndroidKey(kind, cap)
  <2>1. platform' \in {"win32", "android"} /\ told'.modifiers = Modifiers(capsHeld')
    BY <1>4 DEF Win32Key, AndroidKey, Tell, GetKeyboardModifiers,
                AndroidKeyMetaToModifiers
  <2> QED BY <2>1 DEF KeysInv, StateKnows, ModifiersAreHeld
<1> QED BY <1>2, <1>3, <1>4 DEF HandleKey

\* A step that tells the window nothing.
LEMMA NothingTold ==
    ASSUME StateKnows', told' = Untold
    PROVE  KeysInv'
BY DEF KeysInv, ModifiersAreHeld, Untold

LEMMA KeyElsewhere ==
    ASSUME KeysInv, NEW kind, NEW cap, ~focused, HandleKey(kind, cap),
           UNCHANGED <<platform, focused, away>>
    PROVE  KeysInv'
<1>1. told' = Untold /\ xkb' = xkb /\ due' = due
  BY DEF HandleKey
<1>2. ~(platform = "xcb" /\ ~away)
  BY DEF KeysInv, StateKnows
<1> QED BY <1>1, <1>2, NothingTold DEF StateKnows

LEMMA KeysStep == KeysInv /\ [KbNext]_kbVars => KeysInv'
<1> SUFFICES ASSUME KeysInv, [KbNext]_kbVars PROVE KeysInv'
  OBVIOUS
<1>1. ASSUME NEW cap \in Caps, Press(cap)
      PROVE  KeysInv'
  <2>1. /\ ~due /\ cap \notin capsHeld /\ capsHeld' = capsHeld \cup {cap}
        /\ HandleKey("press", cap) /\ UNCHANGED <<platform, focused, away>>
    BY <1>1 DEF Press
  <2> QED BY <2>1, KeyIsTold, KeyElsewhere
<1>2. ASSUME NEW cap \in Caps, Release(cap)
      PROVE  KeysInv'
  <2>1. /\ ~due /\ cap \in capsHeld /\ capsHeld' = capsHeld \ {cap}
        /\ HandleKey("release", cap) /\ UNCHANGED <<platform, focused, away>>
    BY <1>2 DEF Release
  <2> QED BY <2>1, KeyIsTold, KeyElsewhere
<1>3. CASE KeyboardModifiers
  BY <1>3, NothingTold DEF KeyboardModifiers, KeysInv, StateKnows
<1>4. CASE FocusLeaves
  BY <1>4, NothingTold DEF FocusLeaves, StateKnows
<1>5. CASE FocusReturns
  <2>1. /\ told' = Untold /\ ~focused /\ due' = (platform = "wayland")
        /\ UNCHANGED <<platform, capsHeld, xkb, away>>
    BY <1>5 DEF FocusReturns
  <2> QED BY <2>1, NothingTold DEF KeysInv, StateKnows
<1>6. CASE UNCHANGED kbVars
  BY <1>6 DEF kbVars, KeysInv, StateKnows, ModifiersAreHeld
<1> QED BY <1>1, <1>2, <1>3, <1>4, <1>5, <1>6 DEF KbNext

(* For any keyboard, the modifiers a window is told with a key are those   *)
(* held: after the event on Xcb, Win32 and Android, before it on Wayland;  *)
(* on Xcb until the focus has been elsewhere (the handlers of key events). *)
THEOREM ModifiersAreRight ==
    KbSpec => []ModifiersAreHeld
<1>1. KeysInv => ModifiersAreHeld
  BY DEF KeysInv
<1> QED BY <1>1, KeysStart, KeysStep, PTL DEF KbSpec

(***************************************************************************)
(* The tables.  What they hold are members of enum Key, and the three      *)
(* agree on every cap of the keyboard.                                     *)
(***************************************************************************)
Names == PrintableKeys \cup OtherKeys \cup {KeyUnknown}

LEMMA KeysymsAreKeys == \A c : KeysymToKey(c) \in Names
<1> USE DEF Names, PrintableKeys, OtherKeys, KeyUnknown
<1>1. \A c : KeysymsPrintable(c) \in Names
  BY DEF KeysymsPrintable
<1>2. \A c \in \hff50 .. \hff57 : Row(c, \hff50, KeysymsCursor) \in Names
  BY DEF Row, KeysymsCursor
<1>3. \A c : KeysymsOthers(c) \in Names
  BY <1>2 DEF KeysymsOthers
<1> QED BY <1>1, <1>3 DEF KeysymToKey

LEMMA ScanCodesAreKeys == \A c : WindowsScanCodeToKey(c) \in Names
<1> USE DEF Names, PrintableKeys, OtherKeys, KeyUnknown
<1>1. \A c \in \h01 .. \h0f : Row(c, \h01, ScansNumbers) \in Names
  BY DEF Row, ScansNumbers
<1>2. \A c \in \h10 .. \h1c : Row(c, \h10, ScansTop) \in Names
  BY DEF Row, ScansTop
<1>3. \A c \in \h1d .. \h29 : Row(c, \h1d, ScansHome) \in Names
  BY DEF Row, ScansHome
<1>4. \A c \in \h2a .. \h36 : Row(c, \h2a, ScansBottom) \in Names
  BY DEF Row, ScansBottom
<1>5. \A c \in \h47 .. \h53 : Row(c, \h47, ScansKeypad) \in Names
  BY DEF Row, ScansKeypad
<1>6. \A c \in \h14f .. \h153 : Row(c, \h14f, ScansCursor) \in Names
  BY DEF Row, ScansCursor
<1>7. \A c : ScanCodeTable(c) \in Names
  BY <1>1, <1>2, <1>3, <1>4, <1>5, SMTT(30) DEF ScanCodeTable
<1>8. \A c : ScanCodesExtended(c) \in Names
  BY <1>6 DEF ScanCodesExtended
<1> QED BY <1>7, <1>8 DEF WindowsScanCodeToKey

LEMMA KeyCodesAreKeys == \A c : AndroidKeyCodeToKey(c) \in Names
<1> USE DEF Names, PrintableKeys, OtherKeys, KeyUnknown
<1>1. \A c \in 17 .. 22 : Row(c, 17, CodesArrows) \in Names
  BY DEF Row, CodesArrows
<1>2. \A c \in 55 .. 62 : Row(c, 55, CodesModifiers) \in Names
  BY DEF Row, CodesModifiers
<1>3. \A c \in 66 .. 78 : Row(c, 66, CodesSymbols) \in Names
  BY DEF Row, CodesSymbols
<1>4. \A c \in 111 .. 118 : Row(c, 111, CodesEditing) \in Names
  BY DEF Row, CodesEditing
<1>5. \A c : KeyCodesFirst(c) \in Names
  BY <1>1, <1>2, <1>3 DEF KeyCodesFirst
<1>6. \A c : KeyCodesOthers(c) \in Names
  BY <1>4 DEF KeyCodesOthers
<1> QED BY <1>5, <1>6 DEF AndroidKeyCodeToKey

\* A cap has the same name in the three tables, its own.
Named(cap) ==
    /\ KeysymToKey(cap.keysym) = cap.key
    /\ WindowsScanCodeToKey(cap.scan) = cap.key
    /\ AndroidKeyCodeToKey(cap.code) = cap.key

LEMMA TablesAgree == \A cap \in UsKeyboard : Named(cap)
<1> USE DEF Cap, Row
<1>1. \A cap \in UsKeyboard : KeysymToKey(cap.keysym) = cap.key
  <2> USE DEF KeysymToKey, KeysymsPrintable, KeysymsOthers,
              KeysymsCursor
  <2>1. \A cap \in LetterCaps : KeysymToKey(cap.keysym) = cap.key
    BY DEF LetterCaps, LetterScans
  <2>2. \A cap \in DigitCaps : KeysymToKey(cap.keysym) = cap.key
    BY DEF DigitCaps
  <2>3. \A cap \in SymbolCaps : KeysymToKey(cap.keysym) = cap.key
    BY DEF SymbolCaps
  <2>4. \A cap \in FunctionCaps : KeysymToKey(cap.keysym) = cap.key
    BY DEF FunctionCaps
  <2>5. \A cap \in WritingCaps : KeysymToKey(cap.keysym) = cap.key
    BY DEF WritingCaps
  <2>6. \A cap \in CursorCaps : KeysymToKey(cap.keysym) = cap.key
    BY DEF CursorCaps
  <2>7. \A cap \in KeypadCaps : KeysymToKey(cap.keysym) = cap.key
    BY DEF KeypadCaps
  <2>8. \A cap \in ModifierCaps : KeysymToKey(cap.keysym) = cap.key
    BY DEF ModifierCaps
  <2> HIDE DEF KeysymToKey
  <2> QED BY <2>1, <2>2, <2>3, <2>4, <2>5, <2>6, <2>7, <2>8 DEF UsKeyboard
<1>2. \A cap \in UsKeyboard : WindowsScanCodeToKey(cap.scan) = cap.key
  <2> USE DEF WindowsScanCodeToKey, ScanCodeTable, ScanCodesExtended,
              ScansNumbers,
              ScansTop, ScansHome, ScansBottom, ScansKeypad,
              ScansCursor
  <2>1. \A cap \in LetterCaps : WindowsScanCodeToKey(cap.scan) = cap.key
    BY SMTT(20) DEF LetterCaps, LetterScans
  <2>2. \A cap \in DigitCaps : WindowsScanCodeToKey(cap.scan) = cap.key
    BY SMTT(20) DEF DigitCaps
  <2>3. \A cap \in SymbolCaps : WindowsScanCodeToKey(cap.scan) = cap.key
    BY DEF SymbolCaps
  <2>4. \A cap \in FunctionCaps : WindowsScanCodeToKey(cap.scan) = cap.key
    BY DEF FunctionCaps
  <2>5. \A cap \in WritingCaps : WindowsScanCodeToKey(cap.scan) = cap.key
    BY DEF WritingCaps
  <2>6. \A cap \in CursorCaps : WindowsScanCodeToKey(cap.scan) = cap.key
    BY DEF CursorCaps
  <2>7. \A cap \in KeypadCaps : WindowsScanCodeToKey(cap.scan) = cap.key
    BY DEF KeypadCaps
  <2>8. \A cap \in ModifierCaps : WindowsScanCodeToKey(cap.scan) = cap.key
    BY DEF ModifierCaps
  <2> HIDE DEF WindowsScanCodeToKey
  <2> QED BY <2>1, <2>2, <2>3, <2>4, <2>5, <2>6, <2>7, <2>8 DEF UsKeyboard
<1>3. \A cap \in UsKeyboard : AndroidKeyCodeToKey(cap.code) = cap.key
  <2> USE DEF AndroidKeyCodeToKey, KeyCodesFirst, KeyCodesOthers,
              CodesArrows, CodesModifiers, CodesSymbols, CodesEditing
  <2>1. \A cap \in LetterCaps : AndroidKeyCodeToKey(cap.code) = cap.key
    BY DEF LetterCaps, LetterScans
  <2>2. \A cap \in DigitCaps : AndroidKeyCodeToKey(cap.code) = cap.key
    BY DEF DigitCaps
  <2>3. \A cap \in SymbolCaps : AndroidKeyCodeToKey(cap.code) = cap.key
    BY DEF SymbolCaps
  <2>4. \A cap \in FunctionCaps : AndroidKeyCodeToKey(cap.code) = cap.key
    BY DEF FunctionCaps
  <2>5. \A cap \in WritingCaps : AndroidKeyCodeToKey(cap.code) = cap.key
    BY DEF WritingCaps
  <2>6. \A cap \in CursorCaps : AndroidKeyCodeToKey(cap.code) = cap.key
    BY DEF CursorCaps
  <2>7. \A cap \in KeypadCaps : AndroidKeyCodeToKey(cap.code) = cap.key
    BY DEF KeypadCaps
  <2>8. \A cap \in ModifierCaps : AndroidKeyCodeToKey(cap.code) = cap.key
    BY DEF ModifierCaps
  <2> HIDE DEF AndroidKeyCodeToKey
  <2> QED BY <2>1, <2>2, <2>3, <2>4, <2>5, <2>6, <2>7, <2>8 DEF UsKeyboard
<1> QED BY <1>1, <1>2, <1>3 DEF Named

LEMMA NamesAreTold ==
    ASSUME Caps \subseteq UsKeyboard, KeysKeepTheirNames,
           [KbNext]_kbVars
    PROVE  KeysKeepTheirNames'
<1>1. ASSUME NEW kind, NEW cap \in Caps, HandleKey(kind, cap)
      PROVE  KeysKeepTheirNames'
  <2>1. Named(cap)
    BY TablesAgree
  <2>2. CASE XcbKey(kind, cap) \/ WaylandKey(kind, cap)
    <3>1. told'.cap = cap /\ told'.key = KeysymToKey(KeysymOf(cap, xkb))
      BY <2>2 DEF XcbKey, WaylandKey, Tell
    <3>2. KeysymOf(cap, xkb) \in {cap.shifted, cap.keysym}
      BY DEF KeysymOf
    <3>3. KeysymToKey(cap.shifted) = KeysymToKey(cap.keysym)
            => told'.key = cap.key
      BY <2>1, <3>1, <3>2 DEF Named
    <3> QED BY <3>1, <3>3, KeysymsAreKeys DEF KeysKeepTheirNames, Names
  <2>3. CASE Win32Key(kind, cap)
    <3>1. told'.cap = cap /\ told'.key = WindowsScanCodeToKey(cap.scan)
      BY <2>3 DEF Win32Key, Tell
    <3> QED BY <2>1, <3>1, ScanCodesAreKeys DEF KeysKeepTheirNames, Names, Named
  <2>4. CASE AndroidKey(kind, cap)
    <3>1. told'.cap = cap /\ told'.key = AndroidKeyCodeToKey(cap.code)
      BY <2>4 DEF AndroidKey, Tell
    <3> QED BY <2>1, <3>1, KeyCodesAreKeys DEF KeysKeepTheirNames, Names, Named
  <2>5. CASE told' = Untold
    BY <2>5 DEF KeysKeepTheirNames, Untold
  <2> QED BY <1>1, <2>2, <2>3, <2>4, <2>5 DEF HandleKey
<1>2. CASE told' = Untold
  BY <1>2 DEF KeysKeepTheirNames, Untold
<1>3. CASE UNCHANGED kbVars
  BY <1>3 DEF KeysKeepTheirNames, kbVars
<1>4. \/ \E cap \in Caps, kind \in {"press", "release"} : HandleKey(kind, cap)
      \/ told' = Untold
      \/ UNCHANGED kbVars
  BY DEF KbNext, Press, Release, KeyboardModifiers,
         FocusLeaves, FocusReturns
<1> QED BY <1>1, <1>2, <1>3, <1>4

(* On any board with caps of the keyboard, whatever else is held and       *)
(* wherever the focus goes: a cap is the same key on the four platforms,   *)
(* and the modifiers told with it are those held (the handlers of key      *)
(* events, and the three tables they look keys up in).                     *)
THEOREM KeysAreRight ==
    Caps \subseteq UsKeyboard /\ KbSpec => []KeysAgree
<1> SUFFICES ASSUME Caps \subseteq UsKeyboard
             PROVE  KbSpec => []KeysAgree
  OBVIOUS
<1>1. KbInit => KeysKeepTheirNames
  BY DEF KbInit, KeysKeepTheirNames, Untold
<1>2. KeysKeepTheirNames /\ [KbNext]_kbVars => KeysKeepTheirNames'
  BY NamesAreTold
<1>3. KeysKeepTheirNames /\ ModifiersAreHeld => KeysAgree
  BY DEF KeysAgree
<1> QED BY <1>1, <1>2, <1>3, ModifiersAreRight, PTL DEF KbSpec
=============================================================================
