---------------------------- MODULE WaylandSeat ----------------------------
(***************************************************************************)
(* LinuxWaylandPlatformInput: pointer, keyboard and touch of one seat, as  *)
(* its capabilities come and go, and the end of the seat.                  *)
(***************************************************************************)
EXTENDS WaylandKeyboard

CONSTANT DeviceSets   \* the sets of devices a seat may be made of

VARIABLES seat,    \* the LinuxWaylandPlatformInput exists
          devices  \* the devices the compositor may announce

vars == <<pointerVars, keyboardVars, touchVars, seat, devices>>

TypeOK ==
    /\ PointerTypeOK /\ KeyboardTypeOK
    /\ seat \in BOOLEAN /\ devices \in DeviceSets

Init ==
    /\ PointerInit /\ KeyboardInit
    /\ seat = TRUE
    /\ devices \in DeviceSets

\* What a capabilities event does to the keyboard and to touch.
Changes(had, has) ==
    IF has /\ ~had THEN "init" ELSE IF had /\ ~has THEN "destroy" ELSE "none"

\* The pointer is destroyed when it is announced again, not when it is gone.
PointerChanges(had, has) ==
    IF has THEN (IF had THEN "destroy" ELSE "init") ELSE "none"

Pointer(change) ==
    /\ \/ change = "init" /\ InitPointer
       \/ change = "destroy" /\ DestroyPointer
       \/ change = "none" /\ UNCHANGED <<pointer, focus, lockVars, over, held, grouped>>
    /\ sent' = {}
    /\ UNCHANGED <<hasFrames, registered, cursorEnabled, acc, cursorShown, slots>>

Keyboard(change) ==
    /\ \/ change = "init" /\ InitKeyboard
       \/ change = "destroy" /\ DestroyKeyboard
       \/ change = "none" /\ UNCHANGED <<keyboard, kbFocus, keymap, repeat, kbOver, down>>
    /\ keysSent' = {} /\ UNCHANGED supported

Touch(change) ==
    \/ change = "init" /\ InitTouch
    \/ change = "destroy" /\ DestroyTouch
    \/ change = "none" /\ UNCHANGED touchVars

Capabilities(caps) ==
    /\ seat
    /\ Pointer(PointerChanges(pointer, "pointer" \in caps))
    /\ Keyboard(Changes(keyboard, "keyboard" \in caps))
    /\ Touch(Changes(touch, "touch" \in caps))
    /\ UNCHANGED <<seat, devices>>

\* The destructor, when the global of the seat is removed.
SeatRemoved ==
    /\ seat
    /\ Pointer(IF pointer THEN "destroy" ELSE "none")
    /\ Keyboard(IF keyboard THEN "destroy" ELSE "none")
    /\ Touch(IF touch THEN "destroy" ELSE "none")
    /\ seat' = FALSE /\ UNCHANGED devices

Next ==
    \/ PointerNext /\ UNCHANGED <<keyboardVars, touchVars, seat, devices>>
    \/ KeyboardNext /\ UNCHANGED <<seat, devices>>
    \/ TouchNext /\ UNCHANGED <<seat, devices>>
    \/ \E caps \in SUBSET devices : Capabilities(caps)
    \/ SeatRemoved

Spec == Init /\ [][Next]_vars
-----------------------------------------------------------------------------
(* Between the events of the compositor the seat and the compositor agree  *)
(* on the focus, on the locked and hidden pointer and on the key that      *)
(* repeats (LinuxWaylandPlatformInput).                                    *)
InputAgrees == TypeOK /\ FocusAgrees /\ LockFollowsCursor /\ RepeatsOnlyHeld

(* Pointer events go to the window the pointer is in, a key that is pressed *)
(* repeats after the delay first, and only the first finger's lift ends the *)
(* press that it made.                                                     *)
EventsFindTheFocus ==
    [][SentToFocus /\ DelayComesFirst /\ FirstFingerReleases]_vars
=============================================================================
