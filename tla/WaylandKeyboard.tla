-------------------------- MODULE WaylandKeyboard --------------------------
(***************************************************************************)
(* Keyboard and touch of a Wayland seat, from LinuxWaylandPlatformInput.   *)
(* The compositor is external: it enters and leaves surfaces in turn,      *)
(* sends keys to the surface it has entered, keymaps of one format and a   *)
(* repeat rate other than zero, leaves a surface also when the client has  *)
(* destroyed it, and follows fingers until they are lifted.                *)
(* Only the first finger counts; afterwards its point stays in the memory  *)
(* of the emptied vector, where touchUp and touchMotion look at it.        *)
(***************************************************************************)
EXTENDS WaylandPointer

CONSTANTS Keys, Fingers

VARIABLES
    keyboard,    \* m_keyboard.keyboard exists
    kbFocus,     \* m_keyboard.focus
    keymap,      \* m_keyboard.keymap and state are loaded
    supported,   \* compositor: the format of its keymaps is XKB_V1
    repeat,      \* m_keyboard.repeat: its timer runs, the key, the interval in use
    keysSent,    \* the key events the last step sent to the focus
    kbOver,      \* compositor: the surface with keyboard focus
    down,        \* compositor: keys pressed while it had that focus
    touch,       \* m_touch.touch exists
    point,       \* m_touch.points[0] as it is in memory, and whether it counts
    leftDown,    \* LeftButton in m_mouseButtons of a window, set by a touch
    fingers      \* compositor: the fingers down and the windows they touched

keyboardVars == <<keyboard, kbFocus, keymap, supported, repeat, keysSent, kbOver, down>>

touchVars == <<touch, point, leftDown, fingers>>

KeyboardTypeOK ==
    /\ keyboard \in BOOLEAN /\ keymap \in BOOLEAN /\ supported \in BOOLEAN
    /\ kbFocus \in Windows \cup {None} /\ kbOver \in Windows \cup {None}
    /\ repeat \in [running : BOOLEAN, key : Keys \cup {None}, interval : {"delay", "rate"}]
    /\ keysSent \in {{}, {"press"}, {"release"}, {"release", "press"}}
    /\ down \subseteq Keys
    /\ touch \in BOOLEAN
    /\ point \in [id : Fingers \cup {None}, counts : BOOLEAN]
    /\ leftDown \in [Windows -> BOOLEAN]
    /\ fingers \in [Fingers -> Windows \cup {None}]

KeyboardInit ==
    /\ keyboard = FALSE /\ keymap = FALSE /\ supported \in BOOLEAN
    /\ kbFocus = None /\ kbOver = None
    /\ repeat = [running |-> FALSE, key |-> None, interval |-> "rate"]
    /\ keysSent = {}
    /\ down = {}
    /\ touch = FALSE
    /\ point = [id |-> None, counts |-> FALSE]
    /\ leftDown = [w \in Windows |-> FALSE]
    /\ fingers = [f \in Fingers |-> None]
-----------------------------------------------------------------------------
InitKeyboard == keyboard' = TRUE /\ UNCHANGED <<kbFocus, keymap, repeat, kbOver, down>>

Stop == repeat' = [repeat EXCEPT !.running = FALSE]

DestroyKeyboard ==
    /\ keyboard' = FALSE /\ keymap' = FALSE
    /\ kbFocus' = None /\ kbOver' = None /\ down' = {}
    /\ Stop

KeyEvents == keyboard /\ UNCHANGED <<pointerVars, touchVars, keyboard, supported>>

\* Whatever the format is, the keymap in use is dropped first.
KeyboardKeymap ==
    /\ KeyEvents
    /\ keymap' = supported
    /\ keysSent' = {} /\ UNCHANGED <<kbFocus, repeat, kbOver, down>>

KeyboardEnter(s) ==
    /\ KeyEvents /\ kbOver = None /\ Finds(s)
    /\ kbOver' = s /\ kbFocus' = s
    /\ keysSent' = {} /\ UNCHANGED <<keymap, repeat, down>>

\* Mutant: the repetition goes on without focus.
KeyboardLeaveMutant ==
    /\ KeyEvents /\ kbOver # None
    /\ kbOver' = None /\ down' = {}
    /\ kbFocus' = None
    /\ keysSent' = {} /\ UNCHANGED <<keymap, repeat>>

KeyboardLeave ==
    /\ KeyEvents /\ kbOver # None
    /\ kbOver' = None /\ down' = {}
    /\ kbFocus' = None
    /\ Stop
    /\ keysSent' = {} /\ UNCHANGED keymap

SendKeys(kinds) == keysSent' = IF Finds(kbFocus) THEN kinds ELSE {}

\* Mutant: the interval is left at what the key before used.
KeyPressedMutant(k) ==
    /\ KeyEvents /\ kbOver # None /\ k \notin down
    /\ down' = down \cup {k}
    /\ \/ /\ keymap
          /\ SendKeys({"press"})
          /\ repeat' = [repeat EXCEPT !.running = TRUE, !.key = k]
       \/ ~keymap /\ keysSent' = {} /\ UNCHANGED repeat
    /\ UNCHANGED <<kbFocus, keymap, kbOver>>

KeyPressed(k) ==
    /\ KeyEvents /\ kbOver # None /\ k \notin down
    /\ down' = down \cup {k}
    /\ \/ /\ keymap
          /\ SendKeys({"press"})
          /\ repeat' = [running |-> TRUE, key |-> k, interval |-> "delay"]
       \/ ~keymap /\ keysSent' = {} /\ UNCHANGED repeat
    /\ UNCHANGED <<kbFocus, keymap, kbOver>>

\* Any release stops the repetition, of whatever key.
KeyReleased(k) ==
    /\ KeyEvents /\ kbOver # None /\ k \in down
    /\ down' = down \ {k}
    /\ \/ keymap /\ SendKeys({"release"}) /\ Stop
       \/ ~keymap /\ keysSent' = {} /\ UNCHANGED repeat
    /\ UNCHANGED <<kbFocus, keymap, kbOver>>

\* The slot of the timer; its first interval is the delay, the others the rate.
KeyboardRepeatKey ==
    /\ repeat.running
    /\ repeat' = [repeat EXCEPT !.interval = "rate"]
    /\ SendKeys({"release", "press"})
    /\ UNCHANGED <<pointerVars, touchVars, keyboard, supported, kbFocus, keymap, kbOver, down>>
-----------------------------------------------------------------------------
InitTouch == touch' = TRUE /\ UNCHANGED <<point, leftDown, fingers>>

DestroyTouch ==
    /\ touch' = FALSE /\ fingers' = [f \in Fingers |-> None]
    /\ UNCHANGED <<point, leftDown>>

TouchEvents == touch /\ UNCHANGED <<pointerVars, keyboardVars, touch>>

Presses(s, value) == leftDown' = IF Finds(s) THEN [leftDown EXCEPT ![s] = value] ELSE leftDown

TouchDown(f, s) ==
    /\ TouchEvents /\ fingers[f] = None /\ Finds(s)
    /\ fingers' = [fingers EXCEPT ![f] = s]
    /\ \/ point.counts /\ UNCHANGED <<point, leftDown>>
       \/ ~point.counts /\ point' = [id |-> f, counts |-> TRUE] /\ Presses(s, TRUE)

\* Mutant: whichever finger is lifted ends the press.
TouchUpMutant(f) ==
    /\ TouchEvents /\ fingers[f] # None
    /\ fingers' = [fingers EXCEPT ![f] = None]
    /\ point' = [point EXCEPT !.counts = FALSE] /\ Presses(kbFocus, FALSE)

\* The release goes to the window with keyboard focus.
TouchUp(f) ==
    /\ TouchEvents /\ fingers[f] # None
    /\ fingers' = [fingers EXCEPT ![f] = None]
    /\ \/ f # point.id /\ UNCHANGED <<point, leftDown>>
       \/ f = point.id /\ point' = [point EXCEPT !.counts = FALSE] /\ Presses(kbFocus, FALSE)

TouchCancel ==
    /\ TouchEvents /\ \E f \in Fingers : fingers[f] # None
    /\ fingers' = [f \in Fingers |-> None]
    /\ \/ ~point.counts /\ UNCHANGED <<point, leftDown>>
       \/ point.counts /\ point' = [point EXCEPT !.counts = FALSE] /\ Presses(kbFocus, FALSE)

KeyboardNext ==
    \/ KeyboardKeymap \/ KeyboardLeave \/ KeyboardRepeatKey
    \/ \E w \in Windows : KeyboardEnter(w)
    \/ \E k \in Keys : KeyPressed(k) \/ KeyReleased(k)

TouchNext ==
    \/ \E f \in Fingers, w \in Windows : TouchDown(f, w)
    \/ \E f \in Fingers : TouchUp(f)
    \/ TouchCancel
-----------------------------------------------------------------------------
(* A key repeats only while it is down and its keymap is loaded: whatever  *)
(* is pressed, released or left in between, and when the keyboard goes.    *)
RepeatsOnlyHeld ==
    repeat.running => keyboard /\ keymap /\ repeat.key \in down /\ kbFocus = kbOver

(* A repetition starts over with the delay after each press, so that the   *)
(* rate is used only for a key that has already repeated once.             *)
DelayComesFirst ==
    repeat'.running /\ repeat'.interval = "rate" => repeat.running /\ repeat'.key = repeat.key

(* The button that the first finger pressed goes up with that finger, or   *)
(* when none is left, whichever others come and go meanwhile.  (It need    *)
(* not go up then: the release is for the window with keyboard focus.)     *)
FirstFingerReleases ==
    \A w \in Windows : leftDown[w] /\ ~leftDown'[w] =>
        \/ fingers[point.id] # None /\ fingers'[point.id] = None
        \/ \A f \in Fingers : fingers'[f] = None
=============================================================================
