---------------------------- MODULE WindowEvents ----------------------------
(***************************************************************************)
(* What the display server sends to a window: the queue of xcb and the     *)
(* loop that empties it, windowProc, the listeners of a Wayland surface,   *)
(* and the callbacks of Android.                                           *)
(***************************************************************************)
EXTENDS Window, SequencesExt

CONSTANTS Buttons, Wheel,  \* mouse buttons, and one that is none of the three
          Scales, Bounds,  \* scales of outputs; bounds the compositor suggests
          MaxIds,          \* bound: xcb windows created
          MaxEvents,       \* bound: xcb events under way
          MaxPixels        \* bound: size of a Wayland window

ASSUME EventsAssumption ==
    /\ MaxIds \in Nat /\ MaxPixels \in Nat
    /\ Scales \subseteq Nat \ {0} /\ 1 \in Scales
    /\ Bounds \subseteq [width : Nat, height : Nat]
-----------------------------------------------------------------------------
(* Xcb: the server.                                                        *)
Queued == s.buffered \o s.socket

Sends(t, event) == [t EXCEPT !.socket = Append(@, event)]

Shown == s.on = "xcb" /\ s.mapped /\ Len(Queued) < MaxEvents

UserResizes ==
    Shown /\ \E size \in Sizes \ {s.geometry} : s' = XcbConfigured(s, size)

UserCloses == Shown /\ s' = Sends(s, [type |-> "close", id |-> s.handle])

UserPresses ==
    /\ Shown
    /\ \E b \in Buttons \ s.held :
           s' = Sends([s EXCEPT !.held = @ \cup {b}], [type |-> "press", id |-> s.handle, of |-> b])

UserReleases ==
    /\ Shown
    /\ \E b \in s.held :
           s' = Sends([s EXCEPT !.held = @ \ {b}], [type |-> "release", id |-> s.handle, of |-> b])

UserScrolls == Shown /\ s' = Sends(s, [type |-> "press", id |-> s.handle, of |-> Wheel])

Server == UserResizes \/ UserCloses \/ UserPresses \/ UserReleases \/ UserScrolls
-----------------------------------------------------------------------------
(* Xcb: the event loop.  The application's code runs between two waits,    *)
(* and in the callbacks of timers and notifiers while the base class waits. *)
\* Mutant: any button is one of the window's.
MouseButtonsMutant(b) == {b}

\* xcbButtonToMouseButton: none of the three is NoButton.
MouseButtons(b) == {b} \cap Buttons

XcbHandles(t, e) ==
    IF e.id \notin t.registered THEN t
    ELSE CASE e.type = "close"     -> VisibleSet(t, FALSE)
           [] e.type = "configure" -> ResizeEvent(t, e.of)
           [] e.type = "press"     -> Pressed(t, MouseButtons(e.of))
           [] e.type = "release"   -> Released(t, MouseButtons(e.of))

Phase(from, to) == s.on = "xcb" /\ s.phase = from /\ s' = [s EXCEPT !.phase = to]

WaitForEvents == Phase("app", "process")

ProcessXcbEvent ==
    /\ s.on = "xcb" /\ s.phase \in {"process", "again"} /\ Queued # <<>>
    /\ LET t == IF s.buffered = <<>> THEN Roundtrip(s) ELSE s
       IN s' = XcbHandles([t EXCEPT !.buffered = Tail(@)], Head(t.buffered))

\* Mutant: what xcb has already read is not looked at before waiting.
FallAsleepMutant == Phase("process", "asleep") /\ s.socket = <<>>

FallAsleep == Phase("process", "asleep") /\ Queued = <<>>

\* The notifier of the connection sets m_xcbEventsPending.
WakeForXcb ==
    /\ s.on = "xcb" /\ s.phase = "asleep" /\ s.socket # <<>>
    /\ s' = [s EXCEPT !.phase = "callbacks", !.pending = TRUE]

WakeForOther == Phase("asleep", "callbacks") /\ s.socket = <<>>

ReturnFromWait ==
    /\ s.on = "xcb" /\ s.phase = "callbacks"
    /\ s' = [s EXCEPT !.phase = IF s.pending THEN "again" ELSE "app"]

ProcessedAgain ==
    /\ s.on = "xcb" /\ s.phase = "again" /\ Queued = <<>>
    /\ s' = [s EXCEPT !.phase = "app", !.pending = FALSE]

XcbLoop ==
    \/ WaitForEvents \/ ProcessXcbEvent \/ FallAsleep \/ WakeForXcb
    \/ ReturnFromWait \/ ProcessedAgain
-----------------------------------------------------------------------------
(* Win32: windowProc.  A message is about the window it is retrieved for,  *)
(* so input and its handling are one step.                                 *)
Proc == s.on = "win32" /\ s.property

WmSize == Proc /\ \E size \in Sizes : s' = ResizeEvent([s EXCEPT !.geometry = size], size)

WmClose == Proc /\ s.mapped /\ s' = VisibleSet(s, FALSE)

WmButtonDown ==
    /\ Proc /\ s.mapped
    /\ \E b \in Buttons \ s.held :
           s' = Win32GrabMouse(Pressed([s EXCEPT !.held = @ \cup {b}], {b}))

\* Mutant: the first release ends the capture.
ButtonUpMutant(t, b) == Win32ReleaseMouse(Released(t, {b}))

\* Mutant: no release ends the capture.
ButtonUpUnreleased(t, b) == Released(t, {b})

ButtonUp(t, b) ==
    LET r == Released(t, {b}) IN IF r.buttons = {} THEN Win32ReleaseMouse(r) ELSE r

WmButtonUp ==
    /\ Proc /\ s.capture
    /\ \E b \in s.held : s' = ButtonUp([s EXCEPT !.held = @ \ {b}], b)

\* Another window takes the capture: its releases are not seen here.
CaptureLost ==
    Proc /\ s.capture /\ s' = [s EXCEPT !.capture = FALSE, !.held = {}]

\* RegisterRawInputDevices and CreateWindowEx may fail.
SystemFails == s.on = "win32" /\ s' = [s EXCEPT !.fails = ~@]

WindowProc ==
    \/ WmSize \/ WmClose \/ WmButtonDown \/ WmButtonUp \/ CaptureLost \/ SystemFails
-----------------------------------------------------------------------------
(* Wayland: the listeners.                                                 *)
Listens == s.on = "wayland" /\ s.surface

\* updateScaleFactor: the highest of the outputs entered, at least 1.
Highest(entered) ==
    CHOOSE f \in Scales : /\ f \in {1} \cup {entered[i] : i \in DOMAIN entered}
                          /\ \A i \in DOMAIN entered : entered[i] <= f

OutputsAre(entered) ==
    s' = WaylandScaleChanged([s EXCEPT !.entered = entered], Highest(entered))

\* An output is told by its scale, which does not change while it is entered.
EnterOutput ==
    Listens /\ Len(s.entered) < 2 /\ \E f \in Scales : OutputsAre(Append(s.entered, f))

LeaveOutput == Listens /\ \E i \in DOMAIN s.entered : OutputsAre(RemoveAt(s.entered, i))

Scaled(size, by) == [width |-> size.width * by, height |-> size.height * by]

Fits(size) == size.width <= MaxPixels /\ size.height <= MaxPixels

\* Mutant: a window that is wider and higher than the bounds is only made narrower.
BoundedMutant(size, bounds) ==
    IF bounds.width # 0 /\ bounds.width < size.width
    THEN [size EXCEPT !.width = bounds.width]
    ELSE IF bounds.height # 0 /\ bounds.height < size.height
         THEN [size EXCEPT !.height = bounds.height] ELSE size

\* configureBounds: what is wider or higher than the bounds; 0 is no bound.
Bounded(size, bounds) ==
    [width  |-> IF bounds.width # 0 /\ bounds.width < size.width
                THEN bounds.width ELSE size.width,
     height |-> IF bounds.height # 0 /\ bounds.height < size.height
                THEN bounds.height ELSE size.height]

Resized(size) == Fits(Scaled(size, s.scale)) /\ s' = ResizeEvent(s, Scaled(size, s.scale))

ConfigureToplevel ==
    Listens /\ s.xdgSurface /\ \E size \in Sizes : Resized(size)

ConfigureBounds(bounds) ==
    /\ Listens /\ s.xdgSurface
    /\ Bounded(s.size, bounds) # s.size
    /\ Resized(Bounded(s.size, bounds))

CloseToplevel == Listens /\ s.xdgSurface /\ s' = VisibleSet(s, FALSE)

Button(press) ==
    Listens /\ \E b \in Buttons : s' = IF press THEN Pressed(s, {b}) ELSE Released(s, {b})

Listeners ==
    \/ EnterOutput \/ LeaveOutput \/ ConfigureToplevel
    \/ \E bounds \in Bounds : ConfigureBounds(bounds)
    \/ CloseToplevel
    \/ \E press \in BOOLEAN : Button(press)
-----------------------------------------------------------------------------
(* Android: a size of the screen, and one finger.                          *)
Rotates ==
    s.on = "android" /\ \E size \in Sizes : s' = AndroidResized([s EXCEPT !.geometry = size])

Touches == s.on = "android" /\ s.registered /\ \E b \in Buttons : s' = Pressed(s, {b})

Lifts == s.on = "android" /\ s.registered /\ \E b \in Buttons : s' = Released(s, {b})

AndroidEvents == Rotates \/ Touches \/ Lifts
=============================================================================
