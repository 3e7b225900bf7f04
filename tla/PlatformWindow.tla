--------------------------- MODULE PlatformWindow ---------------------------
(***************************************************************************)
(* What an AbstractPlatformWindow does for its Window, on each platform.   *)
(* Handlers call each other within one call of the program: an operation   *)
(* is a function of the state of one window, both halves of it and the     *)
(* part of the display server that concerns it, so that calls compose.     *)
(* Requests of a client are executed in order: they are modelled as        *)
(* executed when they are flushed, their answers as events.                *)
(***************************************************************************)
EXTENDS Naturals, Sequences

CONSTANTS Widths, Heights   \* the sizes that occur

ASSUME SizesAreNumbers == Widths \subseteq Nat /\ Heights \subseteq Nat

Sizes == [width : Widths, height : Heights]

NoSize == [width |-> 0, height |-> 0]

\* A fresh window of each platform: the properties of a Window (visible,
\* cursorEnabled, raw, size), whether it has a platform window and that one's
\* state, and what the server knows.
-----------------------------------------------------------------------------
(* Xcb.  geometry, mapped, grabbed and held are the server's.  socket has  *)
(* what the server has sent, buffered what xcb has read: a round trip      *)
(* reads all that was sent.                                                *)
XcbFresh(size) ==
    [on |-> "xcb", visible |-> FALSE, cursorEnabled |-> TRUE, raw |-> FALSE, size |-> size,
     exists |-> FALSE, handle |-> 0, ids |-> 0, registered |-> {}, mode |-> "normal",
     buttons |-> {}, geometry |-> NoSize, mapped |-> FALSE, grabbed |-> FALSE, held |-> {},
     socket |-> <<>>, buffered |-> <<>>, phase |-> "app", pending |-> FALSE]

XcbNew(s) == [s EXCEPT !.exists = TRUE, !.mode = "normal", !.buttons = {}]

\* Mutant: what is read for a reply comes first.
RoundtripMutant(s) == [s EXCEPT !.buffered = s.socket \o @, !.socket = <<>>]

Roundtrip(s) == [s EXCEPT !.buffered = @ \o s.socket, !.socket = <<>>]

\* Only a window that is shown can grab the pointer.
XcbDisableCursor(s) == [Roundtrip(s) EXCEPT !.mode = "disabled", !.grabbed = s.mapped]

\* Mutant: the pointer is not ungrabbed.
XcbEnableCursorMutant(s) == [s EXCEPT !.mode = "normal"]

XcbEnableCursor(s) == [s EXCEPT !.mode = "normal", !.grabbed = FALSE]

XcbMake(s) ==
    [Roundtrip(s) EXCEPT !.handle = s.ids + 1, !.ids = @ + 1,
                         !.registered = @ \cup {s.ids + 1}, !.geometry = s.size]

\* Mutant: cursorEnabled is not looked at when the window is created.
XcbCreateMutant(s) == IF s.handle # 0 THEN s ELSE XcbMake(s)

XcbCreate(s) ==
    IF s.handle # 0 THEN s
    ELSE IF s.cursorEnabled THEN XcbMake(s) ELSE XcbDisableCursor(XcbMake(s))

\* Mutant: the handle is reset before it is unregistered.
XcbDestroyMutant(s) ==
    [s EXCEPT !.handle = 0, !.registered = @ \ {0}, !.mapped = FALSE,
              !.grabbed = FALSE, !.held = {}, !.geometry = NoSize]

XcbDestroy(s) ==
    [s EXCEPT !.registered = @ \ {s.handle}, !.handle = 0, !.mapped = FALSE,
              !.grabbed = FALSE, !.held = {}, !.geometry = NoSize]

XcbMap(s) == [s EXCEPT !.mapped = TRUE]

XcbUnmap(s) == [s EXCEPT !.mapped = FALSE, !.grabbed = FALSE, !.held = {}]

XcbConfigured(s, size) ==
    [s EXCEPT !.geometry = size,
              !.socket = Append(@, [type |-> "configure", id |-> s.handle, of |-> size])]

XcbSetSize(s) ==
    IF s.handle = 0 \/ s.geometry = s.size THEN s ELSE XcbConfigured(s, s.size)
-----------------------------------------------------------------------------
(* Win32.  property, geometry, mapped, clip, capture and rawTarget are the *)
(* system's, asked the last size passed to SetWindowPos, which sends       *)
(* WM_SIZE while it runs.  The clip goes with the activation of a window   *)
(* that is hidden or destroyed.                                            *)
Win32Fresh(size) ==
    [on |-> "win32", visible |-> FALSE, cursorEnabled |-> TRUE, raw |-> FALSE, size |-> size,
     exists |-> FALSE, handle |-> FALSE, property |-> FALSE, mode |-> "normal", buttons |-> {},
     rawFlag |-> FALSE, geometry |-> NoSize, asked |-> NoSize, mapped |-> FALSE, clip |-> FALSE,
     capture |-> FALSE, rawTarget |-> FALSE, held |-> {}, fails |-> FALSE]

Win32New(s) ==
    [s EXCEPT !.exists = TRUE, !.mode = "normal", !.buttons = {}, !.rawFlag = FALSE]

Win32Create(s) ==
    IF s.handle \/ s.fails THEN s
    ELSE [s EXCEPT !.handle = TRUE, !.property = TRUE, !.geometry = s.size]

Win32Destroy(s) ==
    [s EXCEPT !.property = FALSE, !.handle = FALSE, !.mapped = FALSE, !.clip = FALSE,
              !.capture = FALSE, !.rawTarget = FALSE, !.held = {}, !.geometry = NoSize]

Win32Map(s) == [s EXCEPT !.mapped = s.handle]

Win32Unmap(s) == [s EXCEPT !.mapped = FALSE, !.clip = FALSE]

Win32DisableCursor(s) == [s EXCEPT !.mode = "disabled", !.clip = TRUE]

Win32EnableCursor(s) == [s EXCEPT !.mode = "normal", !.clip = FALSE]

\* Mutant: the result of RegisterRawInputDevices is not looked at.
Win32EnableRawMutant(s) == [s EXCEPT !.rawFlag = TRUE, !.rawTarget = @ \/ ~s.fails]

Win32EnableRaw(s) == IF s.fails THEN s ELSE [s EXCEPT !.rawFlag = TRUE, !.rawTarget = TRUE]

Win32DisableRaw(s) == IF s.fails THEN s ELSE [s EXCEPT !.rawFlag = FALSE, !.rawTarget = FALSE]

Win32GrabMouse(s) == [s EXCEPT !.capture = s.handle]

Win32ReleaseMouse(s) == [s EXCEPT !.capture = FALSE]

\* WM_SIZE brings back the size that was asked for, which the properties have.
Win32SetSize(s) == [s EXCEPT !.geometry = s.size, !.asked = s.size]
-----------------------------------------------------------------------------
(* Wayland.  bufferScale, entered (the scale of each output) and asked, the*)
(* geometry the window was said to have in its surface, are the            *)
(* compositor's.  toplevel says what m_toplevel points to.                 *)
WaylandFresh(size) ==
    [on |-> "wayland", visible |-> FALSE, cursorEnabled |-> TRUE, raw |-> FALSE,
     size |-> size, exists |-> FALSE, surface |-> FALSE, registered |-> FALSE,
     xdgSurface |-> FALSE, toplevel |-> "null", mode |-> "normal", buttons |-> {},
     entered |-> <<>>, scale |-> 1, bufferScale |-> 1, asked |-> NoSize]

WaylandNew(s) ==
    [s EXCEPT !.exists = TRUE, !.xdgSurface = FALSE, !.toplevel = "null",
              !.mode = "normal", !.buttons = {}, !.entered = <<>>]

\* Mutant: the scale of the buffer waits for the next change of the factor.
WaylandCreateMutant(s) ==
    IF s.surface THEN s
    ELSE [s EXCEPT !.surface = TRUE, !.registered = TRUE, !.bufferScale = 1]

WaylandCreate(s) ==
    IF s.surface THEN s
    ELSE [s EXCEPT !.surface = TRUE, !.registered = TRUE, !.bufferScale = s.scale]

WaylandDestroy(s) == [s EXCEPT !.surface = FALSE, !.registered = FALSE]

WaylandMap(s) ==
    IF s.xdgSurface THEN s ELSE [s EXCEPT !.xdgSurface = TRUE, !.toplevel = "live"]

\* The pointer to the toplevel stays.
WaylandUnmap(s) == [s EXCEPT !.toplevel = "stale", !.xdgSurface = FALSE, !.asked = NoSize]

\* Only a surface that is shown has a window geometry to set.
WaylandSetSize(s) == IF s.xdgSurface THEN [s EXCEPT !.asked = s.size] ELSE s

WaylandDisableCursor(s) == [s EXCEPT !.mode = "disabled"]

WaylandEnableCursor(s) == [s EXCEPT !.mode = "normal"]

\* The slot of scaleFactor.valueChanged, which is not emitted without a change.
WaylandScaleChanged(s, factor) ==
    [s EXCEPT !.scale = factor,
              !.bufferScale = IF s.surface /\ factor # s.scale THEN factor ELSE @]
-----------------------------------------------------------------------------
(* Android: one native window, whose size geometry is, for all.            *)
AndroidFresh(size) ==
    [on |-> "android", visible |-> FALSE, cursorEnabled |-> TRUE, raw |-> FALSE,
     size |-> size, exists |-> FALSE, registered |-> FALSE, geometry |-> size, buttons |-> {}]

AndroidNew(s) == [s EXCEPT !.exists = TRUE, !.buttons = {}]

AndroidResized(s) == IF s.registered THEN [s EXCEPT !.size = s.geometry] ELSE s

AndroidCreate(s) == AndroidResized([s EXCEPT !.registered = TRUE])

AndroidDestroy(s) == [s EXCEPT !.registered = FALSE]
=============================================================================
