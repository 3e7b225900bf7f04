------------------------------- MODULE Window -------------------------------
(***************************************************************************)
(* Window: the properties the application sets, the slots that pass their  *)
(* changes to the platform window, and the events that come back.          *)
(***************************************************************************)
EXTENDS PlatformWindow

VARIABLE s   \* one window, on one platform

New(t) ==
    CASE t.on = "xcb" -> XcbNew(t) [] t.on = "win32" -> Win32New(t)
      [] t.on = "wayland" -> WaylandNew(t) [] t.on = "android" -> AndroidNew(t)

\* Window::createPlatformWindow: there is an application.
CreatePlatformWindow(t) == IF t.exists THEN t ELSE New(t)

NativeCreate(t) ==
    CASE t.on = "xcb" -> XcbCreate(t) [] t.on = "win32" -> Win32Create(t)
      [] t.on = "wayland" -> WaylandCreate(t) [] t.on = "android" -> AndroidCreate(t)

NativeDestroy(t) ==
    CASE t.on = "xcb" -> XcbDestroy(t) [] t.on = "win32" -> Win32Destroy(t)
      [] t.on = "wayland" -> WaylandDestroy(t) [] t.on = "android" -> AndroidDestroy(t)

IsCreated(t) ==
    CASE t.on = "xcb" -> t.handle # 0 [] t.on = "win32" -> t.handle
      [] t.on = "wayland" -> t.surface [] t.on = "android" -> TRUE

Map(t) ==
    CASE t.on = "xcb" -> XcbMap(t) [] t.on = "win32" -> Win32Map(t)
      [] t.on = "wayland" -> WaylandMap(t) [] OTHER -> t

Unmap(t) ==
    CASE t.on = "xcb" -> XcbUnmap(t) [] t.on = "win32" -> Win32Unmap(t)
      [] t.on = "wayland" -> WaylandUnmap(t) [] OTHER -> t

EnableCursor(t) ==
    CASE t.on = "xcb" -> XcbEnableCursor(t) [] t.on = "win32" -> Win32EnableCursor(t)
      [] t.on = "wayland" -> WaylandEnableCursor(t) [] OTHER -> t

DisableCursor(t) ==
    CASE t.on = "xcb" -> XcbDisableCursor(t) [] t.on = "win32" -> Win32DisableCursor(t)
      [] t.on = "wayland" -> WaylandDisableCursor(t) [] OTHER -> t

SetSize(t) ==
    CASE t.on = "xcb" -> XcbSetSize(t) [] t.on = "win32" -> Win32SetSize(t)
      [] t.on = "wayland" -> WaylandSetSize(t) [] OTHER -> t
-----------------------------------------------------------------------------
Created(t) == NativeCreate(CreatePlatformWindow(t))

Destroyed(t) == [NativeDestroy(CreatePlatformWindow(t)) EXCEPT !.exists = FALSE]

\* Mutant: the window is left shown when it is closed.
OnVisibleChangedMutant(t) == Map(Created(t))

OnVisibleChanged(t) == IF t.visible THEN Map(Created(t)) ELSE Unmap(Created(t))

OnSizeChanged(t) == IF t.exists /\ IsCreated(t) THEN SetSize(t) ELSE t

OnCursorEnabledChanged(t) ==
    IF ~(t.exists /\ IsCreated(t)) THEN t
    ELSE IF t.cursorEnabled THEN EnableCursor(t) ELSE DisableCursor(t)

OnRawMouseInputEnabledChanged(t) ==
    IF ~(t.exists /\ IsCreated(t)) \/ t.on # "win32" THEN t
    ELSE IF t.raw THEN Win32EnableRaw(t) ELSE Win32DisableRaw(t)

\* Property<bool>::set: no signal without a change.
VisibleSet(t, v) == IF t.visible = v THEN t ELSE OnVisibleChanged([t EXCEPT !.visible = v])

\* Mutant: the connections of width and height are not blocked.
ResizeEventMutant(t, size) == OnSizeChanged([t EXCEPT !.size = size])

\* Window::resizeEvent: the slots of width and height are blocked meanwhile.
ResizeEvent(t, size) == [t EXCEPT !.size = size]

\* What handleMousePress and handleMouseRelease remember.
Pressed(t, buttons) == [t EXCEPT !.buttons = @ \cup buttons]

Released(t, buttons) == [t EXCEPT !.buttons = @ \ buttons]
-----------------------------------------------------------------------------
(* What an application does with a window.  On Wayland it hides a window   *)
(* before it destroys it, and does not hide one it has not shown.          *)
Orderly(t) == t.on = "wayland" => (t.visible <=> t.xdgSurface)

SetVisible == s' = VisibleSet(s, ~s.visible) /\ (s.visible => Orderly(s))

SetWidth(w) == w # s.size.width /\ s' = OnSizeChanged([s EXCEPT !.size.width = w])

SetHeight(h) == h # s.size.height /\ s' = OnSizeChanged([s EXCEPT !.size.height = h])

SetCursorEnabled == s' = OnCursorEnabledChanged([s EXCEPT !.cursorEnabled = ~@])

SetRawMouseInputEnabled ==
    s.on = "win32" /\ s' = OnRawMouseInputEnabledChanged([s EXCEPT !.raw = ~@])

Create == s' = Created(s) /\ s' # s

Destroy == (s.on = "wayland" => ~s.xdgSurface) /\ s' = Destroyed(s) /\ s' # s

Application ==
    \/ SetVisible
    \/ \E w \in Widths : SetWidth(w)
    \/ \E h \in Heights : SetHeight(h)
    \/ SetCursorEnabled
    \/ SetRawMouseInputEnabled
    \/ Create
    \/ Destroy
=============================================================================
