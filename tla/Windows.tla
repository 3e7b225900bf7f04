------------------------------ MODULE Windows ------------------------------
(***************************************************************************)
(* A window under an application and a display server: what must hold of   *)
(* the two halves of a window and the server's idea of it, and of the      *)
(* platforms' cursors (Cursor).                                            *)
(***************************************************************************)
EXTENDS WindowEvents

CONSTANT Platforms   \* those of the behaviours

ASSUME PlatformsAreKnown == Platforms \subseteq {"xcb", "win32", "wayland", "android"}

Fresh(size) == {XcbFresh(size), Win32Fresh(size), WaylandFresh(size), AndroidFresh(size)}

Init == \E size \in Sizes : s \in {t \in Fresh(size) : t.on \in Platforms}

\* The application runs when the loop does not wait, also at the end of the
\* handler of an event: a platform window touches nothing of its own after it.
MayRun ==
    /\ s.on = "xcb" => s.phase # "asleep" /\ s.ids < MaxIds /\ Len(Queued) <= MaxEvents
    /\ s.on = "wayland" => Fits(s.size)

Next ==
    \/ MayRun /\ Application
    \/ Server \/ XcbLoop \/ WakeForOther
    \/ WindowProc \/ Listeners \/ AndroidEvents

\* The loop goes on: EventLoop::processEvents is called again and again.
Spec == Init /\ [][Next]_s /\ WF_s(XcbLoop)
-----------------------------------------------------------------------------
TypeOK ==
    /\ s.on \in Platforms
    /\ s.visible \in BOOLEAN /\ s.cursorEnabled \in BOOLEAN /\ s.exists \in BOOLEAN
    /\ s.buttons \subseteq Buttons
    /\ s.size.width \in Nat /\ s.size.height \in Nat
    /\ s.on = "xcb" => s.handle \in 0..MaxIds /\ s.held \subseteq Buttons
    /\ s.on = "wayland" => s.toplevel \in {"null", "live", "stale"}

\* Events find the platform window exactly while it has a native one: an
\* entry left in m_windows would take an event to a window that is gone.
EventsFindTheLiving ==
    CASE s.on = "xcb"     -> s.registered = IF s.exists THEN {s.handle} \ {0} ELSE {}
      [] s.on = "win32"   -> s.property <=> s.exists /\ s.handle
      [] s.on = "wayland" -> s.registered <=> s.exists /\ s.surface
      [] s.on = "android" -> s.registered => s.exists

\* A window is on the screen only if it is visible, however it was closed.
ShownOnlyIfVisible == s.on \in {"xcb", "win32"} /\ s.mapped => s.visible

\* Once the reports under way have come in, the properties and the window on
\* the screen have one size, whoever changed it last.
SizesAgree ==
    /\ s.on = "xcb" /\ s.handle # 0
         /\ (\A i \in DOMAIN Queued : Queued[i].type # "configure") => s.size = s.geometry
    /\ s.on = "win32" /\ s.handle => s.size = s.geometry

\* A cursor that is enabled is not held back: no grab or clip is left over
\* when the window is hidden, destroyed or created again.
CursorIsFree ==
    s.cursorEnabled =>
        /\ s.on = "xcb" => ~s.grabbed
        /\ s.on = "win32" => ~s.clip

\* On xcb the window knows of a disabled cursor, also one disabled before.
CursorFollows ==
    s.on = "xcb" /\ s.exists /\ s.handle # 0 => (s.mode = "disabled" <=> ~s.cursorEnabled)

\* Legacy messages are dropped only when raw input comes in their place.
RawAgrees == s.on = "win32" /\ s.exists => (s.rawFlag <=> s.rawTarget)

\* The mouse is captured only while the window knows of a pressed button.
CaptureEnds == s.on = "win32" /\ s.capture => s.buttons # {}

\* A button pressed in the window is held until it is released there.
CaptureLasts == s.on = "win32" /\ s.held # {} => s.capture

\* Once the events under way have come in, the window knows every button that
\* the server holds for it.
HeldIsKnown ==
    s.on = "xcb" /\ Queued = <<>> /\ s.handle # 0 => s.held \subseteq s.buttons

\* What is drawn for a surface is drawn at the scale factor of its window,
\* also when the surface is made after the factor has changed.
BufferScaleAgrees == s.on = "wayland" /\ s.surface => s.bufferScale = s.scale

\* A size that the server reports is not sent back to it as a request.
AnswersNoReport ==
    /\ ProcessXcbEvent => s'.geometry = s.geometry
    /\ WmSize \/ ConfigureToplevel => s'.asked = s.asked
    /\ \A bounds \in Bounds : ConfigureBounds(bounds) => s'.asked = s.asked

\* A window that answers to bounds exceeds none of them, each in the window's
\* pixels: handleResize scales what configureBounds took from properties that
\* are scaled already, so at a factor above 1 the other side, or even the
\* bounded one, may get larger than it was.
KeepsBounds ==
    \A bounds \in Bounds :
        ConfigureBounds(bounds) =>
            /\ bounds.width # 0 => s'.size.width <= s.scale * bounds.width
            /\ bounds.height # 0 => s'.size.height <= s.scale * bounds.height

(* A window's properties, its native window and the events under way agree:*)
(* Window, and the platform windows' create, map, resize and event handlers*)
WindowAgrees ==
    TypeOK /\ ShownOnlyIfVisible /\ SizesAgree /\ HeldIsKnown /\ BufferScaleAgrees

(* No grab, clip, raw input or capture of the mouse outlives its reason:   *)
(* Window and the platform windows' cursor, raw input and button handlers  *)
PointerAgrees == CursorIsFree /\ CursorFollows /\ RawAgrees /\ CaptureEnds /\ CaptureLasts

(* No step answers a report of a size with a request, on any platform, or  *)
(* leaves a window that was given bounds beyond one of them (Window's slots,*)
(* ConfigureNotify, WM_SIZE, xdg_toplevel.configure and configure_bounds)  *)
NoStepOverreacts == [][AnswersNoReport /\ KeepsBounds]_s

\* A close event of the window manager is heeded, unless the window goes first:
\* the loop does not fall asleep over events that xcb has read for a reply.
CloseIsHeeded ==
    \A id \in 1..MaxIds :
        (s.on = "xcb" /\ s.handle = id
            /\ \E i \in DOMAIN Queued : Queued[i] = [type |-> "close", id |-> id])
          ~> (s.on = "xcb" /\ (s.handle # id \/ ~s.visible))
=============================================================================
