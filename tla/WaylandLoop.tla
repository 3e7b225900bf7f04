---------------------------- MODULE WaylandLoop ----------------------------
(***************************************************************************)
(* The event loop of a Wayland application (LinuxWaylandPlatformEventLoop) *)
(* around the epoll loop of Linux, and the round trips its handlers make.  *)
(* The connection is shared: a graphics library reads it on a thread of    *)
(* its own, and who reads sorts the events into everybody's queues.  A     *)
(* reader announces itself first, and a read ends only when every          *)
(* announced reader has come to it (libwayland's reader count).            *)
(***************************************************************************)
EXTENDS Naturals

CONSTANTS MaxWire, MaxRequests    \* bounds: events and requests under way

ASSUME WireIsBounded == MaxWire \in Nat /\ MaxRequests \in Nat

VARIABLES
    at,        \* where waitForEventsImpl is, "process" outside of it
    requests,  \* requests buffered by this thread and not flushed
    drained,   \* some of them were made by handlers after the flush of this round
    wire,      \* events the server has sent and nobody has read
    queue,     \* events in m_queue that are not dispatched
    other,     \* the other thread: "idle", "prepared" to read, "reading"
    hung       \* a round trip inside the prepared read waits for itself

wlVars == <<at, requests, drained, wire, queue, other, hung>>

WlTypeOK ==
    /\ at \in {"process", "flush", "prepare", "asleep", "read", "dispatch"}
    /\ requests \in 0..MaxRequests /\ drained \in BOOLEAN
    /\ wire \in 0..MaxWire /\ queue \in 0..MaxWire
    /\ other \in {"idle", "prepared", "reading"} /\ hung \in BOOLEAN

WlInit ==
    /\ at = "process" /\ requests = 0 /\ drained = FALSE
    /\ wire = 0 /\ queue = 0 /\ other = "idle" /\ hung = FALSE
-----------------------------------------------------------------------------
(* The server and the other thread.                                        *)
EventComes ==
    /\ wire + queue < MaxWire /\ wire' = wire + 1
    /\ UNCHANGED <<at, requests, drained, queue, other, hung>>

OtherPrepares ==
    /\ other = "idle" /\ other' = "prepared"
    /\ UNCHANGED <<at, requests, drained, wire, queue, hung>>

\* Its own poll returns once there is something to read.
OtherReads ==
    /\ other = "prepared" /\ wire > 0 /\ other' = "reading"
    /\ UNCHANGED <<at, requests, drained, wire, queue, hung>>

\* All readers have come: the events go to the queues, nothing is left to read.
ReadAll == queue' = queue + wire /\ wire' = 0 /\ other' = "idle"

OtherFinishes ==
    /\ other = "reading" /\ at \notin {"asleep", "read"} /\ ReadAll
    /\ UNCHANGED <<at, requests, drained, hung>>
-----------------------------------------------------------------------------
(* The loop's thread.  Handlers run in "process", while the queue is       *)
(* drained, inside the wait and after the read.                            *)
Runs(from, to) == ~hung /\ at = from /\ at' = to

MaySend == requests' \in {requests, requests + 1} /\ requests' <= MaxRequests

\* Timers, notifiers' descriptors and wake-ups: a handler of the base class's wait.
MakesRequest ==
    /\ at \in {"process", "asleep"} /\ ~hung
    /\ requests < MaxRequests /\ requests' = requests + 1
    /\ UNCHANGED <<at, drained, wire, queue, other, hung>>

\* wl_display_roundtrip_queue, of Window::map: flush, read until the answer is
\* there, dispatch.  Inside a prepared read the thread waits for its own reader.
RoundTrip ==
    /\ ~hung /\ at \in {"process", "asleep"} /\ requests' = 0 /\ drained' = FALSE
    /\ IF at = "asleep"
       THEN hung' = TRUE /\ UNCHANGED <<wire, queue, other>>
       ELSE other # "prepared" /\ queue' = 0 /\ wire' = 0 /\ other' = "idle" /\ UNCHANGED hung
    /\ UNCHANGED at

\* LinuxWaylandClipboard::text: a round trip of the default queue, which reads
\* the events of ours and leaves them there.
ReadsClipboard ==
    /\ ~hung /\ at = "process" /\ other # "prepared"
    /\ requests' = 0 /\ drained' = FALSE /\ ReadAll
    /\ UNCHANGED <<at, hung>>

EndProcess ==
    /\ Runs("process", "flush") /\ UNCHANGED <<requests, drained, wire, queue, other, hung>>

\* Mutant: the loop counts on the read to flush.
FlushMutant ==
    /\ Runs("flush", "prepare") /\ drained' = FALSE
    /\ UNCHANGED <<requests, wire, queue, other, hung>>

Flush ==
    /\ Runs("flush", "prepare") /\ requests' = 0 /\ drained' = FALSE
    /\ UNCHANGED <<wire, queue, other, hung>>

\* Mutant: the read is prepared whatever the queue holds.
PrepareMutant ==
    /\ Runs("prepare", "asleep")
    /\ UNCHANGED <<requests, drained, wire, queue, other, hung>>

Prepare ==
    /\ Runs("prepare", "asleep") /\ queue = 0
    /\ UNCHANGED <<requests, drained, wire, queue, other, hung>>

\* Mutant: the default queue is dispatched instead of the loop's own.
DispatchPendingMutant ==
    /\ Runs("prepare", "prepare") /\ queue > 0 /\ MaySend /\ UNCHANGED queue
    /\ drained' = (drained \/ requests' # requests)
    /\ UNCHANGED <<wire, other, hung>>

DispatchPending ==
    /\ Runs("prepare", "prepare") /\ queue > 0 /\ queue' = 0
    /\ MaySend /\ drained' = (drained \/ requests' # requests)
    /\ UNCHANGED <<wire, other, hung>>

\* The base class's wait ends: the connection is readable, or something else is.
BaseWait ==
    /\ Runs("asleep", "read") /\ UNCHANGED <<requests, drained, wire, queue, other, hung>>

\* epollEventFromFdPlusType is the interest mask, never 0: the read is never cancelled.
ReadEvents ==
    /\ Runs("read", "dispatch") /\ other # "prepared" /\ ReadAll
    /\ UNCHANGED <<requests, drained, hung>>

Dispatch ==
    /\ Runs("dispatch", "process") /\ queue' = 0 /\ MaySend
    /\ UNCHANGED <<drained, wire, other, hung>>

OwnStep == EndProcess \/ Flush \/ Prepare \/ DispatchPending \/ ReadEvents \/ Dispatch

WlNext ==
    \/ EventComes \/ OtherPrepares \/ OtherReads \/ OtherFinishes
    \/ MakesRequest \/ RoundTrip \/ ReadsClipboard \/ BaseWait \/ OwnStep

\* The loop's own steps and the other thread's are taken; the wait ends for a
\* readable connection only: nobody promises a timer.
WlSpec ==
    /\ WlInit /\ [][WlNext]_wlVars
    /\ WF_wlVars(OwnStep)
    /\ WF_wlVars(BaseWait /\ wire > 0)
    /\ WF_wlVars(OtherReads) /\ WF_wlVars(OtherFinishes)
-----------------------------------------------------------------------------
\* The loop sleeps over no event that was already read for it: the other thread
\* and clipboard().text() put events into its queue (wl_display_prepare_read_queue).
NeverSleepsOnRead == at = "asleep" => queue = 0

\* A request waits for no sleep, but for those of handlers that ran after the
\* flush: of the drain loop, and of the wait itself (wl_display_flush).
SleepsFlushed == Prepare => requests = 0 \/ drained

\* Every event the server sends is read, and what is read is dispatched, unless
\* a handler of the wait has made a round trip.
EventsAreDispatched ==
    (wire > 0 ~> wire = 0 \/ hung) /\ (queue > 0 ~> queue = 0 \/ hung)
=============================================================================
