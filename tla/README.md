# KDUtils in TLA+

KDUtils is a set of C++ libraries: KDFoundation (objects, events, event loops,
timers, descriptor notifiers), KDUtils (files, byte arrays, urls), KDMqtt (a
client on top of libmosquitto) and KDGui (windows and input on several
platforms). This directory holds TLA+ models of the parts whose correctness
depends on order: of threads, of callbacks, of what the kernel, a display server
or a broker reports. TLC checks them on small instances, TLAPS proves the main
facts for every instance.

    tlc -config EventLoopOneLoop.cfg MCEventLoop      # a run
    tlapm EventLoopProofs.tla                         # a proof

Paths below are relative to the repository's root.

## Inventory

| part | state | operations | what makes it correct |
|---|---|---|---|
| Event queue (`src/KDFoundation/event_queue.h`) | a deque under a mutex | push, tryPop, size, removeAllEventsTargeting | first in, first out; a purge removes all and only the events of its receiver |
| Event loop (`event_loop.cpp`) | queue, quit flag, platform loop, postman; one per thread | postEvent, processEvents, exec, quit | no lost wake-up; bounded rounds; quit ends exec; nothing is delivered to a destroyed object |
| Receivers and objects (`event_receiver.cpp`, `object.cpp`, `object.h`) | parent, children, signals | deleteLater, event, the destructor, addChild, takeChild | a destroyed object is named by no queue; deleteLater destroys; the tree agrees with the parents |
| Core application (`core_application.cpp`) | the process-wide instance and its loop | quit, exec, the final round of the destructor | quit goes through the queue; nobody uses the instance after its end |
| Postman (`postman.cpp`) | the filters | deliverEvent, addFilter, removeFilter | an accepted event does not reach its target |
| Destruction helpers (`destruction_helpers.h`) | connections between containers and dependencies | register, unregister, the slots of `destroyed` | no slot of a destroyed container runs, no property keeps a dead pointer |
| Platform loop (`platform/abstract_platform_event_loop.cpp`) | the connection evaluator | waitForEvents, wakeUp, onInvocationAdded | deferred slots run |
| Linux loop (`platform/linux/linux_platform_event_loop.cpp`) | epoll, eventfd, the notifier map | waitForEventsImpl, wakeUp, (un)registerNotifier | map and epoll agree; an event pokes the notifier it is for |
| Win32 and Android loops (`platform/win32`, `KDGui/platform/android`) | messages, an event or a looper, notifier maps | as for Linux | as for Linux |
| Xcb and Wayland loops (`KDGui/platform/linux`) | events buffered by a client library | waitForEventsImpl | no sleep while the library holds an event, or a request that was not flushed |
| Notifiers and timers (`file_descriptor_notifier.cpp`, `linux_platform_timer.cpp`, `win32_platform_timer.cpp`) | a descriptor; a timerfd or an identifier | construct, destroy, event; start, stop, expire | registered from construction to destruction; timers tick as asked and do not block |
| MQTT client (`src/KDMqtt`) | connection and subscription state, hook, registry | connect, disconnect, publish, (un)subscribe, the callbacks | the hook watches the socket in use; the registry tells what the broker holds |
| Windows (`KDGui/window.cpp`, four platform windows) | properties, native window, the server's window | create, destroy, show, resize, cursor, events | both halves agree with the server once its reports are in; grabs and captures end |
| Wayland input and globals (`linux_wayland_platform_input.cpp`, `..._integration.cpp`) | focus, buttons, the key that repeats, the bound globals | the listeners | focus, lock and repetition follow the compositor |
| Key tables (`linux_xkb_keyboard_map.cpp`, `win32_keyboard_map.cpp`, `android_keyboard_map.cpp`) | tables | lookups of keys and modifiers | a cap of a US keyboard is the same key on every platform, but for those the tables differ on |
| Byte arrays, urls, sorting (`bytearray.cpp`, `url.cpp`, `constexpr_sort.h`) | buffers | append, mid, left, right, base64; split; quick_sort | text comes back; nothing is written past the end |
| Files (`file.cpp`, `file_mapper.cpp`) | a stream, a mapping | open, read, write, close; map, unmap, move | a mapping has one owner |
| macOS (`platform/macos`, `KDGui/platform/cocoa`), logging, colours, formatters, hashes, flags, directories | | | not modelled, see the end |

**How they interact.** Any thread posts to any loop: it pushes under the
queue's mutex and then wakes the loop (an eventfd, a Win32 event, a looper). The
loop's thread delivers a bounded round of events through its postman, waits,
pokes the notifiers of what is ready and runs the deferred slots. Handlers,
slots of notifiers and timers, deferred slots and slots of `destroyed` are
program code that calls back into all of this. `~EventReceiver` purges the queue
of its own thread's loop and, if it is another one, of the application's. The
MQTT client and the GUI platforms are programs of the loop: they own notifiers
and timers. A `Window` owns a platform window; slots of its properties pass
changes down, events of the display server come up and set the properties,
whose slots run again.

**Hard behaviours.** A post between the end of a round and the wait; quit
between the test of the flag and the wait; a handler that purges what its own
round has counted; destruction on one thread and delivery on another; handlers
that change the notifier map while it is dispatched; files closed before their
notifiers; slots that call the client, the tree or the filters in the middle of
an operation; a second reader of the Wayland connection; events read by a round
trip; reports of a display server that cross the requests of the program; a
window destroyed by the handler of one of its events. `PROJECT.json` lists each
with its line under "hazards".

## Modules

| module | models | kind |
|---|---|---|
| `EventQueue` | the queue's operations as operators on sequences | operators |
| `Mailbox` | what a loop promises: post, take in order, discard, close | abstract specification |
| `EventLoop` | loops, threads, receivers and the application | specification |
| `EventLoopProofs` | type correctness, the three safety invariants, the purge; EventLoop implements the safety part of Mailbox | proofs |
| `LinuxPlatformEventLoop` | notifier map, epoll interest list, dispatch | specification |
| `NotifierProofs` | the registry agrees, events poke the right notifier | proofs |
| `NotifierSets` | the notifier maps and deliveries of Win32 and Android | specification |
| `PlatformWait`, `WaylandLoop` | how the Win32, Android and Wayland loops sleep and wake | specifications |
| `PlatformLoops` | composes `NotifierSets`, `Win32Timers`, the two waits and `Cursor` | properties |
| `PlatformProofs` | `PlatformLoops` and `WaylandGlobals`: slots and timers agree with the system, bound objects with the server, the cursor with the pointer; no loop sleeps over what is there. `Windows`: a window, its native window and the events under way agree; grabs, clips and captures end; no report of a size is answered | proofs |
| `Timer` | timers, their timerfds, the dispatch of expired ones | specification |
| `TimerProofs` | timers tick and fire as asked; reads do not block | proofs |
| `Win32Timers` | timers by identifiers the system gives | specification |
| `Mosquitto` | libmosquitto and a broker, as `src/KDMqtt` uses them | external, operators |
| `MqttClient` | connection, hook, polling, subscriptions | specification, on top of `Mosquitto` |
| `MqttProofs` | types, subscription state, polling, the hook; the registry tells what the broker holds | proofs |
| `ObjectTree`, `Postman`, `DestructionHelpers` | trees, filters and helpers under slots that call them again | specifications |
| `PlatformWindow` | what the four platform windows do, as functions of a window's state | operators |
| `Window` | the window's operations and slots, composed with `PlatformWindow` | operators |
| `WindowEvents` | what display servers send, and the handlers | actions |
| `Windows` | program, window, server | specification, on top of the three |
| `Cursor` | the disabled cursor: warps and moves under way | specification |
| `WaylandPointer`, `WaylandKeyboard`, `WaylandSeat` | the listeners of a seat; the last composes the other two | specifications |
| `SeatProofs` | the seat agrees with the compositor, events find the focus; a key is told under its own name, with the modifiers that are held (`Keyboards`) | proofs |
| `WaylandGlobals` | the registry and the objects bound | specification |
| `Keyboards` | the tables, the lookups, modifiers | specification |
| `ByteArrays`, `QuickSort`, `Urls` | the algorithms, one character, comparison or text at a time | specifications |
| `Texts` | puts the three beside each other | properties |
| `TextProofs` | base64 comes back and its decoder stays in its array, pieces make the whole; quick_sort sorts; paths come back from URLs | proofs |
| `FileMappers`, `Files` | mappings and their owners; streams | specifications |
| `Library` | composes `ObjectTree`, `Postman`, `DestructionHelpers` (a manager for each container), `FileMappers` and `Files` | properties |
| `LibraryProofs` | the tree agrees with the parent pointers, listeners are told of it; the order of steps, mappings and streams | proofs |
| `MC*` | instances for TLC | |

### EventLoop

A loop is named by the thread that owns it. A step is what a thread does
between two points where another thread can see it: one locked operation of a
queue, one write of the eventfd, one epoll_wait.

| variable | code |
|---|---|
| `queue[l]` | `m_eventQueue` |
| `quitRequested[l]` | `m_quitRequested` |
| `kicked[l]` | the eventfd was written and no epoll_wait has reported it (it is edge-triggered and never read, so the edge is all the state it has) |
| `deferred[l]` | invocations queued on the loop's connection evaluator |
| `pc[l]`, `mode[l]` | the line the loop's thread is at; exec, processEvents or ~CoreApplication runs it |
| `remaining[l]` | `eventCount - eventIndex` |
| `current[l]` | the `postedEvent` of processEvents |
| `toWake[t]` | thread t has pushed, set the flag or queued an invocation and has still to call wakeUp |
| `stage[t]`, `victim[t]` | the destructor thread t is in, and how far |
| `alive` | receivers whose destructor has not finished |

One action per step: `Enqueue`/`WakeUp` are the two halves of postEvent;
`DeleteLater`, `AppQuit`, `LoopQuit` and `Defer` end in the same wakeUp;
`Destroy`, `PurgeOwn` and `PurgeMain` are ~Object and ~EventReceiver;
`LoopTest`, `Snapshot`, `TakeEvent`, `DeliverEvent`, `HandlerReturn`,
`EndOfRound`, `WakeBy...`, `NotifiersReturn`, `EvaluationReturns` are exec and
processEvents from top to bottom; `CloseApp` and `CloseLoop` end a loop.
Program code may take any of its steps wherever program code runs, the filters of
the postman included: between `popped` and `handling` they may post, quit and destroy
other receivers, and then `DeliverEvent` hands the event on or not. `PostHome`
and `DestroyHome` say to which loop an object's events are posted and which
thread destroys it: the library asks for no such discipline, and the results
below name the one they need. With `JoinBeforeClose`, a loop ends when no other
thread is in the middle of using it.

### LinuxPlatformEventLoop, NotifierSets

`slot` and `entries` are `m_notifiers`, `interest` the kernel's side of it,
`batch` the array epoll_wait filled, `next` the check waitForEventsImpl is at,
`ref` its reference `notifierSet`. A reference to an erased entry (undefined
behaviour) reads as an empty set, or, once a new entry has been inserted, as
that one: these are the outcomes of the node's memory being free and being
reused; `NotifierSets` treats the reference of Android's callback alike. `EpollCtl` gives the error epoll_ctl returns. `granted` is a history
variable. Constants say what the program does: `HandlersDropCurrent` (a handler
drops the last notifier of the descriptor being dispatched), `ReuseFds` (a
number is reused before its notifiers go), `Duplicates` (two notifiers for one
descriptor and type).

`NotifierSets` has the other two loops that keep the same three slots for a
descriptor; `reports` are the socket messages in the queue of the thread, or what
the looper's pass will call back for; `delivering` is the one being gone through
and `ref` the entry its callback refers to. A handler may destroy any notifier,
the last one of that descriptor included (`Erase`), and create others (`Touch`).

### Timer, Win32Timers

`Timer` is the dispatch of LinuxPlatformEventLoop as far as timers see it:
`reported` is the rest of the batch (a set: the kernel chooses the order),
`firing` the timer whose notifier is poked, `armed` and `expired` are the
kernel's timerfd, `running` and `interval` the properties whose slots arm and
disarm it. A timer is named by its descriptor, so that a new timer may take over
the stale event of a destroyed one. `SlotsTouchReported` says whether slots
start, stop or re-create timers of the batch that were not poked yet. On Win32
there is no such batch; what matters is the map from identifiers, which the
system gives again, to the timers.

### MqttClient

The client is single-threaded; what is hard is that program code runs inside
it. `connect`, `disconnect` and `onConnected` set `connectionState` in their
middle (or, for a refusal, in the middle of the library's read), and its slots
may call the client again. Each is therefore two actions (`Connect` and
`ConnectGoesOn`, `Disconnect` and `DisconnectGoesOn`, `OnConnected` and
`RefusedGoesOn`), with `stack` holding the handlers that wait for their slots.
`hook` is the connection whose socket the notifiers watch, `polling` the
establish timer, `registry` and `pending` the two maps of
SubscriptionsRegistry. The library's part (`Mosquitto`): `socket`, a queue of
packets it has not written, a queue of answers not read, and what the broker
holds. Connections are numbered, so that a hook on a closed one differs from
the socket in use. `ReadOp`, `WriteOp` and `MiscTask` happen when the hook or
the timer drives the library (`Driven`); with `PollsHandshake`, only the timer
drives a handshake (mqtt.h:223-243 says why the timer exists). Constants say
what the program does (`ConnectIn`, `Reentered`). The library calls on_disconnect
after every refusal, once the slots of on_connect have returned; the comment at
mqtt.cpp:300 is not sure of it, and without it the hook would stay engaged.

### Objects

`ObjectTree` keeps the calls under way on a stack: each stops at the signals it
emits, where slots may call addChild, takeChild and destructors again. The
vector of children is compared with the parent pointers and with what a listener
of childAdded and childRemoved was told. `Postman` walks its filters while their
handlers install and remove filters; `DestructionHelpers` has containers,
dependencies, the two maps of a manager, and the connections KDBindings keeps.

### Windows

The state of a window is one record `s`: the fields of `Window`, of the platform
window of the platform the behaviour has chosen, and of the server's part that
concerns it. One call of the program runs through several of these (a setter, its
slot, the platform window, a flush), so the operations are functions of the
record and compose as the calls do: `Window!Created` calls `XcbCreate` of
`PlatformWindow`, and a setter is the change followed by its slot. `WindowEvents` has an
action for each message of a server and for each handler. `Cursor` is the part
of Xcb and Win32 that warps the pointer back to the centre: moves, warps and the
reports of both are under way at once.

`PlatformWait` has the Win32 and the Android wait (`signal` is the event or the
looper's wake-up, `messages` what else can end the wait). `WaylandLoop` has
flush, prepare_read, the base class's wait, read and dispatch, beside another
reader of the same connection; `wire` are events nobody has read, `requests`
what is not flushed.

### Wayland input and globals, key tables

`WaylandPointer` accumulates a frame in `acc` and applies it at its end;
`focus`, `lockedTo` and `slots` are compared with `over` and `held`, the
compositor's own idea of where the pointer is and what it holds. `constraints` is
the manager that locks pointers, which comes and goes; a lock that is held is kept
(linux_wayland_platform_input.cpp:278), also when the pointer is taken to another
surface, and the history variable `lapsed` says that this has happened. `WaylandKeyboard` has keymap, focus, the repeat timer and touch;
`WaylandSeat` composes them with the capabilities and the end of the seat. The
compositor is external: what it may send is stated at the head of each module.
`WaylandGlobals` has the registry's announcements and removals in any order; a
global carries the number the server gives it, so that a second manager of the
same kind takes over from the first and the removal of the first does nothing. `objects`
are the relative pointers and the locks the seats have of the two managers.
`Keyboards` holds the three tables as runs of codes and, for each platform, the
handler that finds key and modifiers. `UsKeyboard` is a US keyboard as the systems
number it, a keysym, a scan code and a key code for each cap: the letters, digits
and symbols, F1 to F12, the cursor block, the operators of the keypad and the
modifiers. It leaves out what the tables do not agree on (Backspace, Delete, the
grave accent), what Android's has no entry for, the locks and the keypad's digits.

### Byte arrays, urls, sorting, files

`ByteArrays` edits an array, encodes it, cuts or damages the text and decodes it one
character at a time into an array whose size was computed before. `QuickSort`
looks at one element at a time: `partition` with its two places, `at` (`i` or
`first` of find_if_not) and `front`, and the calls to come on a stack. `Urls`
splits texts the way the regular expression does. They are compared with
reference definitions; `Texts` puts them together. `FileMappers`
keeps the system's mappings and their ranges beside the owners; `Files` a file whose path may be
removed and made anew while its stream is open.

## Runs

| run | what it asks | instance | states |
|---|---|---|---|
| `one_loop` | `TypeOK`; `KeepsPromise`: the loop implements `Mailbox`, its liveness included; `QuitEndsExec`; `DeferredSlotsRun`; `DeleteLaterDestroys` | one loop, one other thread, one object, queue of 3, one deferred slot | 79 k |
| `cross_thread` | `NoLostWakeup`, `QueuesNameTheLiving`, `KeepsOrder` | two loops, an object posted to at the application and destroyed by the worker, queues of 2 | 3.0 M |
| `linux_loop` | `RegistryAgrees`, `PokesTheReported`; `TmTypeOK`, `NeverBlocksInRead`, `ArmedAsAsked`, `OnlyRunningFire`, `RunningTimersFire` | a socket with two notifiers, another descriptor, a file epoll refuses, batches of 2; or two timers, intervals 0, 1 and 2 | 69 k |
| `mqtt_connection` | `TypeOK`, `HookWatchesSocket`, `PolledWhileConnecting`, `SubscriptionStateTells`, `RegistryTellsBroker`; `AttemptsEnd` | two topics, three connections, three requests; the program connects in DISCONNECTED, and calls the client from the slots of a refusal and of disconnect | 131 k |
| `windows` | `EventsFindTheLiving`, `WindowAgrees`, `PointerAgrees`, `SlotsAgree`, `Win32TimersAgree`, `CursorAgrees`, `NothingIsSleptOver`, `NoStepOverreacts`, `StepsAreReal`, `EverythingIsHandled` | one window on one of four platforms; a disabled cursor; the wait of a loop; notifiers of Win32 and Android: a socket with two readers (twins) and a writer, a descriptor the system refuses, two reports under way; two Win32 timers, two identifiers | 260 k |
| `wayland_input` | `InputAgrees`, `GlobalsAgree`, `KeysAgree`, `EventsFindTheFocus` | a seat with two windows, a registry with ten globals, or a keyboard with nine caps | 653 k |
| `library` | `TreeAgrees`, `ListenersHoldTheLiving`, `StepsAreInOrder`, `TextAgrees`, `FilesAgree` | four objects, two filters, two containers, arrays of 4 bytes and of 5 elements, ... | 87 k |

Where a run has several parts that share nothing (window, cursor, waits,
notifiers and timers in `windows`; seat, registry and keyboard in `wayland_input`;
notifiers and timers in `linux_loop`; all of `library`), a behaviour chooses one of them at its start as its `subject`,
and the others stay in one state: the states add and do not multiply. Their
properties are conjunctions of the parts' own.

What the composed properties say:

* `RegistryAgrees`: epoll watches exactly the descriptors and events that have
  slots, no slot names a notifier that is gone, and what was registered stays.
  `SlotsAgree` says the same of Win32 and Android, and that a delivery is for the
  descriptor that was reported, unless a handler erased its entry and another
  descriptor's took the memory. `PokesTheReported`: an
  event pokes the notifier registered for it. `Win32TimersAgree`: the map, the
  system and the timers that run name each other.
* `WindowAgrees`: a native window is mapped only if `visible`; once all reports
  are in, both halves have the server's size; buttons are held that the server
  holds; a Wayland buffer has the scale factor of its window.
* `PointerAgrees`: grabs, clips, raw input and captures end with their reason, a
  capture not before. `NoStepOverreacts`: on no platform a reported size is answered
  by a request, and a window that is given bounds is within them (times its scale
  factor) afterwards. `CursorAgrees`: relative moves count from where the pointer is.
* `NothingIsSleptOver`: the loops of Win32 and Android do not sleep with a post
  whose wake-up has been, nor that of Wayland with an event in its queue.
  `StepsAreReal`: a disabled cursor reports each move of the hand as far as it
  went, unless it ends where the pointer was warped to last or is the first one
  counted, and a warp only if another warp has followed it; a wait does not begin
  with unflushed requests of the round; and on Win32 and Android a slot is lost only to
  the end of a notifier of the same descriptor and type. `EverythingIsHandled`:
  what has come is handled. `AttemptsEnd`: a connect and a disconnect of the
  client come to an end.
* `InputAgrees`: focus, cursor and the key that repeats agree with the compositor
  after each frame; the pointer is free while the cursor of the window it is in is
  enabled, and otherwise locked to that window, if there is a manager and the
  pointer was not taken off a surface while locked to it; no lock outlives pointer
  or manager. `GlobalsAgree`: an integration that runs has a compositor, a shell and
  shared memory of the server's, its seats and outputs are the server's, and no
  relative pointer and no lock is left of a manager that went. `KeysAgree`: the caps
  of `UsKeyboard` are the same keys on each platform and the modifiers reported are
  held. `EventsFindTheFocus`: buttons, moves and keys go to the
  window in focus.
* `TreeAgrees`: a parent pointer leads to an owner, an object has one owner.
  `ListenersHoldTheLiving`: listeners of the tree know the children; no property
  and no connection leads to a dead dependency. `StepsAreInOrder`: a child is
  announced before it is destroyed, filters see an event before its target, a destroyed
  container is not cleaned up.
* `TextAgrees`: decoding stays in its array and gives back what was encoded;
  pieces make the whole; a local path survives the way to a URL and back;
  elements no call of quick_sort will look at are in order, and nothing is
  lost. `FilesAgree`: each mapping has one owner, also after moves and failed unmaps.

Runs that end in a counterexample, each a finding:

| run | the code | what says otherwise |
|---|---|---|
| `late_delivery` | an event popped but not yet delivered is missed by the purge of another thread, and delivered to freed memory | test "Object destruction cleans up event queue" |
| `drop_current` | the reference `notifierSet` is used after a handler erased the entry, as `MqttClient` does when its connection breaks | "Find which notifiers for this fd should be poked" |
| `timers_block` | the read of a timerfd whose reported expiry a slot has cancelled blocks the loop | "0 means do not wait (i.e. poll)" |
| `map_again` | map of a file that is mapped answers with the old mapping, whatever range is asked for | "Closes and makes invalid any existing mappings." |
| `mqtt_hook_lost` | connect in DISCONNECTING opens a socket while the hook is engaged on the old one | "monitoring the client's network socket" |

**Bounds.** `MaxQueue` bounds a queue by refusing posts, `MaxDeferred` the
deferred slots, `MaxBatch` the events of one epoll_wait. A queue of 3 holds an
event being purged between two others and lets handlers post while a round is
under way; with two loops, where the hazards are about which queue is purged,
who wakes whom and in which order events leave, two events per queue meet every
one of them. Batches of 2 have an event that waits while the handlers of another
change the map. The filter of the runs accepts user events, so both outcomes of
a delivery occur. Two timers are enough for one to be reported while the slot of
the other runs, three intervals for a running timer to be re-armed and to be
given an interval of zero. Three
connections are one that is open, one opened over it or after its refusal, and
one more; three requests let two overlap on one topic while a third is for the
other; `MaxNested` 3 lets a slot of a refusal connect and the slot of that
disconnect.

`windows`: `Widths` {1, 2} and `Heights` {1} are two sizes, one that is asked and
one that is reported; `MaxIds` 2 lets an xcb window be made anew while events
(`MaxEvents` 2) of the first are in the queue; `MaxPixels` 4, the size of a Wayland
buffer, is the largest width at the larger of the two `Scales`; `SomeBounds` are bounds that a window exceeds
in one dimension, has none in, or is smaller than. `Reach` 2 and `Centres` {0, 1} put the
pointer to both sides of a centre that moves, and `MaxMoves` 3 holds a move, the
warp it causes and the next move. Two notifiers of one kind meet as twins, two
timers share two identifiers, so that one is given again. `MaxPosted`, `MaxMessages` and `MaxRequests` 2
and `MaxWire` 3 leave something behind when one is handled.

`wayland_input`: two windows to leave and enter, two buttons and two keys of which one is
released while the other is held, two fingers of which the first counts; `MaxSlots` 2
for a connection that stays when another is made; two seats, two relative
pointer managers, one of every other global (no decorations, which are treated like the data manager); `MaxHeld` 3 caps for a key under two modifiers; nine of the 85 caps: letters,
a digit, keys that are only in some runs of the tables (Tab, F12, Left), both shifts
and a control.

`library`: four objects make a parent, a child, a grandchild and another parent;
`MaxDepth` 4 calls nest; `MaxFilters` 3 lets one of two filters be installed twice; two
containers and two dependencies; bytes 0, 107 and 255 and the stray characters
'=', '!', '_' and 255 reach every branch of base64, `MaxBytes` 4 every remainder;
`MaxLength` 5 and three elements have equal elements on both sides of the
middle; `MaxPath` 5 characters make a directory, a name and an extension; three
addresses for two mappers that map twice, the whole file or a part.

Symmetry is over the interchangeable model values of runs without liveness
(`wayland_input`, `library`). `CHECK_DEADLOCK FALSE` stands where a system may stop:
closed loops, a program that quits, a start without the core globals, an array
that is sorted.

**Environment.** What the models take from outside, beside what each head says:
a filter does not destroy the target of the event it is shown and pass the event on
(`FiltersSpareTarget`: `deliverEvent` would call a destroyed object); no handler
calls exec or processEvents, so that loops are not nested; nothing is deferred while
deferred slots are evaluated (KDBindings' evaluator, which is outside this
repository, holds its mutex meanwhile); a Timer is not destroyed out of a slot of
its own timeout, which would end the signal being emitted; windows are destroyed
between events, not by the handler of one of their own in mid-frame (Wayland), and
handlers run at the end of the handling of an event; `cursorChanged` of a window
connected by a pointer that is gone is not emitted (its slot would call into that
pointer), and no pointer is locked to a destroyed surface or with a manager that
was removed;
slots keep out of the very vector a call below them holds an iterator into
(`ObjectTree!Untouched`, `MayCall`); a filter that changes the list accepts its
event; containers have a manager each; descriptors are not reused before their
notifiers go, nor watched twice (Linux); the Wayland compositor enters and
leaves in turn, groups events into frames, sends one keymap format and a repeat
rate other than zero; the locks of the keyboard stay off; the program of
`mqtt_connection` connects in DISCONNECTED and not out of slots of CONNECTING.

**Fairness.** `EventLoop!FairSpec` asks that the library's own steps are taken (the
scheduler runs every thread: weak fairness), that a handler that may return
does so (strong fairness, because a handler that posts or destroys is, while
it does, not able to return) and the same for slots of `destroyed`. It does not
ask that a program posts, that a descriptor becomes ready, that epoll_wait is
interrupted or that a loop is entered. All its liveness properties therefore have
the loop being left as their alternative. `Timer!FairSpec` adds that time passes,
that the thread runs its loop and that epoll reports descriptors that stay
ready in turn (strong fairness of `WaitFor`): it moves them to the end of
its list. `MqttClient!FairSpec`: slots return, and the loop serves the notifiers
and timers of the client; the misc task then gives up connections on which
nothing moves (keep-alive). Both liveness properties of the client ask that
there is a socket: a connectAsync that fails leaves the client CONNECTING. A
disconnect in the slots of CONNECTING would find no connection yet, and the
connection would be made all the same. `MCWindows!MCSpec`: weak fairness of the steps the
loop's thread takes by itself, of the poster's wake-up, of the base wait when the
connection has something to read, and of a reader that has announced itself: it
comes, as libwayland asks of every reader. Strong fairness is asked only of the
looper's return for the command that ends an Android activity, which competes
with other input: the looper answers its descriptors in turn.

**Mutants.** Beside a definition stands, where one is needed, the form a
plausible bug would give it (a push without the wake-up, a round that goes on
until the queue is empty, an eventfd that is drained before waiting, a purge that
is left out, a listener that applies an event before its frame, ...).
`PROJECT.json` pairs each property, and most conjuncts of the composed ones,
with a mutant that breaks it.

## Proofs

All for any finite or infinite sets of threads, loops, receivers, timers,
notifiers, descriptors, topics, objects, windows and globals, any homes and any
bounds, from the assumptions named in the modules (in `EventLoop`: `Main` is a
loop, loops are threads, `None` is none of the values).

* `TypeCorrect`: `Spec => []TypeOK`. Inductive together with `PhaseInv`, which
  ties the control of a loop to what its thread is doing: a thread that owes a
  wake-up or is in a destructor is not in a library phase of its own loop.
* `NoWakeupIsLost`: `Spec => []NoLostWakeup`. The property speaks of a loop in
  epoll_wait; the invariants `EventsInv`, `QuitInv` and `DeferredInv` say, for
  every phase in which the loop can no longer notice by itself, that what has
  arrived since has kicked it or is about to.
* `QueuesAreSafe`: under `PurgeReaches` (events for an object are posted to the
  thread that destroys it or to the application), `Spec =>
  []QueuesNameTheLiving`. The invariant `VictimInv` says which queues a
  destructor has already purged, `HomeInv` that events are where their posts
  put them; `AppInv` covers the application's own QuitEvents.
* `DeliveryIsSafe`: under `ThreadAffine` (the thread that destroys is the one
  whose loop delivers) and `FiltersSpareTarget`, `Spec => DeliverToTheLiving`, an
  action property: no step hands an event to an object that is gone, although
  filters run between the pop and the delivery and destroy what they like but the
  target. `PoppedInv`: the target of a popped event is alive and not the victim of
  the loop's thread. `late_delivery` shows that `PurgeReaches` is not enough.
* `OrderIsKept`: under `PurgeReaches`, `Spec => KeepsOrder`, step by step: every
  step is a step of `Mailbox` under the refinement mapping or leaves it alone.
* `PurgeCorrect`: `RemoveAllEventsTargeting` keeps exactly the other events, in
  their order. It is defined by ranks, not by recursion, so that it can be
  proved about.
* `TreeIsSound`: `Spec => []TreeAgrees`, for any objects and any depth of calls
  inside calls. `TreeInv` says why slots do no harm: a call that holds a place
  in a vector is alone with it (`PlacesHeld`, `PlacesAlone`), the places moved
  from are those of the takeChild calls under way (`NoneIsHeld`), an object
  being destroyed is in no vector and only once on the stack (`DyingOnce`,
  `DyingUnowned`), and a destructor works below a set of objects in which no
  call beneath it holds a place (`Undisturbed`), so that the children it pops
  are nobody's.
* `RegistryIsRight`: without reuse of numbers and twins (`ReuseFds`, `Duplicates`
  FALSE), `Spec => []RegistryAgrees`, whatever handlers do, those that drop the
  current descriptor included. The invariant `RegistryInv` adds what the property
  rests on: a closed file is watched for nothing (`ClosedUnwatched`), a slot holds
  a notifier of its own descriptor and type (`SlotsFit`), living notifiers differ
  in one of the two (`OneEach`).
* `PokesAreRight`: if, besides, `HandlersDropCurrent` is FALSE, every step
  satisfies `PokesReported`. `DispatchInv`: the reference is the map's own
  entry (`RefIsCurrent`), and its slots are granted (`SlotsGranted`).
* `ListenersAreTold`: `Spec => []ListenersAgree`. A listener knows the children,
  but for those a call under way still has to announce. `ToldInv` adds to
  `TreeInv` that no two calls work on the same child of the same object
  (`AnnouncedOnce`), that a child being announced stays a child (`AddedStay`),
  and that one being taken or popped is nobody's (`TakenAreFree`, `PoppedDie`).
  `NoneDiesUnannounced`, an action property, follows from it.
* `ListenersAreRight`, `OrderOfSteps`: the same for the postman and the helpers,
  composed in `Library`. `PostInv`: the filters shown an event so far are those
  in front of the place reached. `HelpersInv`: a dependency and a container know
  each other in both maps, and a connection stands for every pair
  (`ManagersKnow`, `HandlesFollow`), so that no container keeps a pointer to a
  destroyed dependency and no slot runs for a destroyed container.
* `FilesAreSound`: `MappersInv` says that each mapping of the system has one
  owner, and that an unmap is told to it (`EachHasOne`, `UnmapTells`);
  `FilesInv` that a stream stays in its file (`StreamFits`).
* `TextIsRight`: the specifications of the three algorithms imply
  `[]TextAgrees`, for texts of any length: a loop is an invariant, and no
  induction over data is needed. Sequences and places are related by the library's
  facts on `SubSeq` and by the least place with a property.
  * `BytesComeBack`. `BytesInv` says how far the decoder has come
    (`DecodingAgrees`): three bytes for every four characters, the groups that
    are intact decoded to the bytes of the array (of a text that was cut or damaged,
    those before the place), the pending values those of the
    group in hand, no padding so far. Without the last an intact text that has
    been read to its end might still be one whose last group is short. That four
    sextets make the three bytes they were cut from is arithmetic.
  * `QuickSortSorts`. `SortsTheRest` alone is not inductive: a swap keeps what
    lies outside the range in order only because the range is the call's own.
    `SortInv` adds that ranges are in the array (`CallsFit`) and what the places of
    the partition divide (`PartAgrees`): less than the pivot, not less, not
    looked at; then less, equal, greater. The pivot is among the rest until
    both partitions have passed it, so the parts are apart by an element
    (`CallsApart`), which bounds the stack. That a swap loses nothing is a
    bijection of the places of each element.
  * `UrlsComeBack`. A path is any sequence of characters: `UrlTyped`. What the
    expression takes for scheme, path and name are pieces at the first and last
    of certain places, and the text that `fromLocalFile` makes is shown to have
    the same last of them, moved by the length of what was put in front.
* `SlotsAreRight`: the slots of Win32 and Android. The invariant `SetsInv` adds only
  that the reports under way name descriptors and types: what is read through a
  reference is a slot of the map or nothing, so that no death, not even of the last
  notifier of the descriptor being delivered, makes it name a notifier that is gone.
* `Win32TimersAreRight`: `Win32TimersAgree` is inductive. Identifiers may be given
  again and SetTimer may fail.
* `NoLoopSleepsOver`: the waits of Win32, Android and Wayland. `WaitInv`: between
  the look at the queue and the end of the sleep every post has its wake-up, sent
  or to be sent. `SleepInv`: between the flush and the sleep only handlers of the
  drain loop make requests. `WireInv` keeps the types: reads move events, and the
  bound is on those read and unread together.
* `CursorIsRight`: wherever the pointer goes and whatever is under way,
  `CursorSpec => []CursorAgrees`. `CursorInv` says of the moves under way that the
  last ends where the pointer is, and that each counts from the one before (X),
  or the only one from the position remembered (Windows, which makes one message of
  several moves), once a first event was handled; and that a warp under way is to
  the place remembered (`LastWarpKnown`) unless another one follows it.
* `StepsOfLoopsAreReal`: every step satisfies `StepsAreReal`, from the three
  invariants.
* `InputIsRight`, `EventsAreForTheFocus`: `SeatInv` says what the client knows in
  the middle of a group of events: that the group in hand is for the focus or
  has moved it (`GroupKnowsWhere`, `FocusIsWhere`, `GroupIsForFocus`), that the
  window in focus is connected (`FocusIsConnected`), that cursor and lock follow
  it, the lock until the pointer is taken off its surface (`LockFollows`), and, for the keyboard, that both sides agree on its focus.
* `EventsAreDelivered`, `WindowIsRight`, `PointerIsRight`: for any sizes, scales,
  bounds and buttons, any number of native windows and of events under way. The
  properties hold of states; `WindowInv`, one invariant for each platform, holds
  also of every window record a step goes through, since a slot of the properties
  may run in the middle of a handler: an operation is shown to keep it, whatever
  record it is given, and a step is a composition of operations. On X the
  properties alone are not inductive: `XcbHears` adds that ids of destroyed
  windows are not used again (`XcbFits` and the bound on the ids in the queue),
  that the last ConfigureNotify under way for the window carries its geometry, and
  that without one the size is the geometry (`Sized`), and that of every
  button held down the last event under way is the press, or the press has come
  in and no release is under way (`Known`). `XcbWorks` holds between the slot of
  `visible` and the unmap, where a window is mapped and no longer visible.
* `ReportsAreHeeded`: every step satisfies `NoStepOverreacts`, from `WindowInv`: the
  handlers of sizes leave the requests alone on all four platforms, since the slots
  they run meet the size that was reported; the bounds are arithmetic.
* `ModifiersAreRight`: `KbSpec => []ModifiersAreHeld`, whatever caps the
  keyboard has. `StateKnows`: the client's keyboard state is what is held, on Xcb
  until the focus has been elsewhere, on Wayland unless a modifiers event is due.
* `KeysAreRight`: `KbSpec => []KeysAgree` if the caps are some of `UsKeyboard`. Beside
  `ModifiersAreRight` it rests on the tables: whatever code they are asked for they
  answer with a member of enum Key (`KeysymsAreKeys`, `ScanCodesAreKeys`,
  `KeyCodesAreKeys`), and the three give each of the 85 caps of `UsKeyboard` the key
  it is (`TablesAgree`). A cap whose two symbols are different keys is told as one
  of them on Xcb and Wayland, which is why the property asks for one key.
* `GlobalsAreRight`: `GlobalsInv` adds to the property that the core globals
  bound are still announced, that the vectors hold what is announced, once, and
  that relative pointers and locks are gone when their manager is
  (`ManagersOutliveTheirs`). Decoration and data managers that the server removes
  stay bound; the property does not speak of them.
* `TimerTypeCorrect`; `TicksAsAsked`, `OnlyRunningTimersFire`: invariant
  `AskedInv`; only a descriptor that ticks has expirations, so a read that
  returns belongs to a running timer. `ReadsDoNotBlock`: unless
  `SlotsTouchReported`, `TmSpec => []NeverBlocksInRead`; `ReadInv` says
  that every timer still to be poked has an expiration.
* `ClientTypeCorrect`, `SubscriptionStateIsRight`: both properties are inductive.
* `HandshakesArePolled`: in the slots of CONNECTING the timer does not run yet
  while the library may still hold an old connection, so the invariant `Polled`
  looks at `stack`. No condition on the program is needed.
* `HookStaysOnSocket`: if `ConnectIn` is `{"DISCONNECTED"}` at most, `Spec =>
  []HookWatchesSocket`. The invariant `HookInv`: outside the slots of a refusal
  the hook is on the socket, there is no socket in DISCONNECTED or before a
  `connect` on the stack goes on, and at most one `connect` is on the stack; a
  refusal is always the outermost frame, so that what happens in its slots ends
  when the library closes the connection.
* `RegistryIsTrue`: `Spec => []RegistryTellsBroker`, with no condition on the
  program. Its invariant `Session` holds while the first connection's socket is
  there: CONNECT is written before any request, the pending ids are those of
  requests and answers under way, each topic at most once
  among them (`Apart`), and `Agree`: of a topic without an answer under way
  registry and broker agree, of another the last answer under way tells
  what the broker holds.

The conditions are conditions on the program, not on the library; the
findings show what happens without them. What else the theorems assume of
constants is of the data: a notifier has one of the types of its platform
(`TypesAreKnown`), the centre of a window is a place the pointer can be
(`CursorAssumption`), sizes and bounds are numbers and scales positive, with 1
among them (`SizesAreNumbers`, `EventsAssumption`), the platforms are the four
(`PlatformsAreKnown`), 0 is not an identifier SetTimer gives (`ZeroIsNoId`), "no
window" is not a window (`SeatAssumption`), and a null pointer not an object
(`ObjectsAssumption`). Characters are bytes and the elements to sort numbers
(`CharactersAreBytes`, `ElementsAreNumbers`); letters, words and separators differ
(`WordsAndLetters`).
`LibraryAssumption` keeps containers and dependencies
apart, and `Library` gives every container a manager of its own: with a shared
one, containers lose each other's connections and `CleansUpTheLiving` fails (see
"Seen on the way").

**Only model-checked.** Liveness (`KeepsPromise`, `QuitEndsExec`,
`DeferredSlotsRun`, `DeleteLaterDestroys`, `RunningTimersFire`, `AttemptsEnd`,
`EverythingIsHandled`): the prover has no ENABLED and no fairness. Every safety
property of a passing run, state or action, is a theorem.

## Seen on the way

Behaviours of the code met while modelling that the repository says nothing else of,
that come with a finding above, or that lie outside what the runs contain:

* A worker that destroys an object while the application ends tests
  `CoreApplication::instance()` and then uses it (event_receiver.cpp:24).
* A number closed and reused before its notifier goes answers ENOENT, not EBADF,
  and the map keeps a pointer to the destroyed notifier. A refused second
  notifier for a descriptor and type unregisters the first when it is destroyed,
  and Android's registerNotifier returns true although the looper refused.
* A moved Object leaves its children's parent pointers at the object moved from;
  containers sharing a DestructionHelperManager lose each other's connections.
* The establish timer goes on when a connection breaks before CONNACK; the
  subscription registry outlives a clean session, which is why
  `RegistryTellsBroker` is about the first; a refused subscription is registered
  with the refusal as its quality of service; a connectAsync that fails leaves
  CONNECTING.
* Wayland: capabilities announced twice destroy the pointer; `cursorChanged` stays connected when a
  window is left; a repeat rate of 0 is divided by; the lift of a finger
  goes to the keyboard's focus and reads `points[0]` of an emptied vector; a
  keymap of another format leaks its descriptor; a round trip inside the base
  wait waits for itself; requests made by handlers that run in the drain or
  in the wait are not flushed before the sleep; cancel_read is never reached;
  the record of a removed manager keeps its pointer, and so do decoration and data
  managers; a lock stays on the surface it was made for when the pointer enters
  another, and a window whose cursor is disabled is then entered without one of its
  own; configureBounds hands handleResize a size that is scaled already, so that
  with a scale factor of 2 a bound may enlarge a window.
* Win32 and Wayland create a window without looking at `cursorEnabled`; a Win32
  timer whose SetTimer failed meets the assertion of disarm.
* Xcb: keyboard state notifications are selected and not handled;
  the clipboard's wait drops the events it finds. Xcb and Win32:
  `m_previousWarpedCursorPosition` is one place and never reset, so that a move of
  the hand that ends there is dropped, and a warp that is overtaken by another is
  reported as a move (enableCursor's, put back by disableCursor before it is
  handled, or one to a former centre); the first move of a window, and the first
  one after raw input, counts from an old position.
* Android: ALooperCallback refers to an entry of the map across handlers, as the
  Linux loop does (`drop_current`): a handler that destroys the last notifier of the
  descriptor erases it; AKEYCODE_DEL and AKEYCODE_FORWARD_DEL are exchanged; `Key_NumPad_6` and
  `Key_NumPad_7` have one value.
* `ByteArray::mid` reads past the end for `pos + len` beyond it; the base64 table
  has 255 entries and is indexed with 255.
* A local path without an extension makes a Url that is not a local file, as
  does a hidden file in the root of a drive.
* FileMapper's unmap only warns about a pointer that is not the mapping, unmaps and
  answers true, where file_mapper.h:49 has "false on IO failure or invalid pointer"
  (see the finding of `map_again`); unmap of a mapping made for reading, given its
  pointer, maps the file for writing first; File::readAll reads
  nothing from a stream not open for reading, and its size is that of the path.

## Not modelled

macOS and Cocoa: nearly every line is a call into Apple's frameworks, whose
semantics the repository does not state. Logging, colours, formatters, hashes,
flags: tables, wording and one-line helpers without a state. `Dir` is
std::filesystem. The platform integration of the application and its standard
directories are I/O. Of the MQTT client: publish and messages (they pass
through), the configuration calls and MqttManager's set-up, TLS beyond `PollsHandshake`,
message ids used again. Of windows: the list of event receivers, titles, icons
and decorations. The xcb clipboard, Wayland's data offers and Android's text
input.

Payloads, priorities and wording; sendEvent (a direct call); the timeout's
length; the memory model: a locked section, a system call and an access of the
quit flag are atomic. The eventfd's counter does not overflow. An evaluator, a
poster or a notifier that outlives its loop is not modelled: nothing in the
library prevents it, and no text says what should happen.
