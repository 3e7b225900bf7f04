----------------------------- MODULE MqttClient -----------------------------
(***************************************************************************)
(* MqttClient: the connection state, the hook that has the event loop      *)
(* watch the library's socket, the timer that polls the library while a    *)
(* connection is established, and the registry of subscriptions.           *)
(*                                                                         *)
(* Everything runs on one thread, but program code runs inside the client: *)
(* connect, disconnect and onConnected set connectionState, whose slots    *)
(* may call the client again before they go on.  "stack" holds what is to  *)
(* go on after such slots.  Where a handler sets a property last, its      *)
(* slots are the calls the program makes next.                             *)
(***************************************************************************)
EXTENDS Mosquitto

CONSTANTS
    ConnectIn,      \* the connection states in which the program calls connect
    Reentered,      \* the frames in whose slots it calls the client
    MaxNested,      \* bound on the frames on the stack
    PollsHandshake  \* TLS: a connection makes progress before CONNECT is
                    \* written only if the library is polled

Frames == {"connect", "disconnect", "refused"}

ConnectionStates == {"CONNECTING", "CONNECTED", "DISCONNECTING", "DISCONNECTED"}

SubscriptionStates == {"SUBSCRIBING", "SUBSCRIBED", "UNSUBSCRIBING", "UNSUBSCRIBED"}

ASSUME MqttAssumption ==
    /\ ConnectIn \subseteq {"DISCONNECTING", "DISCONNECTED"}
    /\ Reentered \subseteq Frames
    /\ MaxNested \in Nat
    /\ PollsHandshake \in BOOLEAN

VARIABLES
    connectionState,
    subscriptionState,
    hook,       \* the connection EventLoopHook is engaged on, or None; its
                \* miscTaskTimer runs exactly while it is engaged
    polling,    \* m_establishConnectionTaskTimer.running
    registry,   \* qosByTopicOfActiveSubscriptions; None: no entry
    pending,    \* topicByMsgIdOfPendingOperations; None: no entry
    stack       \* the handlers that wait for slots, the innermost last

clientVars ==
    <<connectionState, subscriptionState, hook, polling, registry, pending, stack>>

subscriptionVars == <<subscriptionState, registry, pending>>

vars == <<libraryVars, clientVars>>

TypeOK ==
    /\ LibraryTypeOK
    /\ connectionState \in ConnectionStates
    /\ subscriptionState \in SubscriptionStates
    /\ hook \in Connections \cup {None}
    /\ polling \in BOOLEAN
    /\ registry \in [Topics -> Grants \cup {None}]
    /\ pending \in [MsgIds -> Topics \cup {None}]
    /\ \A i \in MsgIds : pending[i] # None => i <= lastMid
    /\ stack \in Seq(Frames)

Init ==
    /\ LibraryInit
    /\ connectionState = "DISCONNECTED"
    /\ subscriptionState = "UNSUBSCRIBED"
    /\ hook = None
    /\ polling = FALSE
    /\ registry = [t \in Topics |-> None]
    /\ pending = [i \in MsgIds |-> None]
    /\ stack = <<>>
-----------------------------------------------------------------------------
OnStack(frame) == \E i \in DOMAIN stack : stack[i] = frame

Push(frame) == stack' = Append(stack, frame)

InnermostIs(frame) == stack # <<>> /\ stack[Len(stack)] = frame

Pop == stack' = SubSeq(stack, 1, Len(stack) - 1)

\* The program calls the client from outside it or from a slot.
ProgramRuns ==
    stack # <<>> => stack[Len(stack)] \in Reentered /\ Len(stack) < MaxNested

\* EventLoopHook::engage
Engage(connection) == hook' = IF hook = None THEN connection ELSE hook

\* Mutant: the hook stays engaged.
OnDisconnectedMutant ==
    /\ connectionState' = "DISCONNECTED"
    /\ UNCHANGED hook

\* Mutant: only connections that were established are taken to end.
OnDisconnectedIgnored ==
    /\ hook' = None
    /\ connectionState' =
        IF connectionState = "CONNECTING" THEN connectionState ELSE "DISCONNECTED"

\* onDisconnected, with EventLoopHook::disengage
OnDisconnected ==
    /\ hook' = None
    /\ connectionState' = "DISCONNECTED"

\* The library closes its connection and calls on_disconnect.
Disconnected ==
    /\ Closed
    /\ OnDisconnected
    /\ UNCHANGED <<subscriptionVars, polling>>
-----------------------------------------------------------------------------
(***************************************************************************)
(* The calls of the program.  Those that are refused and change nothing    *)
(* are left out.                                                           *)
(***************************************************************************)
Connect ==
    /\ ProgramRuns
    /\ connectionState \notin {"CONNECTING", "CONNECTED"}
    /\ connectionState \in ConnectIn
    /\ connectionState' = "CONNECTING"
    /\ Push("connect")
    /\ UNCHANGED <<libraryVars, subscriptionVars, hook, polling>>

\* Mutant: only the socket is monitored.
ConnectGoesOnMutant ==
    /\ InnermostIs("connect")
    /\ Pop
    /\ \/ ConnectAsync /\ Engage(socket') /\ UNCHANGED polling
       \/ ConnectAsyncFails /\ UNCHANGED <<polling, hook>>
    /\ UNCHANGED <<connectionState, subscriptionVars>>

ConnectGoesOn ==
    /\ InnermostIs("connect")
    /\ Pop
    /\ \/ ConnectAsync /\ polling' = TRUE /\ Engage(socket')
       \/ ConnectAsyncFails /\ UNCHANGED <<polling, hook>>
    /\ UNCHANGED <<connectionState, subscriptionVars>>

\* Mutant: the client lets go of the socket before the library is done with it.
DisconnectMutant ==
    /\ ProgramRuns
    /\ polling' = FALSE
    /\ IF connectionState \in {"CONNECTING", "CONNECTED"}
       THEN connectionState' = "DISCONNECTING" /\ hook' = None /\ Push("disconnect")
       ELSE UNCHANGED <<connectionState, hook, stack>>
    /\ UNCHANGED <<libraryVars, subscriptionVars>>

Disconnect ==
    /\ ProgramRuns
    /\ polling' = FALSE
    /\ IF connectionState \in {"CONNECTING", "CONNECTED"}
       THEN connectionState' = "DISCONNECTING" /\ Push("disconnect")
       ELSE UNCHANGED <<connectionState, stack>>
    /\ UNCHANGED <<libraryVars, subscriptionVars, hook>>

\* mosquitto_disconnect: without a connection it fails; otherwise DISCONNECT
\* is queued, or written at once, which closes the connection.
DisconnectGoesOn ==
    /\ InnermostIs("disconnect")
    /\ Pop
    /\ \/ /\ socket = None
          /\ UNCHANGED <<libraryVars, connectionState, subscriptionVars, hook, polling>>
       \/ /\ socket # None
          /\ outgoing' = Append(outgoing, [type |-> "DISCONNECT"])
          /\ UNCHANGED <<socket, opened, served, lastMid, incoming, held>>
          /\ UNCHANGED <<connectionState, subscriptionVars, hook, polling>>
       \/ /\ socket # None
          /\ ~OnStack("refused")
          /\ outgoing = <<>>
          /\ Disconnected

\* registerPendingRegistryOperation, with the id the library has given out
RegisterPending(topic) == pending' = [pending EXCEPT ![lastMid'] = topic]

\* Mutant: the operation is registered before the library has given out its id.
RequestMutant(type, topic, state) ==
    /\ ProgramRuns
    /\ connectionState # "DISCONNECTED"
    /\ socket # None
    /\ lastMid < MaxMsgId
    /\ lastMid' = lastMid + 1
    /\ Send([type |-> type, mid |-> lastMid', topic |-> topic], OnStack("refused"))
    /\ \E uninitialised \in MsgIds : pending' = [pending EXCEPT ![uninitialised] = topic]
    /\ subscriptionState' = state
    /\ UNCHANGED <<socket, opened, connectionState, registry, hook, polling, stack>>

\* What subscribe and unsubscribe do when the library has a connection.
Request(type, topic, state) ==
    /\ ProgramRuns
    /\ connectionState # "DISCONNECTED"
    /\ socket # None
    /\ lastMid < MaxMsgId
    /\ lastMid' = lastMid + 1
    /\ Send([type |-> type, mid |-> lastMid', topic |-> topic], OnStack("refused"))
    /\ RegisterPending(topic)
    /\ subscriptionState' = state
    /\ UNCHANGED <<socket, opened, connectionState, registry, hook, polling, stack>>

Subscribe(topic) == Request("SUBSCRIBE", topic, "SUBSCRIBING")

Unsubscribe(topic) == Request("UNSUBSCRIBE", topic, "UNSUBSCRIBING")
-----------------------------------------------------------------------------
(***************************************************************************)
(* The callbacks of the library, all of them made by loopRead.             *)
(***************************************************************************)
OnConnected(accepted) ==
    /\ polling' = FALSE
    /\ connectionState' = IF accepted THEN "CONNECTED" ELSE "DISCONNECTED"
    /\ IF accepted THEN UNCHANGED stack ELSE Push("refused")
    /\ UNCHANGED <<subscriptionVars, hook>>

SubscribedTopics == {t \in Topics : registry[t] # None}

SetSubscriptionState ==
    subscriptionState' =
        IF \A t \in Topics : registry'[t] = None THEN "UNSUBSCRIBED" ELSE "SUBSCRIBED"

\* An answer without a pending operation leaves the registry alone.
Acknowledge(mid, qos) ==
    /\ pending' = [pending EXCEPT ![mid] = None]
    /\ registry' = IF pending[mid] = None THEN registry
                   ELSE [registry EXCEPT ![pending[mid]] = qos]
    /\ UNCHANGED <<connectionState, hook, polling, stack>>

OnSubscribed(mid, qos) == Acknowledge(mid, qos) /\ SetSubscriptionState

\* Mutant: the topic stays registered.
OnUnsubscribedMutant(mid) ==
    /\ pending' = [pending EXCEPT ![mid] = None]
    /\ UNCHANGED <<registry, connectionState, hook, polling, stack>>
    /\ SetSubscriptionState

\* Mutant: the other subscriptions are not looked at.
UnsubscribedMutant(mid) ==
    /\ Acknowledge(mid, None)
    /\ subscriptionState' = "UNSUBSCRIBED"

OnUnsubscribed(mid) == Acknowledge(mid, None) /\ SetSubscriptionState

OnAnswer(a) ==
    \/ a.type = "CONNACK" /\ OnConnected(a.accepted)
    \/ a.type = "SUBACK" /\ OnSubscribed(a.mid, a.qos)
    \/ a.type = "UNSUBACK" /\ OnUnsubscribed(a.mid)

\* After on_connect for a refused connection the library closes the connection
\* it has then, which a slot may have opened.
RefusedGoesOn ==
    /\ InnermostIs("refused")
    /\ Pop
    /\ Disconnected
-----------------------------------------------------------------------------
(***************************************************************************)
(* The event loop: the notifiers of the hook, if it watches the library's  *)
(* socket, and the timers.  The operations do nothing without a socket.    *)
(***************************************************************************)
InHandshake ==
    PollsHandshake /\ outgoing # <<>> /\ outgoing[1].type = "CONNECT"

Driven == polling \/ (hook = socket /\ ~InHandshake)

LoopRuns == stack = <<>> /\ socket # None

ReadOp ==
    /\ LoopRuns
    /\ Driven
    /\ incoming # <<>>
    /\ incoming' = Tail(incoming)
    /\ OnAnswer(incoming[1])
    /\ UNCHANGED <<socket, opened, served, lastMid, outgoing, held>>

\* One packet; writing DISCONNECT closes the connection.
WriteOp ==
    /\ LoopRuns
    /\ Driven
    /\ outgoing # <<>>
    /\ UNCHANGED stack
    /\ \/ /\ outgoing[1].type = "DISCONNECT"
          /\ Disconnected
       \/ /\ outgoing[1].type # "DISCONNECT"
          /\ outgoing' = Tail(outgoing)
          /\ BrokerGets(outgoing[1])
          /\ UNCHANGED <<socket, opened, lastMid>>
          /\ UNCHANGED <<connectionState, subscriptionVars, hook, polling>>

\* loopMisc gives up a connection on which nothing moves.
MiscTask ==
    /\ LoopRuns
    /\ hook # None \/ polling
    /\ ~Driven
    /\ Disconnected
    /\ UNCHANGED stack

\* The connection breaks, and one of the operations notices.
ConnectionBreaks ==
    /\ LoopRuns
    /\ hook # None \/ polling
    /\ Disconnected
    /\ UNCHANGED stack

GoesOn == ConnectGoesOn \/ DisconnectGoesOn \/ RefusedGoesOn

Next ==
    \/ Connect
    \/ Disconnect
    \/ \E t \in Topics : Subscribe(t) \/ Unsubscribe(t)
    \/ ConnectGoesOn
    \/ DisconnectGoesOn
    \/ RefusedGoesOn
    \/ ReadOp
    \/ WriteOp
    \/ MiscTask
    \/ ConnectionBreaks

Spec == Init /\ [][Next]_vars

(***************************************************************************)
(* Slots return, and the event loop serves its notifiers and timers.       *)
(***************************************************************************)
Fairness ==
    /\ WF_vars(GoesOn)
    /\ WF_vars(ReadOp)
    /\ WF_vars(WriteOp)
    /\ WF_vars(MiscTask)

FairSpec == Spec /\ Fairness
-----------------------------------------------------------------------------
(***************************************************************************)
(* When no call is under way, the hook is engaged on the socket of the     *)
(* library, and on none when there is none ("by monitoring the client's    *)
(* network socket").                                                       *)
(***************************************************************************)
HookWatchesSocket == stack = <<>> => hook = socket

(***************************************************************************)
(* The library is polled "while the connection is being established".      *)
(***************************************************************************)
PolledWhileConnecting ==
    stack = <<>> /\ connectionState = "CONNECTING" /\ socket # None => polling

(***************************************************************************)
(* In a client's first session, once all requests are answered, however    *)
(* they overlapped: the broker sends every topic that is registered as     *)
(* granted, and every topic it sends is registered ("all subscriptions to  *)
(* MQTT topics this MqttClient has").                                      *)
(***************************************************************************)
RegistryTellsBroker ==
    opened = 1 /\ connectionState = "CONNECTED" /\ outgoing = <<>> /\ incoming = <<>>
        => /\ {t \in Topics : registry[t] = "granted"} \subseteq held
           /\ held \subseteq SubscribedTopics

(***************************************************************************)
(* However requests and answers overlap: SUBSCRIBED and UNSUBSCRIBED tell  *)
(* whether there are topics, and a client that is SUBSCRIBING or           *)
(* UNSUBSCRIBING has a request that was not answered.                      *)
(***************************************************************************)
SubscriptionStateTells ==
    /\ subscriptionState = "SUBSCRIBED" => SubscribedTopics # {}
    /\ subscriptionState = "UNSUBSCRIBED" => SubscribedTopics = {}
    /\ subscriptionState \in {"SUBSCRIBING", "UNSUBSCRIBING"}
           => \E i \in MsgIds : pending[i] # None

(***************************************************************************)
(* A connection attempt that got a socket comes to an end, one way or the  *)
(* other, with TLS too.                                                    *)
(***************************************************************************)
ConnectSettles ==
    connectionState = "CONNECTING" /\ socket # None ~> connectionState # "CONNECTING"

(***************************************************************************)
(* disconnect ends in DISCONNECTED when there is a connection, also when   *)
(* it comes in the middle of a handshake that nobody polls any more.       *)
(***************************************************************************)
DisconnectCompletes ==
    connectionState = "DISCONNECTING" /\ socket # None
        ~> connectionState = "DISCONNECTED"

(***************************************************************************)
(* What connect and disconnect began ends (Client::connect, disconnect).   *)
(***************************************************************************)
AttemptsEnd == ConnectSettles /\ DisconnectCompletes
=============================================================================
