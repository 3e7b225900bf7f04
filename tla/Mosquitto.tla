------------------------------ MODULE Mosquitto ------------------------------
(***************************************************************************)
(* libmosquitto and the broker, as mosquitto_wrapper.h and MqttClient use  *)
(* them: the library queues packets and writes what the socket takes, the  *)
(* broker answers them in order, and the answers wait to be read.  None of *)
(* this code is in the repository.                                         *)
(*                                                                         *)
(* The operators describe what a call does to the library; the callbacks   *)
(* it makes are left to MqttClient.                                        *)
(***************************************************************************)
EXTENDS Naturals, Sequences

CONSTANTS
    Topics,
    CleanSession,   \* MqttManager::CLEAN_SESSION
    Refusals,       \* what the broker may refuse
    MaxConnects,    \* bound on the connections opened
    MaxMsgId,       \* bound on the message ids given out
    None

\* What the broker answers to a subscription.
Grants == {"granted", "refused"}

ASSUME MosquittoAssumption ==
    /\ CleanSession \in BOOLEAN
    /\ Refusals \subseteq {"connection", "subscription"}
    /\ MaxConnects \in Nat
    /\ MaxMsgId \in Nat
    /\ None \notin Nat
    /\ None \notin Topics \cup Grants

VARIABLES
    socket,     \* the connection the library has open, or None
    opened,     \* connections opened so far; each has its number
    served,     \* the broker has accepted the CONNECT of this connection
    lastMid,    \* the message id given out last
    outgoing,   \* packets queued and not yet written
    incoming,   \* answers of the broker, not yet read
    held        \* the topics the broker sends this client

libraryVars == <<socket, opened, served, lastMid, outgoing, incoming, held>>

Connections == 1 .. MaxConnects
MsgIds == 1 .. MaxMsgId

Packets ==
    [type : {"CONNECT", "DISCONNECT"}]
    \cup [type : {"SUBSCRIBE", "UNSUBSCRIBE"}, mid : MsgIds, topic : Topics]

Answers ==
    [type : {"CONNACK"}, accepted : BOOLEAN]
    \cup [type : {"SUBACK"}, mid : MsgIds, qos : Grants]
    \cup [type : {"UNSUBACK"}, mid : MsgIds]

LibraryTypeOK ==
    /\ socket \in Connections \cup {None}
    /\ opened \in 0 .. MaxConnects
    /\ served \in BOOLEAN
    /\ lastMid \in 0 .. MaxMsgId
    /\ outgoing \in Seq(Packets)
    /\ incoming \in Seq(Answers)
    /\ held \in SUBSET Topics

LibraryInit ==
    /\ socket = None
    /\ opened = 0
    /\ served = FALSE
    /\ lastMid = 0
    /\ outgoing = <<>>
    /\ incoming = <<>>
    /\ held = {}
-----------------------------------------------------------------------------
\* The broker gets a packet other than DISCONNECT.
Accepts ==
    /\ served' = TRUE
    /\ incoming' = Append(incoming, [type |-> "CONNACK", accepted |-> TRUE])
    /\ held' = IF CleanSession THEN {} ELSE held

Refuses ==
    /\ "connection" \in Refusals
    /\ served' = FALSE
    /\ incoming' = Append(incoming, [type |-> "CONNACK", accepted |-> FALSE])
    /\ held' = held

Subscribes(p) ==
    \/ /\ held' = held \cup {p.topic}
       /\ incoming' = Append(incoming, [type |-> "SUBACK", mid |-> p.mid, qos |-> "granted"])
    \/ /\ "subscription" \in Refusals
       /\ held' = held
       /\ incoming' = Append(incoming, [type |-> "SUBACK", mid |-> p.mid, qos |-> "refused"])

Unsubscribes(p) ==
    /\ held' = held \ {p.topic}
    /\ incoming' = Append(incoming, [type |-> "UNSUBACK", mid |-> p.mid])

BrokerGets(p) ==
    \/ p.type = "CONNECT" /\ (Accepts \/ Refuses)
    \/ p.type = "SUBSCRIBE" /\ served /\ Subscribes(p) /\ UNCHANGED served
    \/ p.type = "UNSUBSCRIBE" /\ served /\ Unsubscribes(p) /\ UNCHANGED served
    \/ p.type # "CONNECT" /\ ~served /\ UNCHANGED <<served, incoming, held>>

\* A call queues its packet, and writes it at once if it is first in the queue,
\* the socket takes it and the call does not come from a callback.
Send(p, inCallback) ==
    \/ /\ outgoing' = Append(outgoing, p)
       /\ UNCHANGED <<served, incoming, held>>
    \/ /\ ~inCallback
       /\ outgoing = <<>>
       /\ BrokerGets(p)
       /\ UNCHANGED outgoing

Closed ==
    /\ socket' = None
    /\ served' = FALSE
    /\ outgoing' = <<>>
    /\ incoming' = <<>>
    /\ UNCHANGED <<opened, lastMid, held>>

\* mosquitto_connect_async closes a connection that is still open, without a
\* callback, and opens another, or fails.
ConnectAsync ==
    /\ opened < MaxConnects
    /\ opened' = opened + 1
    /\ socket' = opened + 1
    /\ served' = FALSE
    /\ outgoing' = <<[type |-> "CONNECT"]>>
    /\ incoming' = <<>>
    /\ UNCHANGED <<lastMid, held>>

ConnectAsyncFails == Closed
=============================================================================
