----------------------------- MODULE MqttProofs -----------------------------
(***************************************************************************)
(* What MqttClient keeps whatever program, library and broker do.          *)
(***************************************************************************)
EXTENDS MqttClient, SequenceTheorems, TLAPS

(***************************************************************************)
(* The type of the library's part, call by call.                           *)
(***************************************************************************)
LEMMA ClosedType == LibraryTypeOK /\ Closed => LibraryTypeOK'
<1> SUFFICES ASSUME LibraryTypeOK, Closed PROVE LibraryTypeOK'
  OBVIOUS
<1>1. served' \in BOOLEAN
  BY DEF Closed
<1>2. socket' \in Connections \cup {None} /\ held' \in SUBSET Topics
  BY DEF LibraryTypeOK, Closed
<1>3. opened' \in 0 .. MaxConnects /\ lastMid' \in 0 .. MaxMsgId
  BY DEF LibraryTypeOK, Closed
<1>4. outgoing' \in Seq(Packets) /\ incoming' \in Seq(Answers)
  BY DEF LibraryTypeOK, Closed
<1> QED BY <1>1, <1>2, <1>3, <1>4 DEF LibraryTypeOK

LEMMA AnswerTypes ==
    ASSUME NEW p \in Packets, LibraryTypeOK, BrokerGets(p)
    PROVE  /\ served' \in BOOLEAN
           /\ incoming' \in Seq(Answers)
           /\ held' \in SUBSET Topics
<1>1. CASE p.type = "CONNECT" /\ Accepts
  <2>1. [type |-> "CONNACK", accepted |-> TRUE] \in Answers
    BY DEF Answers
  <2>2. held' \in SUBSET Topics
    BY <1>1, MosquittoAssumption DEF Accepts, LibraryTypeOK
  <2>3. incoming' \in Seq(Answers)
    BY <2>1, <1>1 DEF Accepts, LibraryTypeOK
  <2> QED BY <2>2, <2>3, <1>1 DEF Accepts
<1>2. CASE p.type = "CONNECT" /\ Refuses
  <2>1. [type |-> "CONNACK", accepted |-> FALSE] \in Answers
    BY DEF Answers
  <2>2. incoming' \in Seq(Answers)
    BY <2>1, <1>2 DEF Refuses, LibraryTypeOK
  <2> QED BY <2>2, <1>2 DEF Refuses, LibraryTypeOK
<1>3. CASE p.type = "SUBSCRIBE" /\ Subscribes(p) /\ UNCHANGED served
  <2>1. p.mid \in MsgIds /\ p.topic \in Topics
    BY <1>3 DEF Packets
  <2>2. \A g \in Grants : [type |-> "SUBACK", mid |-> p.mid, qos |-> g] \in Answers
    BY <2>1 DEF Answers
  <2>3. held' \in SUBSET Topics
    BY <2>1, <1>3 DEF Subscribes, LibraryTypeOK
  <2>4. PICK g \in Grants :
            incoming' = Append(incoming, [type |-> "SUBACK", mid |-> p.mid, qos |-> g])
    BY <1>3 DEF Subscribes, Grants
  <2>5. incoming' \in Seq(Answers)
    BY <2>2, <2>4 DEF LibraryTypeOK
  <2> QED BY <2>3, <2>5, <1>3 DEF LibraryTypeOK
<1>4. CASE p.type = "UNSUBSCRIBE" /\ Unsubscribes(p) /\ UNCHANGED served
  <2>1. p.mid \in MsgIds
    BY <1>4 DEF Packets
  <2>2. [type |-> "UNSUBACK", mid |-> p.mid] \in Answers
    BY <2>1 DEF Answers
  <2>3. held' \in SUBSET Topics
    BY <1>4 DEF Unsubscribes, LibraryTypeOK
  <2>4. incoming' \in Seq(Answers)
    BY <2>2, <1>4 DEF Unsubscribes, LibraryTypeOK
  <2> QED BY <2>3, <2>4, <1>4 DEF LibraryTypeOK
<1>5. CASE UNCHANGED <<served, incoming, held>>
  BY <1>5 DEF LibraryTypeOK
<1> QED BY <1>1, <1>2, <1>3, <1>4, <1>5 DEF BrokerGets

LEMMA ConnectAsyncType == LibraryTypeOK /\ ConnectAsync => LibraryTypeOK'
<1> SUFFICES ASSUME LibraryTypeOK, ConnectAsync PROVE LibraryTypeOK'
  OBVIOUS
<1>1. [type |-> "CONNECT"] \in Packets
  BY DEF Packets
<1>2. opened + 1 \in Connections
  BY MosquittoAssumption DEF LibraryTypeOK, ConnectAsync, Connections
<1>3. opened' \in 0 .. MaxConnects
  BY MosquittoAssumption DEF LibraryTypeOK, ConnectAsync
<1>4. outgoing' \in Seq(Packets) /\ incoming' \in Seq(Answers)
  BY <1>1 DEF ConnectAsync
<1>5. served' \in BOOLEAN
  BY DEF ConnectAsync
<1> QED BY <1>2, <1>3, <1>4, <1>5 DEF LibraryTypeOK, ConnectAsync

(***************************************************************************)
(* Stacks.                                                                 *)
(***************************************************************************)
LEMMA PushType ==
    ASSUME stack \in Seq(Frames), NEW f \in Frames, Push(f)
    PROVE  /\ stack' \in Seq(Frames)
           /\ \A g : OnStack(g)' <=> OnStack(g) \/ g = f
BY DEF Push, OnStack

LEMMA PopType ==
    ASSUME stack \in Seq(Frames), stack # <<>>, Pop
    PROVE  /\ stack' \in Seq(Frames)
           /\ Len(stack') = Len(stack) - 1
           /\ \A i \in 1 .. Len(stack') : stack'[i] = stack[i]
<1> DEFINE n == Len(stack) - 1
<1>1. n \in Nat
  OBVIOUS
<1>2. \A i \in 1 .. n : stack[i] \in Frames
  OBVIOUS
<1>3. /\ SubSeq(stack, 1, n) \in Seq(Frames)
      /\ Len(SubSeq(stack, 1, n)) = IF 1 <= n THEN n - 1 + 1 ELSE 0
      /\ \A i \in 1 .. n - 1 + 1 : SubSeq(stack, 1, n)[i] = stack[1 + i - 1]
  <2> HIDE DEF n
  <2>1. 1 \in Int /\ n \in Int
    BY <1>1
  <2>2. ASSUME NEW S, NEW s, NEW m \in Int, NEW k \in Int, \A i \in m .. k : s[i] \in S
        PROVE  /\ SubSeq(s, m, k) \in Seq(S)
               /\ Len(SubSeq(s, m, k)) = IF m <= k THEN k - m + 1 ELSE 0
               /\ \A i \in 1 .. k - m + 1 : SubSeq(s, m, k)[i] = s[m + i - 1]
    BY <2>2, SubSeqProperties
  <2> QED BY <1>2, <2>1, <2>2
<1>4. /\ Len(SubSeq(stack, 1, n)) = n
      /\ \A i \in 1 .. n : SubSeq(stack, 1, n)[i] = stack[i]
  <2> DEFINE t == SubSeq(stack, 1, n)
  <2> HIDE DEF n, t
  <2>1. Len(t) = IF 1 <= n THEN n - 1 + 1 ELSE 0
    BY <1>3 DEF t
  <2>2. \A i \in 1 .. n - 1 + 1 : t[i] = stack[1 + i - 1]
    BY <1>3 DEF t
  <2>3. n - 1 + 1 = n /\ \A i \in 1 .. n : 1 + i - 1 = i
    BY <1>1
  <2>4. Len(t) = n /\ \A i \in 1 .. n : t[i] = stack[i]
    BY <1>1, <2>1, <2>2, <2>3
  <2> QED BY <2>4 DEF t
<1> QED BY <1>3, <1>4 DEF Pop

LEMMA PopOne ==
    ASSUME stack \in Seq(Frames), NEW f, InnermostIs(f), Pop
    PROVE  \A g : g # f => (OnStack(g)' <=> OnStack(g))
<1>1. Len(stack) \in Nat \ {0} /\ DOMAIN stack = 1 .. Len(stack)
  BY DEF InnermostIs
<1>2. DOMAIN stack' = 1 .. (Len(stack) - 1)
  BY <1>1, PopType DEF InnermostIs
<1> QED BY <1>1, <1>2, PopType DEF InnermostIs, OnStack

(***************************************************************************)
(* Type correctness.                                                       *)
(***************************************************************************)
LEMMA InitType == Init => TypeOK
<1> SUFFICES ASSUME Init PROVE TypeOK
  OBVIOUS
<1>1. LibraryTypeOK
  <2>1. served \in BOOLEAN
    BY DEF Init, LibraryInit
  <2>2. opened \in 0 .. MaxConnects /\ lastMid \in 0 .. MaxMsgId
    BY MosquittoAssumption DEF Init, LibraryInit
  <2>3. outgoing \in Seq(Packets) /\ incoming \in Seq(Answers)
    BY DEF Init, LibraryInit
  <2> QED BY <2>1, <2>2, <2>3 DEF Init, LibraryInit, LibraryTypeOK
<1>2. TypeOK
  <2>1. polling \in BOOLEAN
    BY DEF Init
  <2>2. pending \in [MsgIds -> Topics \cup {None}] /\ \A i \in MsgIds : pending[i] = None
    BY DEF Init
  <2>3. registry \in [Topics -> Grants \cup {None}] /\ stack \in Seq(Frames)
    BY DEF Init
  <2> QED BY <1>1, <2>1, <2>2, <2>3
          DEF Init, TypeOK, ConnectionStates, SubscriptionStates
<1> QED BY <1>2

LEMMA DisconnectedType ==
    ASSUME TypeOK, Disconnected, stack' \in Seq(Frames)
    PROVE  TypeOK'
<1>1. LibraryTypeOK'
  BY ClosedType DEF Disconnected, TypeOK
<1>2. lastMid' = lastMid
  BY DEF Disconnected, Closed
<1>3. polling' \in BOOLEAN
  BY DEF Disconnected, TypeOK
<1>4. connectionState' \in ConnectionStates /\ hook' \in Connections \cup {None}
  BY DEF Disconnected, OnDisconnected, ConnectionStates
<1>5. UNCHANGED <<subscriptionState, registry, pending>>
  BY DEF Disconnected, subscriptionVars
<1>6. /\ subscriptionState' \in SubscriptionStates
      /\ registry' \in [Topics -> Grants \cup {None}]
      /\ pending' \in [MsgIds -> Topics \cup {None}]
      /\ \A i \in MsgIds : pending'[i] # None => i <= lastMid'
  BY <1>2, <1>5 DEF TypeOK
<1> QED BY <1>1, <1>3, <1>4, <1>6 DEF TypeOK

LEMMA SendType ==
    ASSUME LibraryTypeOK, NEW p, NEW c, Send(p, c),
           p \in Packets
    PROVE  /\ outgoing' \in Seq(Packets)
           /\ served' \in BOOLEAN
           /\ incoming' \in Seq(Answers)
           /\ held' \in SUBSET Topics
<1>1. CASE outgoing' = Append(outgoing, p) /\ UNCHANGED <<served, incoming, held>>
  <2>1. outgoing' \in Seq(Packets)
    BY <1>1 DEF LibraryTypeOK
  <2> QED BY <2>1, <1>1 DEF LibraryTypeOK
<1>2. CASE BrokerGets(p) /\ UNCHANGED outgoing
  BY <1>2, AnswerTypes DEF LibraryTypeOK
<1> QED BY <1>1, <1>2 DEF Send

LEMMA RequestType ==
    ASSUME TypeOK, NEW type \in {"SUBSCRIBE", "UNSUBSCRIBE"}, NEW t \in Topics,
           NEW state \in SubscriptionStates, Request(type, t, state)
    PROVE  TypeOK'
<1> DEFINE p == [type |-> type, mid |-> lastMid', topic |-> t]
<1>1. lastMid' \in MsgIds /\ lastMid' = lastMid + 1 /\ lastMid \in Nat
  BY MosquittoAssumption DEF Request, TypeOK, LibraryTypeOK, MsgIds
<1>2. p \in Packets
  BY <1>1 DEF Packets
<1>3. /\ outgoing' \in Seq(Packets)
      /\ served' \in BOOLEAN
      /\ incoming' \in Seq(Answers)
      /\ held' \in SUBSET Topics
  BY <1>2, SendType DEF Request, TypeOK
<1>4. lastMid' \in 0 .. MaxMsgId
  BY <1>1 DEF MsgIds
<1>5. LibraryTypeOK'
  BY <1>3, <1>4 DEF Request, TypeOK, LibraryTypeOK
<1>6. /\ pending' \in [MsgIds -> Topics \cup {None}]
      /\ \A i \in MsgIds : pending'[i] # None => i <= lastMid'
  BY <1>1 DEF Request, RegisterPending, TypeOK, MsgIds
<1>7. UNCHANGED <<connectionState, registry, hook, polling, stack>>
  BY DEF Request
<1>8. subscriptionState' \in SubscriptionStates
  BY DEF Request
<1>9. /\ connectionState' \in ConnectionStates
      /\ hook' \in Connections \cup {None}
      /\ registry' \in [Topics -> Grants \cup {None}]
      /\ stack' \in Seq(Frames)
  BY <1>7 DEF TypeOK
<1>10. polling' \in BOOLEAN
  BY <1>7 DEF TypeOK
<1> QED BY <1>5, <1>6, <1>8, <1>9, <1>10 DEF TypeOK

LEMMA AcknowledgeType ==
    ASSUME TypeOK, NEW mid \in MsgIds, NEW qos \in Grants \cup {None},
           Acknowledge(mid, qos)
    PROVE  /\ registry' \in [Topics -> Grants \cup {None}]
           /\ pending' \in [MsgIds -> Topics \cup {None}]
           /\ \A i \in MsgIds : pending'[i] # None => pending[i] # None
<1>1. /\ pending' \in [MsgIds -> Topics \cup {None}]
      /\ \A i \in MsgIds : pending'[i] # None => pending[i] # None
  BY DEF Acknowledge, TypeOK
<1>2. registry' \in [Topics -> Grants \cup {None}]
  <2>1. CASE pending[mid] = None
    BY <2>1 DEF Acknowledge, TypeOK
  <2>2. CASE pending[mid] # None
    BY <2>2 DEF Acknowledge, TypeOK
  <2> QED BY <2>1, <2>2
<1> QED BY <1>1, <1>2

LEMMA ReadType ==
    ASSUME TypeOK, ReadOp
    PROVE  TypeOK'
<1> DEFINE a == incoming[1]
<1>1. a \in Answers /\ incoming' \in Seq(Answers)
  BY DEF ReadOp, TypeOK, LibraryTypeOK
<1>2. LibraryTypeOK' /\ lastMid' = lastMid
  BY <1>1 DEF ReadOp, TypeOK, LibraryTypeOK
<1>3. OnAnswer(a)
  BY DEF ReadOp
<1> HIDE DEF a
<1>4. CASE OnConnected(a.accepted)
  <2>1. connectionState' \in ConnectionStates
    BY <1>4 DEF OnConnected, ConnectionStates
  <2>2. polling' \in BOOLEAN
    BY <1>4 DEF OnConnected
  <2>3. stack' \in Seq(Frames)
    BY <1>4, PushType DEF OnConnected, TypeOK, Frames
  <2>4. UNCHANGED <<subscriptionState, registry, pending, hook>>
    BY <1>4 DEF OnConnected, subscriptionVars
  <2>5. /\ subscriptionState' \in SubscriptionStates
        /\ hook' \in Connections \cup {None}
        /\ registry' \in [Topics -> Grants \cup {None}]
        /\ pending' \in [MsgIds -> Topics \cup {None}]
        /\ \A i \in MsgIds : pending'[i] # None => i <= lastMid'
    BY <1>2, <2>4 DEF TypeOK
  <2> QED BY <1>2, <2>1, <2>2, <2>3, <2>5 DEF TypeOK
<1>5. ASSUME NEW mid \in MsgIds, NEW qos \in Grants \cup {None},
             Acknowledge(mid, qos), SetSubscriptionState
      PROVE  TypeOK'
  <2>1. /\ registry' \in [Topics -> Grants \cup {None}]
        /\ pending' \in [MsgIds -> Topics \cup {None}]
        /\ \A i \in MsgIds : pending'[i] # None => pending[i] # None
    BY <1>5, AcknowledgeType
  <2>2. subscriptionState' \in SubscriptionStates
    BY <1>5 DEF SetSubscriptionState, SubscriptionStates
  <2>3. UNCHANGED <<connectionState, hook, polling, stack>>
    BY <1>5 DEF Acknowledge
  <2>4. /\ connectionState' \in ConnectionStates
        /\ hook' \in Connections \cup {None}
        /\ stack' \in Seq(Frames)
    BY <2>3 DEF TypeOK
  <2>5. polling' \in BOOLEAN
    BY <2>3 DEF TypeOK
  <2>6. \A i \in MsgIds : pending'[i] # None => i <= lastMid'
    BY <1>2, <2>1 DEF TypeOK
  <2> QED BY <1>2, <2>1, <2>2, <2>4, <2>5, <2>6 DEF TypeOK
<1>6. CASE a.type = "SUBACK" /\ OnSubscribed(a.mid, a.qos)
  <2>1. a.mid \in MsgIds /\ a.qos \in Grants
    BY <1>1, <1>6 DEF Answers
  <2> QED BY <2>1, <1>5, <1>6 DEF OnSubscribed
<1>7. CASE a.type = "UNSUBACK" /\ OnUnsubscribed(a.mid)
  <2>1. a.mid \in MsgIds
    BY <1>1, <1>7 DEF Answers
  <2> QED BY <2>1, <1>5, <1>7 DEF OnUnsubscribed
<1> QED BY <1>3, <1>4, <1>6, <1>7 DEF OnAnswer

LEMMA WriteType ==
    ASSUME TypeOK, WriteOp
    PROVE  TypeOK'
<1>1. CASE Disconnected
  <2>1. stack' \in Seq(Frames)
    BY DEF WriteOp, TypeOK
  <2> QED BY <1>1, <2>1, DisconnectedType
<1>2. CASE /\ outgoing' = Tail(outgoing)
           /\ BrokerGets(outgoing[1])
           /\ UNCHANGED <<socket, opened, lastMid>>
           /\ UNCHANGED <<connectionState, subscriptionVars, hook, polling>>
  <2>1. outgoing[1] \in Packets /\ outgoing' \in Seq(Packets)
    BY <1>2 DEF WriteOp, TypeOK, LibraryTypeOK
  <2>2. /\ served' \in BOOLEAN
        /\ incoming' \in Seq(Answers)
        /\ held' \in SUBSET Topics
    BY <1>2, <2>1, AnswerTypes DEF TypeOK
  <2>3. LibraryTypeOK' /\ lastMid' = lastMid
    BY <1>2, <2>1, <2>2 DEF TypeOK, LibraryTypeOK
  <2>4. UNCHANGED clientVars
    BY <1>2 DEF WriteOp, clientVars, subscriptionVars
  <2> QED BY <2>3, <2>4 DEF TypeOK, clientVars
<1> QED BY <1>1, <1>2 DEF WriteOp

\* The variables whose type no call but ConnectGoesOn and Request disturbs.
LEMMA KeepsType ==
    ASSUME TypeOK, LibraryTypeOK', lastMid' = lastMid,
           UNCHANGED subscriptionVars,
           connectionState' \in ConnectionStates,
           hook' \in Connections \cup {None},
           polling' \in BOOLEAN,
           stack' \in Seq(Frames)
    PROVE  TypeOK'
<1>1. /\ subscriptionState' \in SubscriptionStates
      /\ registry' \in [Topics -> Grants \cup {None}]
      /\ pending' \in [MsgIds -> Topics \cup {None}]
      /\ \A i \in MsgIds : pending'[i] # None => i <= lastMid'
  BY DEF TypeOK, subscriptionVars
<1> QED BY <1>1 DEF TypeOK

LEMMA SameLibrary == LibraryTypeOK /\ UNCHANGED libraryVars => LibraryTypeOK' /\ lastMid' = lastMid
BY DEF LibraryTypeOK, libraryVars

LEMMA PopsType ==
    ASSUME TypeOK, NEW f, InnermostIs(f), Pop
    PROVE  stack' \in Seq(Frames)
BY PopType DEF TypeOK, InnermostIs

LEMMA TypeStep == TypeOK /\ [Next]_vars => TypeOK'
<1> SUFFICES ASSUME TypeOK, [Next]_vars PROVE TypeOK'
  OBVIOUS
<1>1. CASE Connect
  <2>1. stack' \in Seq(Frames)
    BY <1>1, PushType DEF Connect, TypeOK, Frames
  <2>2. connectionState' \in ConnectionStates
    BY <1>1 DEF Connect, ConnectionStates
  <2>3. UNCHANGED <<libraryVars, subscriptionVars, hook, polling>>
    BY <1>1 DEF Connect
  <2>4. polling' \in BOOLEAN
    BY <2>3 DEF TypeOK
  <2>5. hook' \in Connections \cup {None}
    BY <2>3 DEF TypeOK
  <2> QED BY <2>1, <2>2, <2>3, <2>4, <2>5, SameLibrary, KeepsType DEF TypeOK
<1>2. CASE Disconnect
  <2>1. stack' \in Seq(Frames)
    BY <1>2, PushType DEF Disconnect, TypeOK, Frames
  <2>2. connectionState' \in ConnectionStates
    BY <1>2 DEF Disconnect, TypeOK, ConnectionStates
  <2>3. UNCHANGED <<libraryVars, subscriptionVars, hook>>
    BY <1>2 DEF Disconnect
  <2>4. polling' \in BOOLEAN
    BY <1>2 DEF Disconnect
  <2>5. hook' \in Connections \cup {None}
    BY <2>3 DEF TypeOK
  <2> QED BY <2>1, <2>2, <2>3, <2>4, <2>5, SameLibrary, KeepsType DEF TypeOK
<1>3. CASE \E t \in Topics : Subscribe(t) \/ Unsubscribe(t)
  BY <1>3, RequestType DEF Subscribe, Unsubscribe, SubscriptionStates
<1>4. CASE ConnectGoesOn
  <2>1. stack' \in Seq(Frames)
    BY <1>4, PopsType DEF ConnectGoesOn
  <2>2. UNCHANGED <<connectionState, subscriptionVars>>
    BY <1>4 DEF ConnectGoesOn
  <2>3. connectionState' \in ConnectionStates
    BY <2>2 DEF TypeOK
  <2>4. CASE ConnectAsync /\ polling' = TRUE /\ Engage(socket')
    <3>1. LibraryTypeOK' /\ lastMid' = lastMid
      BY <2>4, ConnectAsyncType DEF ConnectAsync, TypeOK
    <3>2. hook' \in Connections \cup {None}
      BY <2>4, <3>1 DEF Engage, TypeOK, LibraryTypeOK
    <3>3. polling' \in BOOLEAN
      BY <2>4
    <3> QED BY <2>1, <2>2, <2>3, <3>1, <3>2, <3>3, KeepsType
  <2>5. CASE ConnectAsyncFails /\ UNCHANGED <<polling, hook>>
    <3>1. LibraryTypeOK' /\ lastMid' = lastMid
      BY <2>5, ClosedType DEF ConnectAsyncFails, Closed, TypeOK
    <3>2. hook' \in Connections \cup {None}
      BY <2>5 DEF TypeOK
    <3>3. polling' \in BOOLEAN
      BY <2>5 DEF TypeOK
    <3> QED BY <2>1, <2>2, <2>3, <3>1, <3>2, <3>3, KeepsType
  <2> QED BY <1>4, <2>4, <2>5 DEF ConnectGoesOn
<1>5. CASE DisconnectGoesOn
  <2>1. stack' \in Seq(Frames)
    BY <1>5, PopsType DEF DisconnectGoesOn
  <2>2. CASE UNCHANGED <<libraryVars, connectionState, subscriptionVars, hook, polling>>
    <3>1. connectionState' \in ConnectionStates /\ hook' \in Connections \cup {None}
      BY <2>2 DEF TypeOK
    <3>2. polling' \in BOOLEAN
      BY <2>2 DEF TypeOK
    <3> QED BY <2>1, <2>2, <3>1, <3>2, SameLibrary, KeepsType DEF TypeOK
  <2>3. CASE /\ outgoing' = Append(outgoing, [type |-> "DISCONNECT"])
             /\ UNCHANGED <<socket, opened, served, lastMid, incoming, held>>
             /\ UNCHANGED <<connectionState, subscriptionVars, hook, polling>>
    <3>1. [type |-> "DISCONNECT"] \in Packets
      BY DEF Packets
    <3>2. outgoing' \in Seq(Packets)
      BY <2>3, <3>1 DEF TypeOK, LibraryTypeOK
    <3>3. LibraryTypeOK' /\ lastMid' = lastMid
      BY <2>3, <3>2 DEF TypeOK, LibraryTypeOK
    <3>4. connectionState' \in ConnectionStates /\ hook' \in Connections \cup {None}
      BY <2>3 DEF TypeOK
    <3>5. polling' \in BOOLEAN
      BY <2>3 DEF TypeOK
    <3> QED BY <2>1, <2>3, <3>3, <3>4, <3>5, KeepsType
  <2>4. CASE Disconnected
    BY <2>1, <2>4, DisconnectedType
  <2> QED BY <1>5, <2>2, <2>3, <2>4 DEF DisconnectGoesOn
<1>6. CASE RefusedGoesOn
  <2>1. stack' \in Seq(Frames)
    BY <1>6, PopsType DEF RefusedGoesOn
  <2> QED BY <1>6, <2>1, DisconnectedType DEF RefusedGoesOn
<1>7. CASE ReadOp
  BY <1>7, ReadType
<1>8. CASE WriteOp
  BY <1>8, WriteType
<1>9. CASE MiscTask \/ ConnectionBreaks
  <2>1. stack' \in Seq(Frames)
    BY <1>9 DEF MiscTask, ConnectionBreaks, TypeOK
  <2> QED BY <1>9, <2>1, DisconnectedType DEF MiscTask, ConnectionBreaks
<1>10. CASE UNCHANGED vars
  <2>1. stack' \in Seq(Frames) /\ connectionState' \in ConnectionStates
        /\ hook' \in Connections \cup {None}
    BY <1>10 DEF vars, clientVars, TypeOK
  <2>2. polling' \in BOOLEAN
    BY <1>10 DEF vars, clientVars, TypeOK
  <2>3. UNCHANGED <<libraryVars, subscriptionVars>>
    BY <1>10 DEF vars, clientVars, subscriptionVars
  <2> QED BY <2>1, <2>2, <2>3, SameLibrary, KeepsType DEF TypeOK
<1> QED BY <1>1, <1>2, <1>3, <1>4, <1>5, <1>6, <1>7, <1>8, <1>9, <1>10 DEF Next

(***************************************************************************)
(* The client's and the library's variables keep their types; only ids the *)
(* library has given out are pending.                                      *)
(***************************************************************************)
THEOREM ClientTypeCorrect == Spec => []TypeOK
BY InitType, TypeStep, PTL DEF Spec

(***************************************************************************)
(* The subscription state.  SubscriptionStateTells is inductive.           *)
(***************************************************************************)
LEMMA TellsStep ==
    TypeOK /\ SubscriptionStateTells /\ [Next]_vars => SubscriptionStateTells'
<1> SUFFICES ASSUME TypeOK, SubscriptionStateTells, [Next]_vars
             PROVE  SubscriptionStateTells'
  OBVIOUS
<1>1. CASE UNCHANGED subscriptionVars
  BY <1>1 DEF SubscriptionStateTells, SubscribedTopics, subscriptionVars
<1>2. ASSUME NEW type, NEW t \in Topics, NEW state \in {"SUBSCRIBING", "UNSUBSCRIBING"},
             Request(type, t, state)
      PROVE  SubscriptionStateTells'
  <2>1. lastMid' \in MsgIds
    BY <1>2, MosquittoAssumption DEF Request, TypeOK, LibraryTypeOK, MsgIds
  <2>2. pending'[lastMid'] # None
    BY <1>2, <2>1, MosquittoAssumption DEF Request, RegisterPending, TypeOK
  <2>3. subscriptionState' \in {"SUBSCRIBING", "UNSUBSCRIBING"}
    BY <1>2 DEF Request
  <2> QED BY <2>1, <2>2, <2>3 DEF SubscriptionStateTells
<1>3. CASE SetSubscriptionState
  BY <1>3 DEF SetSubscriptionState, SubscriptionStateTells, SubscribedTopics
<1>4. CASE ReadOp
  <2>1. CASE \E accepted : OnConnected(accepted)
    BY <1>1, <2>1 DEF OnConnected
  <2>2. CASE SetSubscriptionState
    BY <1>3, <2>2
  <2> QED BY <1>4, <2>1, <2>2 DEF ReadOp, OnAnswer, OnSubscribed, OnUnsubscribed
<1>5. CASE \E t \in Topics : Subscribe(t) \/ Unsubscribe(t)
  BY <1>2, <1>5 DEF Subscribe, Unsubscribe
<1>6. CASE \/ Connect \/ Disconnect \/ ConnectGoesOn \/ DisconnectGoesOn
           \/ RefusedGoesOn \/ WriteOp \/ MiscTask \/ ConnectionBreaks
  <2>1. UNCHANGED subscriptionVars
    BY <1>6 DEF Connect, Disconnect, ConnectGoesOn, DisconnectGoesOn, RefusedGoesOn,
                WriteOp, MiscTask, ConnectionBreaks, Disconnected, subscriptionVars
  <2> QED BY <1>1, <2>1
<1>7. CASE UNCHANGED vars
  BY <1>1, <1>7 DEF vars, clientVars, subscriptionVars
<1> QED BY <1>4, <1>5, <1>6, <1>7 DEF Next

(***************************************************************************)
(* However requests, answers, disconnections and slots interleave, the     *)
(* subscription state tells the truth about topics and open requests.      *)
(***************************************************************************)
THEOREM SubscriptionStateIsRight == Spec => []SubscriptionStateTells
<1>1. Init => SubscriptionStateTells
  BY DEF Init, SubscriptionStateTells, SubscribedTopics
<1>2. TypeOK /\ SubscriptionStateTells /\ [Next]_vars => SubscriptionStateTells'
  BY TellsStep
<1> QED BY <1>1, <1>2, ClientTypeCorrect, PTL DEF Spec

(***************************************************************************)
(* Polling while connecting.  In the slots of CONNECTING the library may   *)
(* still hold an old connection and the timer is not running yet, so the   *)
(* invariant has to look at the stack.                                     *)
(***************************************************************************)
Polled ==
    connectionState = "CONNECTING" /\ socket # None /\ ~OnStack("connect") => polling

LEMMA PolledStep == TypeOK /\ Polled /\ [Next]_vars => Polled'
<1> SUFFICES ASSUME TypeOK, Polled, [Next]_vars,
                    connectionState' = "CONNECTING", socket' # None, ~OnStack("connect")'
             PROVE  polling'
  BY DEF Polled
<1>1. CASE Connect
  BY <1>1, PushType DEF Connect, TypeOK, Frames
<1>2. CASE Disconnect
  BY <1>2 DEF Disconnect
<1>3. CASE \E t \in Topics : Subscribe(t) \/ Unsubscribe(t)
  <2>1. UNCHANGED <<connectionState, polling, stack, socket>>
    BY <1>3 DEF Subscribe, Unsubscribe, Request
  <2> QED BY <2>1 DEF Polled, OnStack
<1>4. CASE ConnectGoesOn
  BY <1>4 DEF ConnectGoesOn, ConnectAsyncFails, Closed
<1>5. CASE DisconnectGoesOn
  <2>1. ~OnStack("connect")
    BY <1>5, PopOne DEF DisconnectGoesOn, TypeOK
  <2>2. ~Disconnected
    BY DEF Disconnected, OnDisconnected
  <2> QED BY <1>5, <2>1, <2>2 DEF DisconnectGoesOn, Polled, libraryVars
<1>6. CASE RefusedGoesOn
  <2>1. ~OnStack("connect")
    BY <1>6, PopOne DEF RefusedGoesOn, TypeOK
  <2>2. ~Disconnected
    BY DEF Disconnected, OnDisconnected
  <2> QED BY <1>6, <2>1, <2>2 DEF RefusedGoesOn, Polled, libraryVars
<1>7. CASE ReadOp
  <2>1. ~\E accepted : OnConnected(accepted)
    BY DEF OnConnected
  <2>2. UNCHANGED <<connectionState, polling, stack, socket>>
    BY <1>7, <2>1 DEF ReadOp, OnAnswer, OnSubscribed, OnUnsubscribed, Acknowledge
  <2> QED BY <2>2 DEF Polled, OnStack
<1>8. CASE WriteOp \/ MiscTask \/ ConnectionBreaks
  <2>1. ~Disconnected
    BY DEF Disconnected, OnDisconnected
  <2>2. UNCHANGED <<connectionState, polling, stack, socket>>
    BY <1>8, <2>1 DEF WriteOp, MiscTask, ConnectionBreaks
  <2> QED BY <2>2 DEF Polled, OnStack
<1>9. CASE UNCHANGED vars
  BY <1>9 DEF vars, libraryVars, clientVars, Polled, OnStack
<1> QED BY <1>1, <1>2, <1>3, <1>4, <1>5, <1>6, <1>7, <1>8, <1>9 DEF Next

(***************************************************************************)
(* A client that is connecting and has a socket is polled, whatever states *)
(* the program connects in and whatever its slots do, so that a handshake  *)
(* goes on.                                                                *)
(***************************************************************************)
THEOREM HandshakesArePolled == Spec => []PolledWhileConnecting
<1>1. Init => Polled
  BY DEF Init, Polled
<1>2. TypeOK /\ Polled /\ [Next]_vars => Polled'
  BY PolledStep
<1>3. Polled => PolledWhileConnecting
  BY DEF Polled, PolledWhileConnecting, OnStack
<1> QED BY <1>1, <1>2, <1>3, ClientTypeCorrect, PTL DEF Spec

(***************************************************************************)
(* The hook.  A connection opened over one that is still open separates it *)
(* from the socket.  The invariant says that a program that connects only  *)
(* in DISCONNECTED has no open connection then, except in the slots of a   *)
(* refusal, which the library ends by closing whatever is open.            *)
(***************************************************************************)
OneConnect ==
    \A i, j \in DOMAIN stack : stack[i] = "connect" /\ stack[j] = "connect" => i = j

RefusedFirst == \A i \in DOMAIN stack : stack[i] = "refused" => i = 1

HookInv ==
    /\ RefusedFirst
    /\ ~OnStack("refused") =>
          /\ hook = socket
          /\ OnStack("connect") \/ connectionState = "DISCONNECTED" => socket = None
          /\ OnStack("connect") => connectionState \in {"CONNECTING", "DISCONNECTING"}
          /\ OneConnect

LEMMA HookSame ==
    ASSUME HookInv, UNCHANGED <<hook, socket, connectionState, stack>>
    PROVE  HookInv'
BY DEF HookInv, RefusedFirst, OneConnect, OnStack

LEMMA HookGone ==
    ASSUME RefusedFirst', hook' = None, socket' = None, ~OnStack("connect")'
    PROVE  HookInv'
<1>1. OneConnect'
  BY DEF OnStack, OneConnect
<1> QED BY <1>1 DEF HookInv

LEMMA PushFrames ==
    ASSUME stack \in Seq(Frames), NEW pushed \in Frames, Push(pushed)
    PROVE  /\ \A frame \in Frames : OnStack(frame)' <=> OnStack(frame) \/ frame = pushed
           /\ RefusedFirst /\ (pushed = "refused" => stack = <<>>) => RefusedFirst'
           /\ OneConnect /\ (pushed = "connect" => ~OnStack("connect")) => OneConnect'
<1>1. /\ Len(stack) \in Nat
      /\ DOMAIN stack = 1 .. Len(stack)
      /\ DOMAIN stack' = 1 .. (Len(stack) + 1)
      /\ \A i \in DOMAIN stack : stack'[i] = stack[i]
      /\ stack'[Len(stack) + 1] = pushed
  BY DEF Push
<1>2. stack = <<>> => Len(stack) = 0
  OBVIOUS
<1> QED BY <1>1, <1>2 DEF RefusedFirst, OneConnect, OnStack

LEMMA PopFrames ==
    ASSUME stack \in Seq(Frames), stack # <<>>, Pop
    PROVE  /\ \A frame \in Frames :
                 /\ OnStack(frame)' => OnStack(frame)
                 /\ OnStack(frame) => OnStack(frame)' \/ InnermostIs(frame)
                 /\ InnermostIs(frame) => OnStack(frame)
           /\ RefusedFirst => RefusedFirst'
           /\ OneConnect => OneConnect'
           /\ OneConnect /\ InnermostIs("connect") => ~OnStack("connect")'
           /\ RefusedFirst /\ InnermostIs("refused") => stack' = <<>>
<1>1. /\ Len(stack) \in Nat \ {0}
      /\ DOMAIN stack = 1 .. Len(stack)
      /\ DOMAIN stack' = 1 .. (Len(stack) - 1)
      /\ \A i \in DOMAIN stack' : stack'[i] = stack[i]
  BY DEF Pop
<1>2. RefusedFirst /\ InnermostIs("refused") => stack' = <<>>
  BY <1>1 DEF RefusedFirst, InnermostIs, Pop
<1> QED BY <1>1, <1>2 DEF RefusedFirst, OneConnect, OnStack, InnermostIs

LEMMA HookStep ==
    ASSUME ConnectIn \subseteq {"DISCONNECTED"}
    PROVE  TypeOK /\ HookInv /\ [Next]_vars => HookInv'
<1> SUFFICES ASSUME TypeOK, HookInv, [Next]_vars
             PROVE  HookInv'
  OBVIOUS
<1>1. stack = <<>> => RefusedFirst /\ OneConnect /\ \A frame : ~OnStack(frame)
  BY DEF RefusedFirst, OneConnect, OnStack
<1>2. ASSUME Disconnected, stack = <<>>, UNCHANGED stack
      PROVE  HookInv'
  <2>1. hook' = None /\ socket' = None
    BY <1>2 DEF Disconnected, OnDisconnected, Closed
  <2>2. RefusedFirst' /\ ~OnStack("connect")'
    BY <1>2 DEF RefusedFirst, OnStack
  <2> QED BY <2>1, <2>2, HookGone
<1>3. CASE UNCHANGED vars
  BY <1>3, HookSame DEF vars, libraryVars, clientVars
<1>4. CASE \E t \in Topics : Subscribe(t) \/ Unsubscribe(t)
  BY <1>4, HookSame DEF Subscribe, Unsubscribe, Request
<1>5. CASE WriteOp
  BY <1>2, <1>5, HookSame DEF WriteOp, LoopRuns
<1>6. CASE MiscTask \/ ConnectionBreaks
  BY <1>2, <1>6 DEF MiscTask, ConnectionBreaks, LoopRuns
<1>7. CASE Connect
  <2>1. connectionState = "DISCONNECTED" /\ connectionState' = "CONNECTING"
        /\ UNCHANGED <<hook, socket>> /\ Push("connect")
    BY <1>7 DEF Connect, libraryVars
  <2>2. ~OnStack("refused") => hook = socket /\ socket = None /\ ~OnStack("connect")
    BY <2>1 DEF HookInv
  <2> QED BY <2>1, <2>2, PushFrames DEF HookInv, TypeOK, Frames
<1>8. CASE Disconnect
  <2>1. CASE connectionState \in {"CONNECTING", "CONNECTED"}
    <3>1. connectionState' = "DISCONNECTING" /\ UNCHANGED <<hook, socket>>
          /\ Push("disconnect")
      BY <1>8, <2>1 DEF Disconnect, libraryVars
    <3> QED BY <2>1, <3>1, PushFrames DEF HookInv, TypeOK, Frames
  <2>2. CASE connectionState \notin {"CONNECTING", "CONNECTED"}
    BY <1>8, <2>2, HookSame DEF Disconnect, libraryVars
  <2> QED BY <2>1, <2>2
<1>9. CASE ConnectGoesOn
  <2>1. RefusedFirst' /\ (OnStack("refused") => OnStack("refused")')
    BY <1>9, PopFrames DEF ConnectGoesOn, InnermostIs, HookInv, TypeOK, Frames
  <2>2. CASE OnStack("refused")
    BY <2>1, <2>2 DEF HookInv
  <2>3. CASE ~OnStack("refused")
    <3>1. /\ hook = None /\ socket = None /\ UNCHANGED connectionState
          /\ connectionState \in {"CONNECTING", "DISCONNECTING"}
          /\ OneConnect' /\ ~OnStack("connect")'
      BY <1>9, <2>3, PopFrames DEF ConnectGoesOn, InnermostIs, HookInv, TypeOK, Frames
    <3>2. hook' = socket'
      BY <1>9, <3>1 DEF ConnectGoesOn, ConnectAsyncFails, Closed, Engage
    <3> QED BY <2>1, <3>1, <3>2 DEF HookInv
  <2> QED BY <2>2, <2>3
<1>10. CASE DisconnectGoesOn
  <2>1. /\ RefusedFirst'
        /\ OnStack("refused") => OnStack("refused")'
        /\ OnStack("connect")' => OnStack("connect")
        /\ OneConnect => OneConnect'
    BY <1>10, PopFrames DEF DisconnectGoesOn, InnermostIs, HookInv, TypeOK, Frames
  <2>2. CASE UNCHANGED <<hook, socket, connectionState>>
    BY <2>1, <2>2 DEF HookInv
  <2>3. CASE Disconnected /\ socket # None /\ ~OnStack("refused")
    <3>1. hook' = None /\ socket' = None
      BY <2>3 DEF Disconnected, OnDisconnected, Closed
    <3>2. ~OnStack("connect")'
      BY <2>1, <2>3 DEF HookInv
    <3> QED BY <2>1, <3>1, <3>2, HookGone
  <2> QED BY <1>10, <2>2, <2>3 DEF DisconnectGoesOn, libraryVars
<1>11. CASE RefusedGoesOn
  <2>1. stack' = <<>> /\ RefusedFirst'
    BY <1>11, PopFrames DEF RefusedGoesOn, InnermostIs, HookInv, TypeOK
  <2>2. hook' = None /\ socket' = None
    BY <1>11 DEF RefusedGoesOn, Disconnected, OnDisconnected, Closed
  <2> QED BY <2>1, <2>2, HookGone DEF OnStack
<1>12. CASE ReadOp
  <2>1. CASE \E accepted : OnConnected(accepted)
    <3>1. PICK accepted : OnConnected(accepted)
      BY <2>1
    <3>2. UNCHANGED <<hook, socket>> /\ stack = <<>>
      BY <1>12, <3>1 DEF ReadOp, LoopRuns, OnConnected
    <3>3. CASE accepted
      <4>1. connectionState' = "CONNECTED" /\ UNCHANGED stack
        BY <3>1, <3>3 DEF OnConnected
      <4> QED BY <1>1, <3>2, <4>1 DEF HookInv, RefusedFirst, OneConnect, OnStack
    <3>4. CASE ~accepted
      BY <1>1, <3>1, <3>2, <3>4, PushFrames DEF OnConnected, HookInv, TypeOK, Frames
    <3> QED BY <3>3, <3>4
  <2>2. CASE UNCHANGED <<hook, socket, connectionState, stack>>
    BY <2>2, HookSame
  <2> QED BY <1>12, <2>1, <2>2 DEF ReadOp, OnAnswer, OnSubscribed, OnUnsubscribed,
                                   Acknowledge
<1> QED BY <1>3, <1>4, <1>5, <1>6, <1>7, <1>8, <1>9, <1>10, <1>11, <1>12 DEF Next

(***************************************************************************)
(* If the program connects only in DISCONNECTED, the event loop watches    *)
(* the socket of the library whenever no call is under way: whatever slots *)
(* did, no connection is left without notifiers and no notifier is left on *)
(* a socket that was closed.                                               *)
(***************************************************************************)
THEOREM HookStaysOnSocket ==
    ConnectIn \subseteq {"DISCONNECTED"} => (Spec => []HookWatchesSocket)
<1> SUFFICES ASSUME ConnectIn \subseteq {"DISCONNECTED"}
             PROVE  Spec => []HookWatchesSocket
  OBVIOUS
<1>1. Init => HookInv
  BY DEF Init, LibraryInit, HookInv, RefusedFirst, OneConnect, OnStack
<1>2. TypeOK /\ HookInv /\ [Next]_vars => HookInv'
  BY HookStep
<1>3. HookInv => HookWatchesSocket
  BY DEF HookInv, HookWatchesSocket, OnStack
<1> QED BY <1>1, <1>2, <1>3, ClientTypeCorrect, PTL DEF Spec
-----------------------------------------------------------------------------
(***************************************************************************)
(* The registry of subscriptions tells what the broker holds, in a         *)
(* client's first session: the invariant relates it to the requests that   *)
(* were not written yet and to the answers that were not read yet.         *)
(***************************************************************************)

IsRequest(p) == p.type \in {"SUBSCRIBE", "UNSUBSCRIBE"}

IsAck(a) == a.type # "CONNACK"

\* The i-th answer is about topic t.
About(inc, pend, t, i) ==
    i \in DOMAIN inc /\ IsAck(inc[i]) /\ pend[inc[i].mid] = t

\* A topic nobody waits for is registered as the broker has it; of a topic with
\* answers on their way, the last one says what the broker has.
AgreeOn(inc, pend, reg, topics, t) ==
    /\ (\A i : ~About(inc, pend, t, i)) =>
          /\ reg[t] = "granted" => t \in topics
          /\ t \in topics => reg[t] # None
    /\ \A i : About(inc, pend, t, i) /\ (\A j : About(inc, pend, t, j) => j <= i) =>
          /\ inc[i].type = "SUBACK" /\ inc[i].qos = "granted" => t \in topics
          /\ inc[i].type = "UNSUBACK" => t \notin topics

Agree(inc, pend, reg, topics) == \A t \in Topics : AgreeOn(inc, pend, reg, topics, t)

\* Ids are given out once, and a request's is registered for its topic.
RequestIds(out, pend, last) ==
    /\ \A i \in DOMAIN out : IsRequest(out[i]) =>
          out[i].mid <= last /\ pend[out[i].mid] = out[i].topic
    /\ \A i, j \in DOMAIN out :
          IsRequest(out[i]) /\ IsRequest(out[j]) /\ out[i].mid = out[j].mid => i = j

AckIds(inc, last) ==
    /\ \A i \in DOMAIN inc : IsAck(inc[i]) => inc[i].mid <= last
    /\ \A i, j \in DOMAIN inc :
          IsAck(inc[i]) /\ IsAck(inc[j]) /\ inc[i].mid = inc[j].mid => i = j

Apart(out, inc) ==
    \A i \in DOMAIN out, j \in DOMAIN inc :
        IsRequest(out[i]) /\ IsAck(inc[j]) => out[i].mid # inc[j].mid

\* CONNECT is written first, before the broker holds anything.
ConnectFirst(out, topics) ==
    \A i \in DOMAIN out : out[i].type = "CONNECT" => i = 1 /\ topics = {}

Fresh ==
    opened = 0 => /\ socket = None
                  /\ \A t \in Topics : registry[t] = None
                  /\ held = {}

Established ==
    /\ stack # <<>> => connectionState # "CONNECTED"
    /\ connectionState = "CONNECTED" => socket # None

Session ==
    /\ ConnectFirst(outgoing, held)
    /\ RequestIds(outgoing, pending, lastMid)
    /\ AckIds(incoming, lastMid)
    /\ Apart(outgoing, incoming)
    /\ Agree(incoming, pending, registry, held)

RegistryInv == Fresh /\ Established /\ (opened = 1 /\ socket # None => Session)

LEMMA PacketFields ==
    /\ \A p \in Packets : IsRequest(p) => p.mid \in MsgIds /\ p.topic \in Topics
    /\ \A a \in Answers : IsAck(a) => a.mid \in MsgIds /\ a.type \in {"SUBACK", "UNSUBACK"}
BY DEF Packets, Answers, IsRequest, IsAck

LEMMA TailFacts ==
    ASSUME NEW S, NEW s \in Seq(S), s # <<>>
    PROVE  /\ Len(s) \in Nat \ {0} /\ DOMAIN s = 1 .. Len(s)
           /\ Tail(s) \in Seq(S)
           /\ DOMAIN Tail(s) = 1 .. (Len(s) - 1)
           /\ \A i \in 1 .. (Len(s) - 1) : Tail(s)[i] = s[i + 1]
           /\ s[1] \in S
OBVIOUS

LEMMA AppendFacts ==
    ASSUME NEW S, NEW s \in Seq(S), NEW e
    PROVE  /\ Len(s) \in Nat /\ DOMAIN s = 1 .. Len(s)
           /\ DOMAIN Append(s, e) = 1 .. (Len(s) + 1)
           /\ \A i \in DOMAIN s : Append(s, e)[i] = s[i]
           /\ Append(s, e)[Len(s) + 1] = e
OBVIOUS

(***************************************************************************)
(* Agreement, operation by operation.                                      *)
(***************************************************************************)
LEMMA AgreeSame ==
    ASSUME NEW inc, NEW inc2, NEW pend, NEW pend2, NEW reg, NEW topics,
           Agree(inc, pend, reg, topics),
           \A t \in Topics : \A i : About(inc2, pend2, t, i) <=> About(inc, pend, t, i),
           \A i \in DOMAIN inc : IsAck(inc[i]) => inc2[i] = inc[i]
    PROVE  Agree(inc2, pend2, reg, topics)
<1> SUFFICES ASSUME NEW t \in Topics PROVE AgreeOn(inc2, pend2, reg, topics, t)
  BY DEF Agree
<1>1. AgreeOn(inc, pend, reg, topics, t)
  BY DEF Agree
<1>2. \A i : About(inc2, pend2, t, i) <=> About(inc, pend, t, i)
  OBVIOUS
<1>3. \A i : About(inc, pend, t, i) => inc2[i] = inc[i]
  BY DEF About
<1> QED BY <1>1, <1>2, <1>3 DEF AgreeOn

LEMMA AgreeConnack ==
    ASSUME NEW inc \in Seq(Answers), NEW pend, NEW reg, NEW topics, NEW a,
           Agree(inc, pend, reg, topics), ~IsAck(a)
    PROVE  Agree(Append(inc, a), pend, reg, topics)
<1>1. \A t \in Topics : \A i : About(Append(inc, a), pend, t, i) <=> About(inc, pend, t, i)
  BY AppendFacts DEF About
<1>2. \A i \in DOMAIN inc : Append(inc, a)[i] = inc[i]
  BY AppendFacts
<1> QED BY <1>1, <1>2, AgreeSame

LEMMA AgreeAnswer ==
    ASSUME NEW inc \in Seq(Answers), NEW pend, NEW reg, NEW topics, NEW topics2, NEW a,
           Agree(inc, pend, reg, topics),
           IsAck(a),
           \A t \in Topics : t # pend[a.mid] => (t \in topics2 <=> t \in topics),
           a.type = "SUBACK" /\ a.qos = "granted" => pend[a.mid] \in topics2,
           a.type = "UNSUBACK" => pend[a.mid] \notin topics2
    PROVE  Agree(Append(inc, a), pend, reg, topics2)
<1> DEFINE more == Append(inc, a)
<1>1. /\ Len(inc) \in Nat /\ DOMAIN inc = 1 .. Len(inc)
      /\ DOMAIN more = 1 .. (Len(inc) + 1)
      /\ \A i \in DOMAIN inc : more[i] = inc[i]
      /\ more[Len(inc) + 1] = a
  BY AppendFacts
<1> HIDE DEF more
<1> SUFFICES ASSUME NEW t \in Topics PROVE AgreeOn(more, pend, reg, topics2, t)
  BY DEF Agree, more
<1>2. AgreeOn(inc, pend, reg, topics, t)
  BY DEF Agree
<1>3. CASE t # pend[a.mid]
  <2>1. \A i : About(more, pend, t, i) <=> About(inc, pend, t, i)
    BY <1>1, <1>3 DEF About
  <2>2. \A i : About(inc, pend, t, i) => more[i] = inc[i]
    BY <1>1 DEF About
  <2>3. t \in topics2 <=> t \in topics
    BY <1>3
  <2> QED BY <1>2, <2>1, <2>2, <2>3 DEF AgreeOn
<1>4. CASE t = pend[a.mid]
  <2>1. About(more, pend, t, Len(inc) + 1)
    BY <1>1, <1>4 DEF About
  <2>2. \A i : About(more, pend, t, i) /\ (\A j : About(more, pend, t, j) => j <= i)
                 => i = Len(inc) + 1
    BY <1>1, <2>1 DEF About
  <2> QED BY <1>1, <1>4, <2>1, <2>2 DEF AgreeOn
<1> QED BY <1>3, <1>4

LEMMA AgreeRead ==
    ASSUME NEW inc \in Seq(Answers), inc # <<>>,
           NEW pend, NEW pend2, NEW reg, NEW reg2, NEW topics,
           Agree(inc, pend, reg, topics),
           \A i \in DOMAIN inc : i # 1 /\ IsAck(inc[i]) => pend2[inc[i].mid] = pend[inc[i].mid],
           \A t \in Topics : ~About(inc, pend, t, 1) => reg2[t] = reg[t],
           \A t \in Topics : About(inc, pend, t, 1) =>
              reg2[t] = IF inc[1].type = "SUBACK" THEN inc[1].qos ELSE None
    PROVE  Agree(Tail(inc), pend2, reg2, topics)
<1> DEFINE rest == Tail(inc)
<1>1. /\ Len(inc) \in Nat \ {0} /\ DOMAIN inc = 1 .. Len(inc)
      /\ DOMAIN rest = 1 .. (Len(inc) - 1)
      /\ \A i \in 1 .. (Len(inc) - 1) : rest[i] = inc[i + 1]
      /\ inc[1] \in Answers
  BY TailFacts
<1> HIDE DEF rest
<1> SUFFICES ASSUME NEW t \in Topics PROVE AgreeOn(rest, pend2, reg2, topics, t)
  BY DEF Agree, rest
<1>2. AgreeOn(inc, pend, reg, topics, t)
  BY DEF Agree
<1>3. \A i : About(rest, pend2, t, i) =>
         i \in Nat /\ About(inc, pend, t, i + 1) /\ rest[i] = inc[i + 1]
  BY <1>1 DEF About
<1>4. \A i : About(inc, pend, t, i) => i = 1 \/ (i - 1 \in Nat /\ About(rest, pend2, t, i - 1))
  BY <1>1 DEF About
<1>5. \A i : About(inc, pend, t, i) => i \in Nat
  BY <1>1 DEF About
<1>6. ASSUME NEW i, About(rest, pend2, t, i), \A j : About(rest, pend2, t, j) => j <= i
      PROVE  /\ rest[i].type = "SUBACK" /\ rest[i].qos = "granted" => t \in topics
             /\ rest[i].type = "UNSUBACK" => t \notin topics
  <2>1. i \in Nat /\ About(inc, pend, t, i + 1) /\ rest[i] = inc[i + 1]
    BY <1>3, <1>6
  <2>2. ASSUME NEW j, About(inc, pend, t, j) PROVE j <= i + 1
    <3>1. j = 1 \/ (j - 1 \in Nat /\ j - 1 <= i)
      BY <1>4, <1>6, <2>2
    <3> QED BY <1>5, <2>1, <2>2, <3>1
  <2> QED BY <1>2, <2>1, <2>2 DEF AgreeOn
<1>7. ASSUME \A i : ~About(rest, pend2, t, i)
      PROVE  /\ reg2[t] = "granted" => t \in topics
             /\ t \in topics => reg2[t] # None
  <2>1. \A i : About(inc, pend, t, i) => i = 1
    BY <1>4, <1>7
  <2>2. CASE ~About(inc, pend, t, 1)
    BY <1>2, <2>1, <2>2 DEF AgreeOn
  <2>3. CASE About(inc, pend, t, 1)
    <3>1. /\ inc[1].type = "SUBACK" /\ inc[1].qos = "granted" => t \in topics
          /\ inc[1].type = "UNSUBACK" => t \notin topics
      BY <1>2, <2>1, <2>3 DEF AgreeOn
    <3>2. reg2[t] = IF inc[1].type = "SUBACK" THEN inc[1].qos ELSE None
      BY <2>3
    <3>3. \/ inc[1].type = "SUBACK" /\ inc[1].qos \in Grants
          \/ inc[1].type = "UNSUBACK"
      BY <1>1, <2>3 DEF About, IsAck, Answers
    <3>4. None \notin Grants /\ None # "granted"
      BY MosquittoAssumption DEF Grants
    <3> QED BY <3>1, <3>2, <3>3, <3>4 DEF Grants
  <2> QED BY <2>2, <2>3
<1> QED BY <1>6, <1>7 DEF AgreeOn
(***************************************************************************)
(* The packets queued and the answers waiting, operation by operation.     *)
(***************************************************************************)
LEMMA QueuePacket ==
    ASSUME NEW out \in Seq(Packets), NEW inc \in Seq(Answers), NEW pend, NEW last,
           NEW topics, NEW p,
           ConnectFirst(out, topics), RequestIds(out, pend, last), Apart(out, inc),
           ~IsRequest(p), p.type # "CONNECT"
    PROVE  /\ ConnectFirst(Append(out, p), topics)
           /\ RequestIds(Append(out, p), pend, last)
           /\ Apart(Append(out, p), inc)
BY AppendFacts DEF ConnectFirst, RequestIds, Apart

\* A new request, queued.
LEMMA QueueRequest ==
    ASSUME NEW out \in Seq(Packets), NEW inc \in Seq(Answers), NEW pend, NEW pend2,
           NEW last \in Nat, NEW topics, NEW p \in Packets,
           ConnectFirst(out, topics), RequestIds(out, pend, last), Apart(out, inc),
           AckIds(inc, last),
           IsRequest(p), p.mid = last + 1, pend2[p.mid] = p.topic,
           \A i \in MsgIds : i # p.mid => pend2[i] = pend[i]
    PROVE  /\ ConnectFirst(Append(out, p), topics)
           /\ RequestIds(Append(out, p), pend2, last + 1)
           /\ Apart(Append(out, p), inc)
<1> DEFINE more == Append(out, p)
           n == Len(out) + 1
<1>1. /\ Len(out) \in Nat /\ DOMAIN out = 1 .. Len(out)
      /\ DOMAIN more = 1 .. n
      /\ \A i \in DOMAIN out : more[i] = out[i]
      /\ more[n] = p
  BY AppendFacts
<1> HIDE DEF more
<1>2. \A i \in DOMAIN more : (i \in DOMAIN out /\ more[i] = out[i]) \/ (i = n /\ more[i] = p)
  BY <1>1
<1>3. \A i \in DOMAIN out : out[i] \in Packets
  OBVIOUS
<1>4. \A i \in DOMAIN inc : inc[i] \in Answers
  OBVIOUS
<1> HIDE DEF n
<1>5. \A i \in DOMAIN out : IsRequest(out[i]) =>
         /\ out[i].mid \in MsgIds /\ out[i].mid # last + 1 /\ out[i].mid <= last + 1
         /\ pend2[out[i].mid] = out[i].topic
  <2> SUFFICES ASSUME NEW i \in DOMAIN out, IsRequest(out[i])
               PROVE  /\ out[i].mid \in MsgIds /\ out[i].mid # last + 1
                      /\ out[i].mid <= last + 1
                      /\ pend2[out[i].mid] = out[i].topic
    OBVIOUS
  <2>1. out[i].mid \in MsgIds /\ out[i].mid <= last /\ pend[out[i].mid] = out[i].topic
    BY <1>3, PacketFields DEF RequestIds
  <2>2. out[i].mid \in Nat
    BY <2>1, MosquittoAssumption DEF MsgIds
  <2> QED BY <2>1, <2>2
<1>6. \A j \in DOMAIN inc : IsAck(inc[j]) => inc[j].mid # last + 1
  <2> SUFFICES ASSUME NEW j \in DOMAIN inc, IsAck(inc[j]) PROVE inc[j].mid # last + 1
    OBVIOUS
  <2>1. inc[j].mid \in Nat /\ inc[j].mid <= last
    BY <1>4, PacketFields, MosquittoAssumption DEF AckIds, MsgIds
  <2> QED BY <2>1
<1>7. ConnectFirst(more, topics)
  <2>1. p.type # "CONNECT"
    BY DEF IsRequest
  <2> QED BY <1>2, <2>1 DEF ConnectFirst
<1>8. RequestIds(more, pend2, last + 1)
  BY <1>2, <1>5 DEF RequestIds
<1>9. Apart(more, inc)
  BY <1>2, <1>6 DEF Apart
<1> QED BY <1>7, <1>8, <1>9 DEF more

LEMMA TakePacket ==
    ASSUME NEW out \in Seq(Packets), out # <<>>, NEW inc \in Seq(Answers), NEW pend,
           NEW last, NEW topics, NEW topics2,
           ConnectFirst(out, topics), RequestIds(out, pend, last), Apart(out, inc)
    PROVE  /\ ConnectFirst(Tail(out), topics2)
           /\ RequestIds(Tail(out), pend, last)
           /\ Apart(Tail(out), inc)
<1>1. /\ Len(out) \in Nat \ {0} /\ DOMAIN out = 1 .. Len(out)
      /\ DOMAIN Tail(out) = 1 .. (Len(out) - 1)
      /\ \A i \in 1 .. (Len(out) - 1) : Tail(out)[i] = out[i + 1]
  BY TailFacts
<1> DEFINE rest == Tail(out)
<1> HIDE DEF rest
<1>2. \A i \in DOMAIN rest :
         i \in Nat /\ i + 1 \in DOMAIN out /\ i + 1 # 1 /\ rest[i] = out[i + 1]
  BY <1>1 DEF rest
<1>3. ConnectFirst(rest, topics2)
  BY <1>2 DEF ConnectFirst
<1>4. RequestIds(rest, pend, last)
  <2>1. \A i \in DOMAIN rest : IsRequest(rest[i]) =>
            rest[i].mid <= last /\ pend[rest[i].mid] = rest[i].topic
    BY <1>2 DEF RequestIds
  <2>2. ASSUME NEW i \in DOMAIN rest, NEW j \in DOMAIN rest,
               IsRequest(rest[i]), IsRequest(rest[j]), rest[i].mid = rest[j].mid
        PROVE  i = j
    <3>1. i + 1 = j + 1
      BY <1>2, <2>2 DEF RequestIds
    <3> QED BY <1>2, <3>1
  <2> QED BY <2>1, <2>2 DEF RequestIds
<1>5. Apart(rest, inc)
  BY <1>2 DEF Apart
<1> QED BY <1>3, <1>4, <1>5 DEF rest

\* An answer whose id no other answer and no request has.
LEMMA AppendAnswer ==
    ASSUME NEW out \in Seq(Packets), NEW inc \in Seq(Answers), NEW last, NEW a,
           AckIds(inc, last), Apart(out, inc),
           IsAck(a) =>
              /\ a.mid <= last
              /\ \A i \in DOMAIN inc : IsAck(inc[i]) => inc[i].mid # a.mid
              /\ \A i \in DOMAIN out : IsRequest(out[i]) => out[i].mid # a.mid
    PROVE  AckIds(Append(inc, a), last) /\ Apart(out, Append(inc, a))
<1> DEFINE more == Append(inc, a)
           n == Len(inc) + 1
<1>0. /\ Len(inc) \in Nat /\ DOMAIN inc = 1 .. Len(inc) /\ DOMAIN more = 1 .. n
      /\ \A i \in DOMAIN inc : more[i] = inc[i]
      /\ more[n] = a
  BY AppendFacts
<1> HIDE DEF more
<1>1. \A i \in DOMAIN more : (i \in DOMAIN inc /\ more[i] = inc[i]) \/ (i = n /\ more[i] = a)
  BY <1>0
<1> HIDE DEF n
<1>2. AckIds(more, last)
  BY <1>1 DEF AckIds
<1>3. Apart(out, more)
  BY <1>1 DEF Apart
<1> QED BY <1>2, <1>3 DEF more

LEMMA TakeAnswer ==
    ASSUME NEW out \in Seq(Packets), NEW inc \in Seq(Answers), inc # <<>>, NEW last,
           AckIds(inc, last), Apart(out, inc)
    PROVE  AckIds(Tail(inc), last) /\ Apart(out, Tail(inc))
<1> DEFINE rest == Tail(inc)
<1>1. \A i \in DOMAIN rest : i \in Nat /\ i + 1 \in DOMAIN inc /\ rest[i] = inc[i + 1]
  BY TailFacts
<1> HIDE DEF rest
<1>2. AckIds(rest, last)
  <2>1. \A i \in DOMAIN rest : IsAck(rest[i]) => rest[i].mid <= last
    BY <1>1 DEF AckIds
  <2>2. ASSUME NEW i \in DOMAIN rest, NEW j \in DOMAIN rest,
               IsAck(rest[i]), IsAck(rest[j]), rest[i].mid = rest[j].mid
        PROVE  i = j
    <3>1. i + 1 = j + 1
      BY <1>1, <2>2 DEF AckIds
    <3> QED BY <1>1, <3>1
  <2> QED BY <2>1, <2>2 DEF AckIds
<1>3. Apart(out, rest)
  BY <1>1 DEF Apart
<1> QED BY <1>2, <1>3 DEF rest
(***************************************************************************)
(* The session, step by step.                                              *)
(***************************************************************************)
LEMMA SessionConnects ==
    ASSUME LibraryTypeOK, NEW p \in Packets, p.type = "CONNECT",
           NEW out \in Seq(Packets), held = {},
           Accepts \/ Refuses,
           RequestIds(out, pending, lastMid), AckIds(incoming, lastMid),
           Apart(out, incoming), Agree(incoming, pending, registry, held)
    PROVE  /\ AckIds(incoming', lastMid)
           /\ Apart(out, incoming')
           /\ Agree(incoming', pending, registry, held')
<1>1. PICK a : a.type = "CONNACK" /\ incoming' = Append(incoming, a) /\ held' = held
  BY DEF Accepts, Refuses
<1>2. ~IsAck(a)
  BY <1>1 DEF IsAck
<1>3. incoming \in Seq(Answers)
  BY DEF LibraryTypeOK
<1>4. AckIds(incoming', lastMid) /\ Apart(out, incoming')
  BY <1>1, <1>2, <1>3, AppendAnswer
<1>5. Agree(incoming', pending, registry, held')
  BY <1>1, <1>2, <1>3, AgreeConnack
<1> QED BY <1>4, <1>5

LEMMA SessionAnswers ==
    ASSUME LibraryTypeOK, NEW p \in Packets, IsRequest(p), BrokerGets(p),
           NEW out \in Seq(Packets), NEW pend, NEW last,
           p.mid <= last, pend[p.mid] = p.topic,
           \A i \in DOMAIN incoming : IsAck(incoming[i]) => incoming[i].mid # p.mid,
           \A i \in DOMAIN out : IsRequest(out[i]) => out[i].mid # p.mid,
           AckIds(incoming, last), Apart(out, incoming),
           Agree(incoming, pend, registry, held)
    PROVE  /\ AckIds(incoming', last)
           /\ Apart(out, incoming')
           /\ Agree(incoming', pend, registry, held')
<1>1. incoming \in Seq(Answers)
  BY DEF LibraryTypeOK
<1>2. ASSUME NEW a, incoming' = Append(incoming, a), IsAck(a), a.mid = p.mid,
             \A t \in Topics : t # p.topic => (t \in held' <=> t \in held),
             a.type = "SUBACK" /\ a.qos = "granted" => p.topic \in held',
             a.type = "UNSUBACK" => p.topic \notin held'
      PROVE  /\ AckIds(incoming', last)
             /\ Apart(out, incoming')
             /\ Agree(incoming', pend, registry, held')
  <2>1. AckIds(incoming', last) /\ Apart(out, incoming')
    BY <1>1, <1>2, AppendAnswer
  <2>2. pend[a.mid] = p.topic
    BY <1>2
  <2>3. Agree(incoming', pend, registry, held')
    <3> DEFINE now == held'
    <3>1. /\ \A t \in Topics : t # pend[a.mid] => (t \in now <=> t \in held)
          /\ a.type = "SUBACK" /\ a.qos = "granted" => pend[a.mid] \in now
          /\ a.type = "UNSUBACK" => pend[a.mid] \notin now
      BY <1>2, <2>2
    <3> HIDE DEF now
    <3>2. Agree(Append(incoming, a), pend, registry, now)
      BY <1>1, <1>2, <3>1, AgreeAnswer
    <3> QED BY <1>2, <3>2 DEF now
  <2> QED BY <2>1, <2>3
<1>3. CASE UNCHANGED <<incoming, held>>
  BY <1>3
<1>4. CASE Subscribes(p)
  <2>1. CASE /\ held' = held \cup {p.topic}
             /\ incoming' = Append(incoming, [type |-> "SUBACK", mid |-> p.mid, qos |-> "granted"])
    BY <1>2, <2>1 DEF IsAck
  <2>2. CASE /\ held' = held
             /\ incoming' = Append(incoming, [type |-> "SUBACK", mid |-> p.mid, qos |-> "refused"])
    BY <1>2, <2>2 DEF IsAck
  <2> QED BY <1>4, <2>1, <2>2 DEF Subscribes
<1>5. CASE Unsubscribes(p)
  BY <1>2, <1>5 DEF Unsubscribes, IsAck
<1> QED BY <1>3, <1>4, <1>5 DEF BrokerGets, IsRequest

\* WriteOp takes the first packet.
LEMMA SessionWrites ==
    ASSUME LibraryTypeOK, Session, outgoing # <<>>, outgoing[1].type # "DISCONNECT",
           outgoing' = Tail(outgoing), BrokerGets(outgoing[1]),
           UNCHANGED <<lastMid, pending, registry>>
    PROVE  Session'
<1> DEFINE p == outgoing[1]
           out == Tail(outgoing)
<1>1. p \in Packets /\ out \in Seq(Packets) /\ incoming \in Seq(Answers)
      /\ outgoing \in Seq(Packets) /\ 1 \in DOMAIN outgoing
  BY DEF LibraryTypeOK
<1>2. /\ \A topics : ConnectFirst(out, topics)
      /\ RequestIds(out, pending, lastMid) /\ Apart(out, incoming)
  BY <1>1, TakePacket DEF Session
<1>3. p.type = "CONNECT" => held = {}
  BY <1>1 DEF Session, ConnectFirst
<1>4. IsRequest(p) =>
        /\ p.mid <= lastMid /\ pending[p.mid] = p.topic
        /\ \A i \in DOMAIN incoming : IsAck(incoming[i]) => incoming[i].mid # p.mid
        /\ \A i \in DOMAIN out : IsRequest(out[i]) => out[i].mid # p.mid
  <2>1. ASSUME NEW i \in DOMAIN out, IsRequest(p), IsRequest(out[i])
        PROVE  out[i].mid # p.mid
    <3>1. i \in Nat \ {0} /\ i + 1 \in DOMAIN outgoing /\ out[i] = outgoing[i + 1]
      BY <1>1, TailFacts
    <3>2. i + 1 # 1
      BY <3>1
    <3> QED BY <1>1, <2>1, <3>1, <3>2 DEF Session, RequestIds
  <2>2. IsRequest(p) => p.mid <= lastMid /\ pending[p.mid] = p.topic
    BY <1>1 DEF Session, RequestIds
  <2>3. IsRequest(p) =>
          \A i \in DOMAIN incoming : IsAck(incoming[i]) => incoming[i].mid # p.mid
    BY <1>1 DEF Session, Apart
  <2> QED BY <2>1, <2>2, <2>3
<1>5. BrokerGets(p) /\ (p.type = "CONNECT" \/ IsRequest(p)) /\ outgoing' = out
  BY <1>1 DEF Packets, IsRequest
<1> HIDE DEF p, out
<1>6. /\ AckIds(incoming', lastMid)
      /\ Apart(out, incoming')
      /\ Agree(incoming', pending, registry, held')
  <2>1. CASE p.type = "CONNECT"
    <3>1. Accepts \/ Refuses
      BY <1>5, <2>1 DEF BrokerGets
    <3> QED BY <1>1, <1>2, <1>3, <2>1, <3>1, SessionConnects DEF Session
  <2>2. CASE IsRequest(p)
    BY <1>1, <1>2, <1>4, <1>5, <2>2, SessionAnswers DEF Session
  <2> QED BY <1>5, <2>1, <2>2
<1> QED BY <1>2, <1>5, <1>6 DEF Session

LEMMA SessionRequests ==
    ASSUME TypeOK, Session, NEW type \in {"SUBSCRIBE", "UNSUBSCRIBE"}, NEW t \in Topics,
           NEW state, Request(type, t, state)
    PROVE  Session'
<1> DEFINE p == [type |-> type, mid |-> lastMid', topic |-> t]
           pend == [pending EXCEPT ![lastMid'] = t]
<1>1. /\ lastMid \in Nat /\ lastMid' = lastMid + 1 /\ lastMid' \in MsgIds
      /\ outgoing \in Seq(Packets) /\ incoming \in Seq(Answers)
      /\ pending \in [MsgIds -> Topics \cup {None}]
  BY MosquittoAssumption DEF Request, TypeOK, LibraryTypeOK, MsgIds
<1>2. p \in Packets /\ IsRequest(p) /\ p.mid = lastMid + 1 /\ p.topic = t
      /\ p.mid \in MsgIds
  BY <1>1 DEF Packets, IsRequest
<1>3. pend[p.mid] = p.topic /\ \A i \in MsgIds : i # p.mid => pend[i] = pending[i]
  BY <1>1
<1>4. /\ pending' = pend /\ UNCHANGED registry
      /\ \/ outgoing' = Append(outgoing, p) /\ UNCHANGED <<served, incoming, held>>
         \/ outgoing = <<>> /\ BrokerGets(p) /\ UNCHANGED outgoing
  BY DEF Request, RegisterPending, Send
<1> HIDE DEF p, pend
<1>5. \A j \in DOMAIN incoming : IsAck(incoming[j]) =>
         incoming[j].mid \in MsgIds /\ incoming[j].mid <= lastMid + 1
         /\ incoming[j].mid # p.mid
  <2> SUFFICES ASSUME NEW j \in DOMAIN incoming, IsAck(incoming[j])
               PROVE  /\ incoming[j].mid \in MsgIds /\ incoming[j].mid <= lastMid + 1
                      /\ incoming[j].mid # p.mid
    OBVIOUS
  <2>1. incoming[j].mid \in MsgIds /\ incoming[j].mid <= lastMid
    BY <1>1, PacketFields DEF Session, AckIds
  <2>2. incoming[j].mid \in Nat
    BY <2>1, MosquittoAssumption DEF MsgIds
  <2> QED BY <1>1, <1>2, <2>1, <2>2
<1>6. AckIds(incoming, lastMid + 1)
  BY <1>5 DEF Session, AckIds
<1>7. Agree(incoming, pend, registry, held)
  <2>1. \A u \in Topics : \A i : About(incoming, pend, u, i) <=> About(incoming, pending, u, i)
    BY <1>3, <1>5 DEF About
  <2> QED BY <2>1, AgreeSame DEF Session
<1>8. CASE outgoing' = Append(outgoing, p) /\ UNCHANGED <<served, incoming, held>>
  <2>1. /\ ConnectFirst(Append(outgoing, p), held)
        /\ RequestIds(Append(outgoing, p), pend, lastMid + 1)
        /\ Apart(Append(outgoing, p), incoming)
    BY <1>1, <1>2, <1>3, QueueRequest DEF Session
  <2> QED BY <1>1, <1>4, <1>6, <1>7, <1>8, <2>1 DEF Session
<1>9. CASE outgoing = <<>> /\ BrokerGets(p) /\ UNCHANGED outgoing
  <2>1. /\ AckIds(incoming', lastMid + 1)
        /\ Apart(outgoing, incoming')
        /\ Agree(incoming', pend, registry, held')
    <3>1. p.mid <= lastMid + 1
      BY <1>1, <1>2
    <3>2. \A i \in DOMAIN outgoing : IsRequest(outgoing[i]) => outgoing[i].mid # p.mid
      BY <1>9
    <3>3. Apart(outgoing, incoming)
      BY DEF Session
    <3> QED BY <1>1, <1>2, <1>3, <1>5, <1>6, <1>7, <1>9, <3>1, <3>2, <3>3, SessionAnswers
            DEF TypeOK
  <2>2. ConnectFirst(outgoing', held') /\ RequestIds(outgoing', pend, lastMid + 1)
    BY <1>9 DEF ConnectFirst, RequestIds
  <2> QED BY <1>1, <1>4, <1>9, <2>1, <2>2 DEF Session
<1> QED BY <1>4, <1>8, <1>9

LEMMA SessionReads ==
    ASSUME TypeOK, Session, ReadOp
    PROVE  Session'
<1> DEFINE a == incoming[1]
<1>1. /\ incoming \in Seq(Answers) /\ incoming # <<>> /\ outgoing \in Seq(Packets)
      /\ pending \in [MsgIds -> Topics \cup {None}]
      /\ registry \in [Topics -> Grants \cup {None}]
      /\ UNCHANGED <<outgoing, held, lastMid>> /\ incoming' = Tail(incoming)
  BY DEF ReadOp, TypeOK, LibraryTypeOK
<1>2. a \in Answers /\ 1 \in DOMAIN incoming
  BY <1>1, TailFacts
<1>3. AckIds(incoming', lastMid') /\ Apart(outgoing', incoming') /\ ConnectFirst(outgoing', held')
  BY <1>1, TakeAnswer DEF Session
<1>4. CASE a.type = "CONNACK" /\ UNCHANGED <<pending, registry>>
  <2>1. \A t \in Topics : ~About(incoming, pending, t, 1)
    BY <1>4 DEF About, IsAck
  <2>2. Agree(Tail(incoming), pending, registry, held)
    BY <1>1, <2>1, AgreeRead DEF Session
  <2> QED BY <1>1, <1>3, <1>4, <2>2 DEF Session
<1>5. ASSUME NEW qos, IsAck(a), Acknowledge(a.mid, qos),
             qos = IF a.type = "SUBACK" THEN a.qos ELSE None
      PROVE  Session'
  <2>1. a.mid \in MsgIds
    BY <1>2, <1>5, PacketFields
  <2> DEFINE pend == [pending EXCEPT ![a.mid] = None]
             reg == registry'
  <2>2. pending' = pend /\ registry' = reg
    BY <1>5 DEF Acknowledge
  <2>3. \A i \in MsgIds : i # a.mid => pend[i] = pending[i]
    BY <1>1, <2>1
  <2>4. \A t \in Topics : About(incoming, pending, t, 1) <=> pending[a.mid] = t
    BY <1>2, <1>5 DEF About
  <2>5. \A t \in Topics : reg[t] = IF pending[a.mid] = t THEN qos ELSE registry[t]
    <3>1. None \notin Topics
      BY MosquittoAssumption
    <3>2. pending[a.mid] \in Topics \cup {None}
      BY <1>1, <2>1
    <3> QED BY <1>1, <1>5, <3>1, <3>2 DEF Acknowledge
  <2> HIDE DEF pend, reg
  <2>6. \A i \in DOMAIN incoming : i # 1 /\ IsAck(incoming[i]) =>
           pend[incoming[i].mid] = pending[incoming[i].mid]
    <3> SUFFICES ASSUME NEW i \in DOMAIN incoming, i # 1, IsAck(incoming[i])
                 PROVE  pend[incoming[i].mid] = pending[incoming[i].mid]
      OBVIOUS
    <3>1. incoming[i].mid \in MsgIds
      BY <1>1, PacketFields
    <3>2. incoming[i].mid # a.mid
      BY <1>2, <1>5 DEF Session, AckIds
    <3> QED BY <2>3, <3>1, <3>2
  <2>7. \A i \in DOMAIN outgoing : IsRequest(outgoing[i]) =>
           pend[outgoing[i].mid] = pending[outgoing[i].mid]
    <3> SUFFICES ASSUME NEW i \in DOMAIN outgoing, IsRequest(outgoing[i])
                 PROVE  pend[outgoing[i].mid] = pending[outgoing[i].mid]
      OBVIOUS
    <3>1. outgoing[i].mid \in MsgIds
      BY <1>1, PacketFields
    <3>2. outgoing[i].mid # a.mid
      BY <1>2, <1>5 DEF Session, Apart
    <3> QED BY <2>3, <3>1, <3>2
  <2>8. RequestIds(outgoing, pend, lastMid)
    BY <2>7 DEF Session, RequestIds
  <2>9. Agree(Tail(incoming), pend, reg, held)
    <3>1. \A t \in Topics : ~About(incoming, pending, t, 1) => reg[t] = registry[t]
      BY <2>4, <2>5
    <3>2. \A t \in Topics : About(incoming, pending, t, 1) =>
             reg[t] = IF incoming[1].type = "SUBACK" THEN incoming[1].qos ELSE None
      BY <1>5, <2>4, <2>5
    <3>3. Agree(incoming, pending, registry, held)
      BY DEF Session
    <3> QED BY <1>1, <2>6, <3>1, <3>2, <3>3, AgreeRead
  <2> QED BY <1>1, <1>3, <2>2, <2>8, <2>9 DEF Session
<1>6. CASE a.type = "CONNACK"
  BY <1>4, <1>6 DEF ReadOp, OnAnswer, OnConnected, subscriptionVars
<1>7. CASE a.type = "SUBACK"
  BY <1>5, <1>7 DEF ReadOp, OnAnswer, OnSubscribed, IsAck
<1>8. CASE a.type = "UNSUBACK"
  BY <1>5, <1>8 DEF ReadOp, OnAnswer, OnUnsubscribed, IsAck
<1> QED BY <1>6, <1>7, <1>8 DEF ReadOp, OnAnswer
(***************************************************************************)
(* The invariant.                                                          *)
(***************************************************************************)
LEMMA RegistryClosed ==
    ASSUME TypeOK, RegistryInv, Closed, UNCHANGED <<pending, registry>>,
           connectionState' # "CONNECTED"
    PROVE  RegistryInv'
<1>1. socket' = None /\ UNCHANGED <<opened, held>>
  BY DEF Closed
<1>2. Fresh'
  BY <1>1 DEF RegistryInv, Fresh
<1>3. Established'
  BY DEF Established
<1> QED BY <1>1, <1>2, <1>3 DEF RegistryInv

\* Steps that leave library and registry alone.
LEMMA RegistrySame ==
    ASSUME RegistryInv, UNCHANGED <<libraryVars, pending, registry>>,
           Established'
    PROVE  RegistryInv'
BY DEF RegistryInv, Fresh, Session, libraryVars

LEMMA PopKeeps ==
    ASSUME NEW frame, InnermostIs(frame)
    PROVE  stack # <<>>
BY DEF InnermostIs

LEMMA RegistryStep == TypeOK /\ RegistryInv /\ [Next]_vars => RegistryInv'
<1> SUFFICES ASSUME TypeOK, RegistryInv, [Next]_vars PROVE RegistryInv'
  OBVIOUS
<1>1. ASSUME Disconnected PROVE RegistryInv'
  <2>1. Closed /\ UNCHANGED <<pending, registry>> /\ connectionState' # "CONNECTED"
    BY <1>1 DEF Disconnected, OnDisconnected, subscriptionVars
  <2> QED BY <2>1, RegistryClosed
<1>2. CASE UNCHANGED vars
  <2>1. Established'
    BY <1>2 DEF RegistryInv, Established, vars, libraryVars, clientVars
  <2> QED BY <1>2, <2>1, RegistrySame DEF vars, clientVars
<1>3. CASE Connect
  <2>1. Established'
    BY <1>3 DEF Connect, Established
  <2> QED BY <1>3, <2>1, RegistrySame DEF Connect, subscriptionVars
<1>4. CASE Disconnect
  <2>1. Established'
    BY <1>4 DEF Disconnect, RegistryInv, Established, libraryVars
  <2> QED BY <1>4, <2>1, RegistrySame DEF Disconnect, subscriptionVars
<1>5. CASE \E t \in Topics : Subscribe(t) \/ Unsubscribe(t)
  <2>1. PICK type \in {"SUBSCRIBE", "UNSUBSCRIBE"}, t \in Topics,
             state \in SubscriptionStates : Request(type, t, state)
    BY <1>5 DEF Subscribe, Unsubscribe, SubscriptionStates
  <2>2. socket # None /\ UNCHANGED <<socket, opened, connectionState, registry, stack>>
    BY <2>1 DEF Request
  <2>3. Fresh' /\ Established'
    BY <2>2 DEF RegistryInv, Fresh, Established
  <2>4. opened = 1 => Session'
    BY <2>1, <2>2, SessionRequests DEF RegistryInv
  <2> QED BY <2>2, <2>3, <2>4 DEF RegistryInv
<1>6. CASE ConnectGoesOn
  <2>1. /\ connectionState # "CONNECTED" /\ UNCHANGED <<connectionState, pending, registry>>
        /\ ConnectAsync \/ ConnectAsyncFails
    BY <1>6, PopKeeps DEF ConnectGoesOn, RegistryInv, Established, subscriptionVars
  <2>2. CASE ConnectAsyncFails
    BY <2>1, <2>2, RegistryClosed DEF ConnectAsyncFails
  <2>3. CASE ConnectAsync
    <3>1. /\ opened \in Nat /\ opened' = opened + 1 /\ UNCHANGED <<lastMid, held>>
          /\ outgoing' = <<[type |-> "CONNECT"]>> /\ incoming' = <<>>
      BY <2>3, MosquittoAssumption DEF ConnectAsync, TypeOK, LibraryTypeOK
    <3>2. Fresh' /\ Established'
      BY <2>1, <3>1 DEF Fresh, Established
    <3>3. opened' = 1 => held = {} /\ \A t \in Topics : registry[t] = None
      BY <3>1 DEF RegistryInv, Fresh
    <3>4. ASSUME opened' = 1 PROVE Session'
      <4>1. \A i \in DOMAIN outgoing' : i = 1 /\ outgoing'[i].type = "CONNECT"
        BY <3>1
      <4>2. ConnectFirst(outgoing', held') /\ RequestIds(outgoing', pending', lastMid')
        BY <3>1, <3>3, <3>4, <4>1 DEF ConnectFirst, RequestIds, IsRequest
      <4>3. DOMAIN incoming' = {}
        BY <3>1
      <4>4. AckIds(incoming', lastMid') /\ Apart(outgoing', incoming')
        BY <4>3 DEF AckIds, Apart
      <4>5. None # "granted"
        BY MosquittoAssumption DEF Grants
      <4>6. Agree(incoming', pending', registry', held')
        BY <2>1, <3>1, <3>3, <3>4, <4>3, <4>5 DEF Agree, AgreeOn, About
      <4> QED BY <4>2, <4>4, <4>6 DEF Session
    <3> QED BY <3>2, <3>4 DEF RegistryInv
  <2> QED BY <2>1, <2>2, <2>3
<1>7. CASE DisconnectGoesOn
  <2>1. connectionState # "CONNECTED"
    BY <1>7, PopKeeps DEF DisconnectGoesOn, RegistryInv, Established
  <2>2. CASE UNCHANGED <<libraryVars, connectionState, subscriptionVars, hook, polling>>
    BY <2>1, <2>2, RegistrySame DEF Established, subscriptionVars
  <2>3. CASE /\ outgoing' = Append(outgoing, [type |-> "DISCONNECT"])
             /\ UNCHANGED <<socket, opened, served, lastMid, incoming, held>>
             /\ UNCHANGED <<connectionState, subscriptionVars, hook, polling>>
    <3>1. UNCHANGED <<pending, registry>>
      BY <2>3 DEF subscriptionVars
    <3>2. Fresh' /\ Established'
      BY <2>1, <2>3, <3>1 DEF RegistryInv, Fresh, Established
    <3>3. ASSUME Session PROVE Session'
      <4> DEFINE p == [type |-> "DISCONNECT"]
      <4>1. ~IsRequest(p) /\ p.type # "CONNECT" /\ outgoing' = Append(outgoing, p)
        BY <2>3 DEF IsRequest
      <4>2. outgoing \in Seq(Packets) /\ incoming \in Seq(Answers)
        BY DEF TypeOK, LibraryTypeOK
      <4> HIDE DEF p
      <4>3. /\ ConnectFirst(Append(outgoing, p), held)
            /\ RequestIds(Append(outgoing, p), pending, lastMid)
            /\ Apart(Append(outgoing, p), incoming)
        BY <3>3, <4>1, <4>2, QueuePacket DEF Session
      <4> QED BY <2>3, <3>1, <3>3, <4>1, <4>3 DEF Session
    <3> QED BY <2>3, <3>2, <3>3 DEF RegistryInv
  <2> QED BY <1>1, <1>7, <2>2, <2>3 DEF DisconnectGoesOn
<1>8. CASE RefusedGoesOn
  BY <1>1, <1>8 DEF RefusedGoesOn
<1>9. CASE ReadOp
  <2>1. /\ stack = <<>> /\ socket # None
        /\ UNCHANGED <<socket, opened, held>>
    BY <1>9 DEF ReadOp, LoopRuns
  <2>2. /\ connectionState' = "CONNECTED" \/ stack' # <<>> =>
             \/ UNCHANGED <<connectionState, stack>>
             \/ connectionState' = "CONNECTED" /\ UNCHANGED stack
             \/ connectionState' = "DISCONNECTED"
    BY <1>9 DEF ReadOp, OnAnswer, OnConnected, OnSubscribed, OnUnsubscribed, Acknowledge
  <2>3. Established'
    BY <2>1, <2>2 DEF RegistryInv, Established
  <2>4. Fresh'
    BY <2>1 DEF RegistryInv, Fresh
  <2>5. opened = 1 => Session'
    BY <1>9, <2>1, SessionReads DEF RegistryInv
  <2> QED BY <2>1, <2>3, <2>4, <2>5 DEF RegistryInv
<1>10. CASE WriteOp
  <2>1. CASE Disconnected
    BY <1>1, <2>1
  <2>2. CASE ~Disconnected
    <3>1. /\ outgoing # <<>> /\ outgoing[1].type # "DISCONNECT"
          /\ outgoing' = Tail(outgoing) /\ BrokerGets(outgoing[1])
          /\ socket # None
          /\ UNCHANGED <<socket, opened, lastMid, connectionState, pending, registry, stack>>
      BY <1>10, <2>2 DEF WriteOp, LoopRuns, subscriptionVars
    <3>2. Fresh' /\ Established'
      BY <3>1 DEF RegistryInv, Fresh, Established
    <3>3. opened = 1 => Session'
      BY <3>1, SessionWrites DEF RegistryInv, TypeOK
    <3> QED BY <3>1, <3>2, <3>3 DEF RegistryInv
  <2> QED BY <2>1, <2>2
<1>11. CASE MiscTask \/ ConnectionBreaks
  BY <1>1, <1>11 DEF MiscTask, ConnectionBreaks
<1> QED BY <1>2, <1>3, <1>4, <1>5, <1>6, <1>7, <1>8, <1>9, <1>10, <1>11 DEF Next

(***************************************************************************)
(* In a client's first session, once nothing is under way, every topic     *)
(* registered as granted is one the broker sends, and every topic it sends *)
(* is registered: whatever the program asks for, in whatever order, from   *)
(* whatever slots, and whatever the broker refuses.                        *)
(***************************************************************************)
THEOREM RegistryIsTrue == Spec => []RegistryTellsBroker
<1>1. Init => RegistryInv
  BY DEF Init, LibraryInit, RegistryInv, Fresh, Established
<1>2. TypeOK /\ RegistryInv /\ [Next]_vars => RegistryInv'
  BY RegistryStep
<1>3. TypeOK /\ RegistryInv => RegistryTellsBroker
  <2> SUFFICES ASSUME TypeOK, RegistryInv, opened = 1, connectionState = "CONNECTED",
                      incoming = <<>>
               PROVE  /\ {t \in Topics : registry[t] = "granted"} \subseteq held
                      /\ \A t \in Topics : t \in held => registry[t] # None
    BY DEF RegistryTellsBroker, SubscribedTopics, TypeOK, LibraryTypeOK
  <2>1. Agree(incoming, pending, registry, held)
    BY DEF RegistryInv, Established, Session
  <2>2. \A t \in Topics : \A i : ~About(incoming, pending, t, i)
    BY DEF About
  <2> QED BY <2>1, <2>2 DEF Agree, AgreeOn
<1> QED BY <1>1, <1>2, <1>3, ClientTypeCorrect, PTL DEF Spec
=============================================================================
