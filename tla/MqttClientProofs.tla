-------------------------- MODULE MqttClientProofs --------------------------
(***************************************************************************)
(* Proofs about MqttClient: while iot_yield believes to be connected the   *)
(* broker has the subscription, and no message is acknowledged that its    *)
(* handler has not seen, for every number of connections, publications,    *)
(* messages and failures.                                                  *)
(***************************************************************************)
EXTENDS MqttClient, TLAPS

PacketTypes == {"NONE", "CONNECT", "SUBSCRIBE", "DISCONNECT", "PINGREQ", "PUBLISH",
                "PUBACK", "PUBREC", "CONNACK", "REFUSED", "SUBACK", "PINGRESP",
                "DISCONNECTED", "FAILURE"}
Packets == [type : PacketTypes, id : Nat, qos : 0..2]
Brokers == [tcp : {"open", "fin", "rst"}, alive : BOOLEAN, session : BOOLEAN,
            subscribed : BOOLEAN, out : Seq(Packets)]

Flags ==
  /\ isconnected \in BOOLEAN /\ ping_outstanding \in BOOLEAN
  /\ handler \in BOOLEAN /\ due \in BOOLEAN

Types ==
  /\ iotstatus \in {"LOGIN", "CONNECT", "DROP"}
  /\ cloud \in CloudAt /\ main \in {"top", "PUBLISH", "send", "killed"}
  /\ caller \in {"none", "CONNECT", "SUBSCRIBE", "yield"}
  /\ got \in Packets /\ buf \in Packets
  /\ fail_count \in Nat
  /\ my_socket \in {"stdin", "none", "unconnected", "broker"}
  /\ broker \in Brokers
  /\ conns \in 0..MaxConns /\ publishes \in 0..MaxPublishes
  /\ messages \in 0..MaxMessages

(* The places of the cloud thread inside cycle, and those of them where it *)
(* has read what cycle returns.                                            *)
AfterRead == {"send ack", "keepalive", "send PINGREQ", "return"}
Cycle == AfterRead \cup {"read"}

(* MQTTConnect has filled the buffer and waits for the CONNACK.            *)
Connecting == cloud = "send CONNECT" \/ (cloud \in Cycle /\ caller = "CONNECT")
(* MQTTSubscribe has filled the buffer and waits for the SUBACK.           *)
Subscribing == cloud = "send SUBSCRIBE" \/ (cloud \in Cycle /\ caller = "SUBSCRIBE")
SubackRead == cloud \in AfterRead /\ got.type = "SUBACK"

(* What a broker has sent: a SUBACK and messages only to a subscriber, the  *)
(* messages numbered up to n, and the SUBACK before any message.           *)
OnlySubscribed(b) ==
  \A i \in 1..Len(b.out) : b.out[i].type \in {"SUBACK", "PUBLISH"} => b.subscribed
Numbered(b, n) ==
  \A i \in 1..Len(b.out) : b.out[i].type = "PUBLISH" => b.out[i].id \in 1..n
AcksFirst(b) ==
  \A i \in 1..Len(b.out) :
    (\A j \in 1..i : b.out[j].type # "SUBACK") => b.out[i].type # "PUBLISH"
AckComes(b) ==
  b.tcp = "open" /\ b.subscribed => \E j \in 1..Len(b.out) : b.out[j].type = "SUBACK"

(* Where the threads are and what iot_yield believes go together.          *)
Places ==
  /\ cloud \in {"network", "CONNECT", "send CONNECT", "SUBSCRIBE", "send SUBSCRIBE"}
       => iotstatus = "LOGIN"
  /\ cloud \in Cycle => /\ caller # "none" /\ iotstatus # "DROP"
                        /\ (iotstatus = "CONNECT" <=> caller = "yield")
  /\ cloud = "send DISCONNECT" => iotstatus = "DROP"
  /\ cloud = "send ack" => got.type = "PUBLISH"
  /\ cloud \in {"CONNECT", "send CONNECT"} => my_socket \in {"broker", "none"}
  /\ cloud \in Cycle \cup {"SUBSCRIBE", "send SUBSCRIBE"} => my_socket = "broker"
  /\ Connecting \/ cloud = "SUBSCRIBE" \/ Subscribing => ~ due
  /\ cloud = "SUBSCRIBE" \/ Subscribing => isconnected

(* The broker subscribes the client only when MQTTSubscribe has filled the *)
(* buffer, whichever thread writes it.                                     *)
Session ==
  /\ cloud = "CONNECT" /\ my_socket = "broker" =>
       ~ broker.subscribed /\ (broker.session => buf.type # "SUBSCRIBE")
  /\ Connecting \/ cloud = "SUBSCRIBE" =>
       buf.type # "SUBSCRIBE" /\ (my_socket = "broker" => ~ broker.subscribed)
  /\ SubackRead => broker.subscribed
  /\ iotstatus = "CONNECT" =>
       isconnected /\ handler /\ my_socket = "broker" /\ broker.subscribed
  /\ OnlySubscribed(broker)

(* While MQTTSubscribe waits, the SUBACK comes before any message.         *)
SubackFirst == Subscribing /\ ~ SubackRead => AcksFirst(broker) /\ AckComes(broker)

(* Messages are delivered before the buffer holds their acknowledgement.   *)
Messages ==
  /\ Numbered(broker, messages)
  /\ buf.type \in {"PUBACK", "PUBREC"} => buf.id \in delivered
  /\ delivered \subseteq 1..messages
  /\ acked \subseteq delivered

(* A connection adds at most one to a count that has reached its limit.    *)
Counts ==
  /\ cloud = "network" => conns < MaxConns
  /\ fail_count <= MaxFail + conns - 1
  /\ \/ cloud \in {"CONNECT", "send CONNECT", "SUBSCRIBE", "send SUBSCRIBE"}
     \/ cloud \in Cycle /\ ~ (cloud = "return" /\ got.type = "DISCONNECTED")
     \/ cloud = "top" /\ iotstatus = "CONNECT"
     => conns >= 1 /\ fail_count <= MaxFail + conns - 2

IInv == Flags /\ Types /\ Places /\ Session /\ SubackFirst /\ Messages /\ Counts

(* The packets the client builds.                                         *)
LEMMA PacketsTyped == \A t \in PacketTypes : Packet(t) \in Packets
BY DEF Packet, Packets

(* What a write does to the broker: it appends at most one answer, and     *)
(* subscribes the client only when it sees a SUBSCRIBE within a session.    *)
Answered(b, p) ==
  /\ b \in Brokers
  /\ broker.subscribed => b.subscribed
  /\ b.tcp = "open" => broker.tcp = "open"
  /\ b.session => broker.session \/ p.type = "CONNECT"
  /\ \/ b.subscribed = broker.subscribed /\ b.out = broker.out
     \/ /\ b.subscribed = broker.subscribed
        /\ \E t \in {"CONNACK", "REFUSED", "PINGRESP"} : b.out = Append(broker.out, Packet(t))
     \/ /\ b.out = Append(broker.out, Packet("SUBACK")) /\ b.subscribed
        /\ p.type = "SUBSCRIBE" /\ broker.session

(* Received and Garbled do no more than that to the broker.                *)
LEMMA BrokerAnswers ==
  ASSUME Types, NEW p \in Packets, NEW b \in Received(p) \cup Garbled(p)
  PROVE  Answered(b, p)
<1>1. \A t \in PacketTypes : Packet(t) \in Packets
  BY PacketsTyped
<1>2. ASSUME NEW c \in Received(p) \cup {broker} PROVE Answered(c, p)
  <2>1. broker \in Brokers
    BY DEF Types
  <2>2. ASSUME NEW t \in {"CONNACK", "REFUSED", "PINGRESP", "SUBACK"}
        PROVE  Append(broker.out, Packet(t)) \in Seq(Packets)
    BY <1>1, <2>1 DEF Brokers, PacketTypes
  <2> QED
    BY <1>2, <2>1, <2>2, ZenonT(60) DEF Received, Answer, Closed, Answered, Brokers
<1>3. ASSUME NEW c, Answered(c, p)
      PROVE  Answered(Closed(c), p) /\ Answered([c EXCEPT !.alive = FALSE], p)
  BY <1>3, Zenon DEF Answered, Closed, Brokers
<1>4. CASE b \in Received(p)
  BY <1>2, <1>4
<1>5. CASE b \in Garbled(p)
  <2>1. PICK c \in Received(p) \cup {broker} : b \in {c, Closed(c), [c EXCEPT !.alive = FALSE]}
    BY <1>5 DEF Garbled
  <2> QED
    BY <1>2, <1>3, <2>1, Zenon
<1> QED
  BY <1>4, <1>5

(* The two outcomes of a write that returns.                               *)
Wrote ==
  /\ due' \in BOOLEAN
  /\ \/ my_socket # "broker" /\ UNCHANGED <<broker, acked>>
     \/ my_socket = "broker" /\ Answered(broker', buf) /\ acked' = acked \cup AckOf(buf) /\ ~ due'

(* Every write that returns has one of them.                               *)
LEMMA WriteEffect ==
  ASSUME Flags, Types, NEW p, Written(p) \/ Unwritten
  PROVE  Wrote
BY BrokerAnswers, Zenon DEF Written, Unwritten, Wrote, Flags, Types

(* The first packet is a packet, and so is its acknowledgement.             *)
LEMMA ReadTyped ==
  ASSUME Types, broker.out # << >>
  PROVE  /\ Head(broker.out) \in Packets /\ Ack(Head(broker.out)) \in Packets
         /\ [broker EXCEPT !.out = Tail(@)] \in Brokers
<1>1. broker.out \in Seq(Packets) /\ broker \in Brokers
  BY DEF Types, Brokers
<1>2. Head(broker.out) \in Packets /\ Tail(broker.out) \in Seq(Packets)
  BY <1>1
<1> QED
  BY <1>1, <1>2, Zenon DEF Ack, Packets, Brokers, PacketTypes

(* A write keeps the order of what the broker has sent.                    *)
LEMMA AnsweredOut ==
  ASSUME Types, NEW b, NEW p, NEW n, Answered(b, p)
  PROVE  /\ OnlySubscribed(broker) => OnlySubscribed(b)
         /\ Numbered(broker, n) => Numbered(b, n)
         /\ AcksFirst(broker) => AcksFirst(b)
         /\ AckComes(broker) => AckComes(b)
<1> DEFINE s == broker.out
<1>1. s \in Seq(Packets)
  BY DEF Types, Brokers
<1>2. ASSUME NEW t \in {"CONNACK", "REFUSED", "PINGRESP", "SUBACK"}, b.out = Append(s, Packet(t))
      PROVE  /\ Len(b.out) = Len(s) + 1 /\ b.out[Len(s) + 1].type = t
             /\ \A i \in 1..Len(s) : b.out[i] = s[i]
  <2>1. Packet(t) \in Packets /\ Packet(t).type = t
    BY PacketsTyped DEF PacketTypes, Packet
  <2> QED
    BY <1>1, <1>2, <2>1
<1>3. Len(s) \in Nat
  BY <1>1
<1>4. CASE b.subscribed = broker.subscribed /\ b.out = s
  BY <1>4 DEF Answered, OnlySubscribed, Numbered, AcksFirst, AckComes
<1>5. ASSUME NEW t \in {"CONNACK", "REFUSED", "PINGRESP", "SUBACK"}, b.out = Append(s, Packet(t)),
             IF t = "SUBACK" THEN b.subscribed ELSE b.subscribed = broker.subscribed
      PROVE  /\ OnlySubscribed(broker) => OnlySubscribed(b)
             /\ Numbered(broker, n) => Numbered(b, n)
             /\ AcksFirst(broker) => AcksFirst(b)
             /\ AckComes(broker) => AckComes(b)
  <2>1. /\ Len(b.out) = Len(s) + 1 /\ b.out[Len(s) + 1].type = t
        /\ \A i \in 1..Len(s) : b.out[i] = s[i]
    BY <1>2, <1>5
  <2> HIDE DEF s
  <2>2. \A i \in 1..Len(b.out) : i \in 1..Len(s) \/ i = Len(s) + 1
    BY <1>3, <2>1
  <2>3. OnlySubscribed(broker) => OnlySubscribed(b)
    BY <1>5, <2>1, <2>2 DEF OnlySubscribed, s
  <2>4. Numbered(broker, n) => Numbered(b, n)
    BY <2>1, <2>2 DEF Numbered, s
  <2>5. ASSUME AcksFirst(broker), NEW i \in 1..Len(b.out),
               \A j \in 1..i : b.out[j].type # "SUBACK"
        PROVE  b.out[i].type # "PUBLISH"
    <3>1. CASE i \in 1..Len(s)
      <4>1. \A j \in 1..i : j \in 1..Len(s) /\ b.out[j] = s[j]
        BY <1>3, <2>1, <3>1
      <4>2. i \in 1..i
        BY <3>1
      <4> QED
        BY <2>5, <3>1, <4>1, <4>2, Zenon DEF AcksFirst, s
    <3>2. CASE i = Len(s) + 1
      BY <2>1, <3>2
    <3> QED
      BY <2>2, <3>1, <3>2
  <2>6. ASSUME AckComes(broker), b.tcp = "open", b.subscribed
        PROVE  \E j \in 1..Len(b.out) : b.out[j].type = "SUBACK"
    <3>1. CASE t = "SUBACK"
      BY <1>3, <2>1, <3>1
    <3>2. CASE t # "SUBACK"
      <4>1. PICK j \in 1..Len(s) : s[j].type = "SUBACK"
        BY <1>5, <2>6, <3>2, Zenon DEF AckComes, Answered, s
      <4>2. j \in 1..Len(b.out) /\ b.out[j] = s[j]
        BY <1>3, <2>1
      <4> QED
        BY <4>1, <4>2
    <3> QED
      BY <3>1, <3>2
  <2> QED
    BY <2>3, <2>4, <2>5, <2>6 DEF AcksFirst, AckComes
<1> QED
  BY <1>4, <1>5 DEF Answered

(* So does taking the first packet.                                        *)
LEMMA ReadOut ==
  ASSUME Types, NEW b, NEW n, broker.out # << >>, b = [broker EXCEPT !.out = Tail(@)]
  PROVE  /\ OnlySubscribed(broker) => OnlySubscribed(b)
         /\ Numbered(broker, n) => Numbered(b, n)
         /\ Head(broker.out).type # "SUBACK" /\ AcksFirst(broker) => AcksFirst(b)
         /\ Head(broker.out).type # "SUBACK" /\ AckComes(broker) => AckComes(b)
<1> DEFINE s == broker.out
<1>1. s \in Seq(Packets) /\ broker \in Brokers
  BY DEF Types, Brokers
<1>2. b.out = Tail(s) /\ b.subscribed = broker.subscribed /\ b.tcp = broker.tcp
  BY <1>1 DEF Brokers
<1>3. /\ Len(b.out) \in Nat /\ Len(s) = Len(b.out) + 1 /\ s[1] = Head(s)
      /\ \A i \in 1..Len(b.out) : b.out[i] = s[i + 1]
  BY <1>1, <1>2
<1> HIDE DEF s
<1>4. \A i \in 1..Len(b.out) : i + 1 \in 1..Len(s)
  BY <1>3
<1>5. OnlySubscribed(broker) => OnlySubscribed(b)
  BY <1>2, <1>3, <1>4 DEF OnlySubscribed, s
<1>6. Numbered(broker, n) => Numbered(b, n)
  BY <1>3, <1>4 DEF Numbered, s
<1>7. ASSUME Head(s).type # "SUBACK", AcksFirst(broker) PROVE AcksFirst(b)
  <2> SUFFICES ASSUME NEW i \in 1..Len(b.out), \A j \in 1..i : b.out[j].type # "SUBACK"
               PROVE  b.out[i].type # "PUBLISH"
    BY DEF AcksFirst
  <2>1. ASSUME NEW j \in 1..(i + 1) PROVE s[j].type # "SUBACK"
    <3>1. CASE j = 1
      BY <1>3, <1>7, <3>1
    <3>2. CASE j # 1
      <4>1. j - 1 \in 1..i /\ j - 1 \in 1..Len(b.out) /\ (j - 1) + 1 = j
        BY <1>3, <3>2
      <4> QED
        BY <1>3, <4>1
    <3> QED
      BY <3>1, <3>2
  <2> QED
    BY <1>3, <1>4, <1>7, <2>1 DEF AcksFirst, s
<1>8. ASSUME Head(s).type # "SUBACK", AckComes(broker), b.tcp = "open", b.subscribed
      PROVE  \E j \in 1..Len(b.out) : b.out[j].type = "SUBACK"
  <2>1. PICK j \in 1..Len(s) : s[j].type = "SUBACK"
    BY <1>2, <1>8 DEF AckComes, s
  <2>2. j # 1 /\ j - 1 \in 1..Len(b.out) /\ b.out[j - 1] = s[j]
    BY <1>3, <1>8, <2>1
  <2> QED
    BY <2>1, <2>2
<1> QED
  BY <1>5, <1>6, <1>7, <1>8 DEF AckComes, s

(* The counters are numbers.                                               *)
LEMMA NumbersTyped ==
  ASSUME Types
  PROVE  conns \in Nat /\ fail_count \in Nat /\ MaxFail \in Nat /\ MaxFail >= 1
<1>1. conns \in Nat
  BY BoundAssumption DEF Types
<1>2. MaxFail \in Nat /\ MaxFail >= 1
  BY FailAssumption
<1>3. fail_count \in Nat
  BY DEF Types
<1> QED
  BY <1>1, <1>2, <1>3

(* The broker at the other end of a new connection.                        *)
LEMMA NewBrokerOK ==
  ASSUME NEW n
  PROVE  NewBroker \in Brokers /\ OnlySubscribed(NewBroker) /\ Numbered(NewBroker, n)
<1>1. << >> \in Seq(Packets) /\ Len(<< >>) = 0
  OBVIOUS
<1> QED
  BY <1>1 DEF NewBroker, Brokers, OnlySubscribed, Numbered

(* A broker that stops has sent what it had sent, or nothing that arrives.  *)
LEMMA StopsKeeps ==
  ASSUME Types, BrokerStops, NEW n
  PROVE  /\ broker' \in Brokers
         /\ broker'.subscribed = broker.subscribed /\ broker'.session = broker.session
         /\ OnlySubscribed(broker) => OnlySubscribed(broker')
         /\ Numbered(broker, n) => Numbered(broker', n)
         /\ AcksFirst(broker) => AcksFirst(broker')
         /\ AckComes(broker) => AckComes(broker')
<1>1. << >> \in Seq(Packets) /\ Len(<< >>) = 0 /\ broker \in Brokers
  BY DEF Types
<1>2. /\ broker' \in Brokers
      /\ broker'.subscribed = broker.subscribed /\ broker'.session = broker.session
      /\ \/ broker'.out = broker.out /\ broker'.tcp \in {broker.tcp, "fin"}
         \/ broker'.out = << >> /\ broker'.tcp = "rst"
  BY <1>1, Zenon DEF BrokerStops, Closed, Brokers
<1>3. CASE broker'.out = broker.out /\ broker'.tcp \in {broker.tcp, "fin"}
  BY <1>2, <1>3 DEF OnlySubscribed, Numbered, AcksFirst, AckComes
<1>4. CASE broker'.out = << >> /\ broker'.tcp = "rst"
  BY <1>1, <1>2, <1>4 DEF OnlySubscribed, Numbered, AcksFirst, AckComes
<1> QED
  BY <1>2, <1>3, <1>4

(* A message goes to a subscriber, behind the SUBACK.                      *)
LEMMA PublishesKeeps ==
  ASSUME Types, BrokerPublishes
  PROVE  /\ broker' \in Brokers /\ messages' \in 0..MaxMessages
         /\ broker.subscribed /\ broker'.subscribed /\ broker'.session = broker.session
         /\ Numbered(broker, messages) => Numbered(broker', messages')
         /\ AckComes(broker) => AckComes(broker')
         /\ AckComes(broker) /\ AcksFirst(broker) => AcksFirst(broker')
<1> DEFINE s == broker.out
<1>1. s \in Seq(Packets) /\ broker \in Brokers /\ Len(s) \in Nat
  BY DEF Types, Brokers
<1>2. messages' \in 0..MaxMessages /\ messages' = messages + 1 /\ messages \in Nat
  BY BoundAssumption DEF Types, BrokerPublishes
<1>3. PICK q \in Qos : broker' = [broker EXCEPT !.out =
        Append(@, [type |-> "PUBLISH", id |-> messages + 1, qos |-> q])]
  BY Zenon DEF BrokerPublishes
<1> DEFINE p == [type |-> "PUBLISH", id |-> messages + 1, qos |-> q]
<1>4. p \in Packets
  BY <1>2, QosAssumption DEF Packets, PacketTypes
<1>5. Append(s, p) \in Seq(Packets)
  BY <1>1, <1>4
<1>6. /\ broker' \in Brokers /\ broker'.out = Append(s, p) /\ broker'.tcp = broker.tcp
      /\ broker'.subscribed = broker.subscribed /\ broker'.session = broker.session
  BY <1>1, <1>3, <1>5, Zenon DEF Brokers
<1>7. broker.subscribed /\ broker.tcp = "open"
  BY DEF BrokerPublishes
<1>8. /\ Len(broker'.out) = Len(s) + 1 /\ broker'.out[Len(s) + 1] = p
      /\ \A i \in 1..Len(s) : broker'.out[i] = s[i]
  BY <1>1, <1>4, <1>6
<1>9. p.id = messages'
  BY <1>2
<1> HIDE DEF s, p
<1>10. \A i \in 1..Len(broker'.out) : i \in 1..Len(s) \/ i = Len(s) + 1
  BY <1>1, <1>8
<1>11. ASSUME Numbered(broker, messages) PROVE Numbered(broker', messages')
  <2>1. 1..messages \subseteq 1..messages' /\ messages' \in 1..messages'
    BY <1>2
  <2> QED
    BY <1>8, <1>9, <1>10, <1>11, <2>1, Zenon DEF Numbered, s
<1>12. ASSUME AckComes(broker)
       PROVE  \E j \in 1..Len(s) : /\ s[j].type = "SUBACK" /\ j \in 1..Len(broker'.out)
                                   /\ broker'.out[j].type = "SUBACK"
  <2>1. PICK j \in 1..Len(s) : s[j].type = "SUBACK"
    BY <1>7, <1>12 DEF AckComes, s
  <2> QED
    BY <1>1, <1>8, <2>1
<1>13. ASSUME AckComes(broker), AcksFirst(broker), NEW i \in 1..Len(broker'.out),
              \A k \in 1..i : broker'.out[k].type # "SUBACK"
       PROVE  broker'.out[i].type # "PUBLISH"
  <2>1. PICK j \in 1..Len(s) : broker'.out[j].type = "SUBACK"
    BY <1>12, <1>13
  <2>2. i < j
    BY <1>1, <1>8, <1>13, <2>1
  <2>3. i \in 1..Len(s) /\ \A k \in 1..i : k \in 1..Len(s) /\ s[k] = broker'.out[k]
    BY <1>1, <1>8, <2>2
  <2>4. i \in 1..i
    BY <2>3
  <2> QED
    BY <1>13, <2>3, <2>4, ZenonT(60) DEF AcksFirst, s
<1> QED
  BY <1>2, <1>6, <1>7, <1>11, <1>12, <1>13 DEF AcksFirst, AckComes

(* What a write that returns leaves of the invariant, whichever thread      *)
(* makes it and whatever the buffer holds.                                 *)
LEMMA WriteKeeps ==
  ASSUME IInv, NEW p, Written(p) \/ Unwritten
  PROVE  /\ broker.subscribed => broker'.subscribed
         /\ my_socket = "broker" /\ broker'.subscribed =>
              broker.subscribed \/ (buf.type = "SUBSCRIBE" /\ broker.session)
         /\ my_socket = "broker" /\ broker'.session => broker.session \/ buf.type = "CONNECT"
         /\ OnlySubscribed(broker') /\ Numbered(broker', messages)
         /\ AcksFirst(broker) => AcksFirst(broker')
         /\ AckComes(broker) => AckComes(broker')
         /\ acked' \subseteq delivered
<1>1. Wrote
  BY WriteEffect DEF IInv
<1>2. CASE UNCHANGED <<broker, acked>> /\ my_socket # "broker"
  BY <1>2 DEF IInv, Session, Messages
<1>3. CASE Answered(broker', buf) /\ acked' = acked \cup AckOf(buf)
  <2>1. acked' \subseteq delivered
    BY <1>3, Zenon DEF IInv, Messages, AckOf
  <2>2. /\ OnlySubscribed(broker') /\ Numbered(broker', messages)
        /\ AcksFirst(broker) => AcksFirst(broker')
        /\ AckComes(broker) => AckComes(broker')
    BY <1>3, AnsweredOut DEF IInv, Session, Messages
  <2> QED
    BY <1>3, <2>1, <2>2 DEF Answered
<1> QED
  BY <1>1, <1>2, <1>3 DEF Wrote

(* The flags stay flags.                                                   *)
LEMMA FlagsStep ==
  ASSUME IInv, [Next]_vars
  PROVE  Flags'
<1> USE DEF IInv, Flags, client, counters
<1>1. CASE NewNetwork
  BY <1>1 DEF NewNetwork
<1>2. CASE ConnectNetworkFails
  BY <1>2 DEF ConnectNetworkFails
<1>3. CASE ConnectNetwork
  BY <1>3, Zenon DEF ConnectNetwork
<1>4. CASE SerializeConnect
  BY <1>4, Zenon DEF SerializeConnect
<1>5. CASE SerializeSubscribe
  BY <1>5, Zenon DEF SerializeSubscribe
<1>6. CASE SerializeDisconnect
  BY <1>6, Zenon DEF SerializeDisconnect
<1>7. CASE SendCommand("send CONNECT", "CONNECT")
  BY <1>7, WriteEffect, Zenon DEF SendCommand, Types, Wrote
<1>8. CASE SendCommand("send SUBSCRIBE", "SUBSCRIBE")
  BY <1>8, WriteEffect, Zenon DEF SendCommand, Types, Wrote
<1>9. CASE SendDisconnect
  BY <1>9, WriteEffect, Zenon DEF SendDisconnect, Types, Wrote
<1>10. CASE Yield
  BY <1>10 DEF Yield
<1>11. CASE ReadNothing
  BY <1>11 DEF ReadNothing
<1>12. CASE ReadClosed
  BY <1>12 DEF ReadClosed
<1>13. CASE ReadPacket
  BY <1>13, Zenon DEF ReadPacket, Arrived, Pong, OtherPacket
<1>14. CASE SendAck
  BY <1>14, WriteEffect, Zenon DEF SendAck, Types, Wrote
<1>15. CASE KeepAlive
  BY <1>15, ZenonT(60) DEF KeepAlive
<1>16. CASE SerializePing
  BY <1>16, Zenon DEF SerializePing
<1>17. CASE SendPing
  BY <1>17, WriteEffect, Zenon DEF SendPing, Types, Wrote
<1>18. CASE YieldReturns
  BY <1>18 DEF YieldReturns
<1>19. CASE Connected
  BY <1>19 DEF Connected
<1>20. CASE Subscribed
  BY <1>20 DEF Subscribed
<1>21. CASE WaitforReturns
  BY <1>21 DEF WaitforReturns
<1>22. CASE Publish
  BY <1>22 DEF Publish
<1>23. CASE SerializePublish
  BY <1>23 DEF SerializePublish
<1>24. CASE SendPublish
  BY <1>24, WriteEffect DEF SendPublish, Types, Wrote
<1>25. CASE Killed
  BY <1>25, Zenon DEF Killed
<1>26. CASE PingTimerExpires
  BY <1>26 DEF PingTimerExpires
<1>27. CASE BrokerStops
  BY <1>27 DEF BrokerStops
<1>28. CASE BrokerPublishes
  BY <1>28 DEF BrokerPublishes
<1>29. CASE UNCHANGED vars
  BY <1>29 DEF vars
<1> QED
  BY <1>1, <1>2, <1>3, <1>4, <1>5, <1>6, <1>7, <1>8, <1>9, <1>10,
     <1>11, <1>12, <1>13, <1>14, <1>15, <1>16, <1>17, <1>18, <1>19, <1>20,
     <1>21, <1>22, <1>23, <1>24, <1>25, <1>26, <1>27, <1>28, <1>29, Zenon
  DEF Next, Cloud, Main

(* The other variables keep their types.                                   *)
LEMMA TypesStep ==
  ASSUME IInv, [Next]_vars
  PROVE  Types'
<1> USE DEF IInv, Types, client, counters, CloudAt
<1>1. CASE NewNetwork
  BY <1>1 DEF NewNetwork
<1>2. CASE ConnectNetworkFails
  BY <1>2 DEF ConnectNetworkFails
<1>3. CASE ConnectNetwork
  <2>1. conns' \in 0..MaxConns
    BY <1>3, BoundAssumption DEF ConnectNetwork, Counts
  <2> QED
    BY <1>3, <2>1, NewBrokerOK DEF ConnectNetwork
<1>4. CASE SerializeConnect
  BY <1>4, PacketsTyped, Zenon DEF SerializeConnect, PacketTypes
<1>5. CASE SerializeSubscribe
  BY <1>5, PacketsTyped, Zenon DEF SerializeSubscribe, PacketTypes
<1>6. CASE SerializeDisconnect
  BY <1>6, PacketsTyped, Zenon DEF SerializeDisconnect, PacketTypes
<1>7. CASE SendCommand("send CONNECT", "CONNECT")
  BY <1>7, PacketsTyped, WriteEffect, Zenon DEF SendCommand, Wrote, Answered, PacketTypes
<1>8. CASE SendCommand("send SUBSCRIBE", "SUBSCRIBE")
  BY <1>8, PacketsTyped, WriteEffect, Zenon DEF SendCommand, Wrote, Answered, PacketTypes
<1>9. CASE SendDisconnect
  BY <1>9, PacketsTyped, WriteEffect, Zenon DEF SendDisconnect, Wrote, Answered, PacketTypes
<1>10. CASE Yield
  BY <1>10 DEF Yield
<1>11. CASE ReadNothing
  BY <1>11, PacketsTyped DEF ReadNothing, PacketTypes
<1>12. CASE ReadClosed
  BY <1>12, PacketsTyped DEF ReadClosed, PacketTypes
<1>13. CASE ReadPacket
  <2>1. /\ got' \in Packets /\ Ack(got') \in Packets
        /\ broker' \in Brokers
    BY <1>13, ReadTyped DEF ReadPacket
  <2>2. fail_count' \in Nat /\ buf' \in Packets /\ cloud' \in CloudAt
    <3>1. CASE Arrived(got')
      BY <2>1, <3>1, Zenon DEF Arrived
    <3>2. CASE Pong(got')
      BY <3>2, Zenon DEF Pong
    <3>3. CASE OtherPacket(got')
      BY <3>3, Zenon DEF OtherPacket
    <3> QED
      BY <1>13, <3>1, <3>2, <3>3, Zenon DEF ReadPacket
  <2> QED
    BY <1>13, <2>1, <2>2, Zenon DEF ReadPacket
<1>14. CASE SendAck
  BY <1>14, PacketsTyped, WriteEffect, ZenonT(60) DEF SendAck, Wrote, Answered, PacketTypes
<1>15. CASE KeepAlive
  BY <1>15, PacketsTyped DEF KeepAlive, PacketTypes
<1>16. CASE SerializePing
  BY <1>16, PacketsTyped, Zenon DEF SerializePing, PacketTypes
<1>17. CASE SendPing
  BY <1>17, PacketsTyped, WriteEffect, ZenonT(60) DEF SendPing, Wrote, Answered, PacketTypes
<1>18. CASE YieldReturns
  BY <1>18 DEF YieldReturns
<1>19. CASE Connected
  BY <1>19 DEF Connected
<1>20. CASE Subscribed
  BY <1>20 DEF Subscribed
<1>21. CASE WaitforReturns
  BY <1>21, Zenon DEF WaitforReturns
<1>22. CASE Publish
  <2>1. publishes' \in 0..MaxPublishes
    <3> HIDE DEF client, counters, CloudAt
    <3> QED
      BY <1>22, BoundAssumption DEF Publish
  <2> QED
    BY <1>22, <2>1, ZenonT(60) DEF Publish
<1>23. CASE SerializePublish
  BY <1>23, PacketsTyped, ZenonT(60) DEF SerializePublish, PacketTypes
<1>24. CASE SendPublish
  BY <1>24, PacketsTyped, WriteEffect, ZenonT(60) DEF SendPublish, Wrote, Answered, PacketTypes
<1>25. CASE Killed
  BY <1>25, Zenon DEF Killed
<1>26. CASE PingTimerExpires
  BY <1>26, ZenonT(60) DEF PingTimerExpires
<1>27. CASE BrokerStops
  <2>1. broker' \in Brokers
    BY <1>27, StopsKeeps, Zenon
  <2> QED
    BY <1>27, <2>1, ZenonT(60) DEF BrokerStops
<1>28. CASE BrokerPublishes
  <2>1. broker' \in Brokers /\ messages' \in 0..MaxMessages
    BY <1>28, PublishesKeeps, Zenon
  <2> QED
    BY <1>28, <2>1, ZenonT(60) DEF BrokerPublishes
<1>29. CASE UNCHANGED vars
  BY <1>29, ZenonT(60) DEF vars
<1> QED
  BY <1>1, <1>2, <1>3, <1>4, <1>5, <1>6, <1>7, <1>8, <1>9, <1>10,
     <1>11, <1>12, <1>13, <1>14, <1>15, <1>16, <1>17, <1>18, <1>19, <1>20,
     <1>21, <1>22, <1>23, <1>24, <1>25, <1>26, <1>27, <1>28, <1>29, ZenonT(60)
  DEF Next, Cloud, Main

(* Where the threads are goes on agreeing with what they believe.          *)
LEMMA PlacesStep ==
  ASSUME IInv, [Next]_vars
  PROVE  Places'
<1> USE DEF IInv, Flags, Types, Places, Cycle, AfterRead, Connecting, Subscribing, client, counters
<1>1. CASE NewNetwork
  BY <1>1 DEF NewNetwork
<1>2. CASE ConnectNetworkFails
  BY <1>2 DEF ConnectNetworkFails
<1>3. CASE ConnectNetwork
  BY <1>3 DEF ConnectNetwork
<1>4. CASE SerializeConnect
  BY <1>4, Zenon DEF SerializeConnect
<1>5. CASE SerializeSubscribe
  BY <1>5, Zenon DEF SerializeSubscribe
<1>6. CASE SerializeDisconnect
  BY <1>6, Zenon DEF SerializeDisconnect
<1>7. CASE SendCommand("send CONNECT", "CONNECT")
  BY <1>7, Zenon DEF SendCommand, Written, Unwritten
<1>8. CASE SendCommand("send SUBSCRIBE", "SUBSCRIBE")
  BY <1>8, Zenon DEF SendCommand, Written, Unwritten
<1>9. CASE SendDisconnect
  BY <1>9, Zenon DEF SendDisconnect, Written, Unwritten
<1>10. CASE Yield
  <2>1. my_socket = "broker"
    BY <1>10 DEF Yield, Session
  <2> QED
    BY <1>10, <2>1 DEF Yield
<1>11. CASE ReadNothing
  BY <1>11 DEF ReadNothing
<1>12. CASE ReadClosed
  BY <1>12 DEF ReadClosed
<1>13. CASE ReadPacket
  <2>1. /\ cloud' \in AfterRead /\ isconnected' = isconnected
        /\ cloud' = "send ack" => got'.type = "PUBLISH"
    BY <1>13, Zenon DEF ReadPacket, Arrived, Pong, OtherPacket
  <2> QED
    BY <1>13, <2>1, Zenon DEF ReadPacket
<1>14. CASE SendAck
  <2>1. due' => due
    BY <1>14, Zenon DEF SendAck, Written, Unwritten
  <2> QED
    BY <1>14, <2>1, Zenon DEF SendAck
<1>15. CASE KeepAlive
  BY <1>15 DEF KeepAlive
<1>16. CASE SerializePing
  BY <1>16, Zenon DEF SerializePing
<1>17. CASE SendPing
  BY <1>17, Zenon DEF SendPing, Written, Unwritten
<1>18. CASE YieldReturns
  BY <1>18 DEF YieldReturns
<1>19. CASE Connected
  BY <1>19 DEF Connected
<1>20. CASE Subscribed
  BY <1>20 DEF Subscribed
<1>21. CASE WaitforReturns
  BY <1>21, Zenon DEF WaitforReturns
<1>22. CASE Publish
  BY <1>22, Zenon DEF Publish
<1>23. CASE SerializePublish
  BY <1>23, Zenon DEF SerializePublish
<1>24. CASE SendPublish
  <2>1. due' => due
    BY <1>24, Zenon DEF SendPublish, Written, Unwritten
  <2> QED
    BY <1>24, <2>1, Zenon DEF SendPublish
<1>25. CASE Killed
  BY <1>25, Zenon DEF Killed
<1>26. CASE PingTimerExpires
  BY <1>26, Zenon DEF PingTimerExpires
<1>27. CASE BrokerStops
  BY <1>27, Zenon DEF BrokerStops
<1>28. CASE BrokerPublishes
  BY <1>28, Zenon DEF BrokerPublishes
<1>29. CASE UNCHANGED vars
  BY <1>29, ZenonT(60) DEF vars
<1> QED
  BY <1>1, <1>2, <1>3, <1>4, <1>5, <1>6, <1>7, <1>8, <1>9, <1>10,
     <1>11, <1>12, <1>13, <1>14, <1>15, <1>16, <1>17, <1>18, <1>19, <1>20,
     <1>21, <1>22, <1>23, <1>24, <1>25, <1>26, <1>27, <1>28, <1>29, Zenon
  DEF Next, Cloud, Main

(* An unanswered ping is counted at most once more than the limit a        *)
(* connection.                                                             *)
LEMMA CountsStep ==
  ASSUME IInv, [Next]_vars
  PROVE  Counts'
<1> USE DEF IInv, Types, Counts, Cycle, AfterRead, client, counters, Packet
<1>1. CASE NewNetwork
  BY <1>1, FailAssumption DEF NewNetwork
<1>2. CASE ConnectNetworkFails
  BY <1>2, FailAssumption DEF ConnectNetworkFails, Places
<1>3. CASE ConnectNetwork
  BY <1>3, FailAssumption DEF ConnectNetwork
<1>4. CASE SerializeConnect
  BY <1>4, FailAssumption, Zenon DEF SerializeConnect
<1>5. CASE SerializeSubscribe
  BY <1>5, FailAssumption, Zenon DEF SerializeSubscribe
<1>6. CASE SerializeDisconnect
  BY <1>6, FailAssumption, Zenon DEF SerializeDisconnect
<1>7. CASE SendCommand("send CONNECT", "CONNECT")
  BY <1>7, Zenon DEF SendCommand
<1>8. CASE SendCommand("send SUBSCRIBE", "SUBSCRIBE")
  BY <1>8, Zenon DEF SendCommand
<1>9. CASE SendDisconnect
  BY <1>9, Zenon DEF SendDisconnect
<1>10. CASE Yield
  BY <1>10, FailAssumption DEF Yield
<1>11. CASE ReadNothing
  BY <1>11, FailAssumption DEF ReadNothing
<1>12. CASE ReadClosed
  BY <1>12, FailAssumption DEF ReadClosed
<1>13. CASE ReadPacket
  <2>1. cloud' \in {"send ack", "keepalive"} /\ fail_count' \in {0, fail_count}
    BY <1>13, Zenon DEF ReadPacket, Arrived, Pong, OtherPacket
  <2>2. conns >= 1 /\ fail_count <= MaxFail + conns - 2 /\ conns' = conns
    BY <1>13 DEF ReadPacket
  <2>3. MaxFail >= 1 /\ MaxFail \in Nat /\ conns \in Nat /\ fail_count \in Nat
    BY NumbersTyped, Zenon
  <2>4. conns >= 1 /\ fail_count' <= MaxFail + conns - 2 /\ fail_count' <= MaxFail + conns - 1
    <3> HIDE DEF IInv, Types, Counts, Cycle, AfterRead
    <3>1. CASE fail_count' = 0
      BY <2>2, <2>3, <3>1
    <3>2. CASE fail_count' = fail_count
      BY <2>2, <2>3, <3>2
    <3> QED
      BY <2>1, <3>1, <3>2, Zenon
  <2> QED
    BY <2>1, <2>2, <2>4, Zenon
<1>14. CASE SendAck
  BY <1>14, Zenon DEF SendAck
<1>15. CASE KeepAlive
  BY <1>15, FailAssumption DEF KeepAlive
<1>16. CASE SerializePing
  BY <1>16, FailAssumption, Zenon DEF SerializePing
<1>17. CASE SendPing
  BY <1>17, Zenon DEF SendPing
<1>18. CASE YieldReturns
  BY <1>18, FailAssumption DEF YieldReturns
<1>19. CASE Connected
  BY <1>19, FailAssumption DEF Connected
<1>20. CASE Subscribed
  BY <1>20, FailAssumption DEF Subscribed
<1>21. CASE WaitforReturns
  BY <1>21, FailAssumption, Zenon DEF WaitforReturns, Places
<1>22. CASE Publish
  BY <1>22, FailAssumption, ZenonT(60) DEF Publish
<1>23. CASE SerializePublish
  BY <1>23, FailAssumption, Zenon DEF SerializePublish
<1>24. CASE SendPublish
  BY <1>24, Zenon DEF SendPublish
<1>25. CASE Killed
  BY <1>25, FailAssumption, Zenon DEF Killed
<1>26. CASE PingTimerExpires
  BY <1>26, FailAssumption, Zenon DEF PingTimerExpires
<1>27. CASE BrokerStops
  BY <1>27, FailAssumption, Zenon DEF BrokerStops
<1>28. CASE BrokerPublishes
  BY <1>28, FailAssumption, ZenonT(60) DEF BrokerPublishes
<1>29. CASE UNCHANGED vars
  BY <1>29, ZenonT(60) DEF vars
<1> QED
  BY <1>1, <1>2, <1>3, <1>4, <1>5, <1>6, <1>7, <1>8, <1>9, <1>10,
     <1>11, <1>12, <1>13, <1>14, <1>15, <1>16, <1>17, <1>18, <1>19, <1>20,
     <1>21, <1>22, <1>23, <1>24, <1>25, <1>26, <1>27, <1>28, <1>29, ZenonT(60)
  DEF Next, Cloud, Main

(* Only a SUBSCRIBE of this connection subscribes.                         *)
LEMMA SessionStep ==
  ASSUME IInv, [Next]_vars
  PROVE  Session'
<1> USE DEF IInv, Flags, Types, Places, Session, SubackRead, Connecting, Subscribing, Cycle, AfterRead,
           client, counters, Packet
<1>1. CASE NewNetwork
  BY <1>1 DEF NewNetwork
<1>2. CASE ConnectNetworkFails
  BY <1>2 DEF ConnectNetworkFails
<1>3. CASE ConnectNetwork
  <2>1. OnlySubscribed(NewBroker) /\ ~ NewBroker.subscribed /\ ~ NewBroker.session
    BY NewBrokerOK, ZenonT(60) DEF NewBroker
  <2> QED
    BY <1>3, <2>1 DEF ConnectNetwork
<1>4. CASE SerializeConnect
  BY <1>4, ZenonT(60) DEF SerializeConnect
<1>5. CASE SerializeSubscribe
  BY <1>5, ZenonT(60) DEF SerializeSubscribe
<1>6. CASE SerializeDisconnect
  BY <1>6, ZenonT(60) DEF SerializeDisconnect
<1>7. CASE SendCommand("send CONNECT", "CONNECT")
  BY <1>7, WriteKeeps, ZenonT(60) DEF SendCommand
<1>8. CASE SendCommand("send SUBSCRIBE", "SUBSCRIBE")
  BY <1>8, WriteKeeps, ZenonT(60) DEF SendCommand
<1>9. CASE SendDisconnect
  BY <1>9, WriteKeeps, ZenonT(60) DEF SendDisconnect
<1>10. CASE Yield
  BY <1>10 DEF Yield
<1>11. CASE ReadNothing
  BY <1>11 DEF ReadNothing
<1>12. CASE ReadClosed
  BY <1>12 DEF ReadClosed
<1>13. CASE ReadPacket
  <2>1. OnlySubscribed(broker') /\ broker'.subscribed = broker.subscribed
    BY <1>13, ReadOut, Zenon DEF ReadPacket, Brokers
  <2>2. got'.type = "SUBACK" => broker.subscribed
    BY <1>13 DEF ReadPacket, OnlySubscribed, Brokers
  <2>3. /\ isconnected' = isconnected /\ handler' = handler /\ cloud' \in AfterRead
    BY <1>13, Zenon DEF ReadPacket, Arrived, Pong, OtherPacket
  <2>4. buf' = buf \/ buf'.type # "SUBSCRIBE"
    <3>1. CASE Arrived(got')
      <4>1. Ack(got').type # "SUBSCRIBE"
        BY <1>13, ReadTyped DEF ReadPacket, Ack, Packets
      <4> QED
        BY <3>1, <4>1, Zenon DEF Arrived
    <3>2. CASE Pong(got') \/ OtherPacket(got')
      BY <3>2, ZenonT(60) DEF Pong, OtherPacket
    <3> QED
      BY <1>13, <3>1, <3>2 DEF ReadPacket
  <2> QED
    BY <1>13, <2>1, <2>2, <2>3, <2>4, Zenon DEF ReadPacket
<1>14. CASE SendAck
  <2>1. CASE Written(Ack(got)) /\ cloud' = "keepalive" /\ UNCHANGED got
    BY <1>14, <2>1, WriteKeeps, ZenonT(60) DEF SendAck
  <2>2. CASE cloud' = "return" /\ got' = Packet("FAILURE") /\ UNCHANGED broker
    BY <1>14, <2>2, ZenonT(60) DEF SendAck
  <2> QED
    BY <1>14, <2>1, <2>2, ZenonT(60) DEF SendAck
<1>15. CASE KeepAlive
  BY <1>15 DEF KeepAlive
<1>16. CASE SerializePing
  BY <1>16, ZenonT(60) DEF SerializePing
<1>17. CASE SendPing
  BY <1>17, WriteKeeps, ZenonT(60) DEF SendPing
<1>18. CASE YieldReturns
  BY <1>18 DEF YieldReturns
<1>19. CASE Connected
  BY <1>19 DEF Connected
<1>20. CASE Subscribed
  BY <1>20 DEF Subscribed
<1>21. CASE WaitforReturns
  BY <1>21, ZenonT(60) DEF WaitforReturns
<1>22. CASE Publish
  BY <1>22, ZenonT(60) DEF Publish
<1>23. CASE SerializePublish
  BY <1>23, ZenonT(60) DEF SerializePublish
<1>24. CASE SendPublish
  BY <1>24, WriteKeeps, ZenonT(60) DEF SendPublish
<1>25. CASE Killed
  BY <1>25, ZenonT(60) DEF Killed
<1>26. CASE PingTimerExpires
  BY <1>26, Zenon DEF PingTimerExpires
<1>27. CASE BrokerStops
  BY <1>27, StopsKeeps, Zenon DEF BrokerStops
<1>28. CASE BrokerPublishes
  <2>1. OnlySubscribed(broker')
    BY <1>28, PublishesKeeps, ZenonT(60) DEF OnlySubscribed
  <2> QED
    BY <1>28, <2>1, PublishesKeeps, ZenonT(60) DEF BrokerPublishes
<1>29. CASE UNCHANGED vars
  BY <1>29, ZenonT(60) DEF vars
<1> QED
  BY <1>1, <1>2, <1>3, <1>4, <1>5, <1>6, <1>7, <1>8, <1>9, <1>10,
     <1>11, <1>12, <1>13, <1>14, <1>15, <1>16, <1>17, <1>18, <1>19, <1>20,
     <1>21, <1>22, <1>23, <1>24, <1>25, <1>26, <1>27, <1>28, <1>29, ZenonT(60)
  DEF Next, Cloud, Main

(* A message that is read has its handler: the acknowledgement that fills the *)
(* buffer is of one that was delivered.                                    *)
LEMMA MessagesStep ==
  ASSUME IInv, [Next]_vars
  PROVE  Messages'
<1> USE DEF IInv, Types, Messages, client, counters, Packet
<1>1. CASE NewNetwork
  BY <1>1 DEF NewNetwork
<1>2. CASE ConnectNetworkFails
  BY <1>2 DEF ConnectNetworkFails
<1>3. CASE ConnectNetwork
  BY <1>3, NewBrokerOK DEF ConnectNetwork
<1>4. CASE SerializeConnect
  BY <1>4, Zenon DEF SerializeConnect
<1>5. CASE SerializeSubscribe
  BY <1>5, Zenon DEF SerializeSubscribe
<1>6. CASE SerializeDisconnect
  BY <1>6, ZenonT(60) DEF SerializeDisconnect
<1>7. CASE SendCommand("send CONNECT", "CONNECT")
  BY <1>7, WriteKeeps, ZenonT(60) DEF SendCommand
<1>8. CASE SendCommand("send SUBSCRIBE", "SUBSCRIBE")
  BY <1>8, WriteKeeps, ZenonT(60) DEF SendCommand
<1>9. CASE SendDisconnect
  BY <1>9, WriteKeeps, Zenon DEF SendDisconnect
<1>10. CASE Yield
  BY <1>10 DEF Yield
<1>11. CASE ReadNothing
  BY <1>11 DEF ReadNothing
<1>12. CASE ReadClosed
  BY <1>12 DEF ReadClosed
<1>13. CASE ReadPacket
  <2>1. Numbered(broker', messages)
    BY <1>13, ReadOut DEF ReadPacket
  <2>2. ASSUME got'.type = "PUBLISH" PROVE got'.id \in 1..messages /\ handler
    <3>1. broker.out \in Seq(Packets) /\ Len(broker.out) >= 1 /\ got' = broker.out[1]
      BY <1>13 DEF ReadPacket, Brokers
    <3>2. got'.id \in 1..messages
      BY <2>2, <3>1 DEF Numbered
    <3>3. broker.subscribed
      BY <2>2, <3>1 DEF Session, OnlySubscribed
    <3>4. caller # "CONNECT"
      BY <1>13, <3>3 DEF ReadPacket, Session, Places, Connecting, Cycle, AfterRead
    <3>5. caller # "SUBSCRIBE"
      <4>1. ASSUME caller = "SUBSCRIBE" PROVE AcksFirst(broker)
        BY <1>13, <4>1 DEF ReadPacket, SubackFirst, Subscribing, SubackRead, Cycle, AfterRead
      <4> QED
        BY <2>2, <3>1, <4>1 DEF AcksFirst
    <3> QED
      BY <1>13, <3>2, <3>4, <3>5 DEF ReadPacket, Places, Session, Cycle, AfterRead
  <2>3. /\ delivered \subseteq delivered' /\ delivered' \subseteq 1..messages
        /\ buf'.type \in {"PUBACK", "PUBREC"} => buf'.id \in delivered'
    <3>1. CASE Arrived(got')
      <4>1. delivered' = delivered \cup {got'.id} /\ (buf' = buf \/ buf' = Ack(got'))
        BY <2>2, <3>1, Zenon DEF Arrived
      <4>2. Ack(got').id = got'.id
        BY <1>13, ReadTyped DEF ReadPacket, Ack, Packets
      <4> QED
        BY <2>2, <3>1, <4>1, <4>2, Zenon DEF Arrived
    <3>2. CASE Pong(got') \/ OtherPacket(got')
      BY <3>2, ZenonT(60) DEF Pong, OtherPacket
    <3> QED
      BY <1>13, <3>1, <3>2 DEF ReadPacket
  <2> QED
    BY <1>13, <2>1, <2>3 DEF ReadPacket
<1>14. CASE SendAck
  BY <1>14, WriteKeeps, Zenon DEF SendAck
<1>15. CASE KeepAlive
  BY <1>15 DEF KeepAlive
<1>16. CASE SerializePing
  BY <1>16, Zenon DEF SerializePing
<1>17. CASE SendPing
  BY <1>17, WriteKeeps, Zenon DEF SendPing
<1>18. CASE YieldReturns
  BY <1>18 DEF YieldReturns
<1>19. CASE Connected
  BY <1>19 DEF Connected
<1>20. CASE Subscribed
  BY <1>20 DEF Subscribed
<1>21. CASE WaitforReturns
  BY <1>21 DEF WaitforReturns
<1>22. CASE Publish
  BY <1>22 DEF Publish
<1>23. CASE SerializePublish
  BY <1>23 DEF SerializePublish
<1>24. CASE SendPublish
  BY <1>24, WriteKeeps DEF SendPublish
<1>25. CASE Killed
  BY <1>25, Zenon DEF Killed
<1>26. CASE PingTimerExpires
  BY <1>26 DEF PingTimerExpires
<1>27. CASE BrokerStops
  BY <1>27, StopsKeeps DEF BrokerStops
<1>28. CASE BrokerPublishes
  <2>1. delivered \subseteq 1..messages'
    BY <1>28 DEF BrokerPublishes
  <2> QED
    BY <1>28, <2>1, PublishesKeeps, ZenonT(60) DEF BrokerPublishes
<1>29. CASE UNCHANGED vars
  BY <1>29 DEF vars
<1> QED
  BY <1>1, <1>2, <1>3, <1>4, <1>5, <1>6, <1>7, <1>8, <1>9, <1>10,
     <1>11, <1>12, <1>13, <1>14, <1>15, <1>16, <1>17, <1>18, <1>19, <1>20,
     <1>21, <1>22, <1>23, <1>24, <1>25, <1>26, <1>27, <1>28, <1>29, ZenonT(60)
  DEF Next, Cloud, Main

(* While MQTTSubscribe waits, no message overtakes the SUBACK.             *)
LEMMA SubackFirstStep ==
  ASSUME IInv, [Next]_vars
  PROVE  SubackFirst'
<1> USE DEF IInv, Flags, Types, Places, SubackFirst, Subscribing, SubackRead, Cycle, AfterRead, client,
           counters, Packet
<1>1. CASE NewNetwork
  BY <1>1 DEF NewNetwork
<1>2. CASE ConnectNetworkFails
  BY <1>2 DEF ConnectNetworkFails
<1>3. CASE ConnectNetwork
  BY <1>3 DEF ConnectNetwork
<1>4. CASE SerializeConnect
  BY <1>4, ZenonT(60) DEF SerializeConnect
<1>5. CASE SerializeSubscribe
  <2>1. ~ broker.subscribed /\ OnlySubscribed(broker)
    BY <1>5, ZenonT(60) DEF SerializeSubscribe, Session
  <2>2. AcksFirst(broker) /\ AckComes(broker)
    BY <2>1, ZenonT(60) DEF OnlySubscribed, AcksFirst, AckComes
  <2> QED
    BY <1>5, <2>2, ZenonT(60) DEF SerializeSubscribe
<1>6. CASE SerializeDisconnect
  BY <1>6, ZenonT(60) DEF SerializeDisconnect
<1>7. CASE SendCommand("send CONNECT", "CONNECT")
  BY <1>7, WriteKeeps, ZenonT(60) DEF SendCommand
<1>8. CASE SendCommand("send SUBSCRIBE", "SUBSCRIBE")
  BY <1>8, WriteKeeps, ZenonT(60) DEF SendCommand
<1>9. CASE SendDisconnect
  BY <1>9, WriteKeeps, ZenonT(60) DEF SendDisconnect
<1>10. CASE Yield
  BY <1>10 DEF Yield
<1>11. CASE ReadNothing
  BY <1>11 DEF ReadNothing
<1>12. CASE ReadClosed
  BY <1>12 DEF ReadClosed
<1>13. CASE ReadPacket
  <2>1. cloud' \in AfterRead
    BY <1>13, Zenon DEF ReadPacket, Arrived, Pong, OtherPacket
  <2>2. got'.type # "SUBACK" /\ caller = "SUBSCRIBE" => AcksFirst(broker') /\ AckComes(broker')
    BY <1>13, ReadOut, ZenonT(60) DEF ReadPacket
  <2> QED
    BY <1>13, <2>1, <2>2, Zenon DEF ReadPacket
<1>14. CASE SendAck
  BY <1>14, WriteKeeps, Zenon DEF SendAck
<1>15. CASE KeepAlive
  BY <1>15 DEF KeepAlive
<1>16. CASE SerializePing
  BY <1>16, ZenonT(60) DEF SerializePing
<1>17. CASE SendPing
  BY <1>17, WriteKeeps, ZenonT(60) DEF SendPing
<1>18. CASE YieldReturns
  BY <1>18 DEF YieldReturns
<1>19. CASE Connected
  BY <1>19 DEF Connected
<1>20. CASE Subscribed
  BY <1>20 DEF Subscribed
<1>21. CASE WaitforReturns
  BY <1>21, ZenonT(60) DEF WaitforReturns
<1>22. CASE Publish
  BY <1>22, ZenonT(60) DEF Publish
<1>23. CASE SerializePublish
  BY <1>23, ZenonT(60) DEF SerializePublish
<1>24. CASE SendPublish
  BY <1>24, WriteKeeps, ZenonT(60) DEF SendPublish
<1>25. CASE Killed
  BY <1>25, ZenonT(60) DEF Killed
<1>26. CASE PingTimerExpires
  BY <1>26, Zenon DEF PingTimerExpires
<1>27. CASE BrokerStops
  BY <1>27, StopsKeeps, Zenon DEF BrokerStops
<1>28. CASE BrokerPublishes
  BY <1>28, PublishesKeeps, ZenonT(60) DEF BrokerPublishes
<1>29. CASE UNCHANGED vars
  BY <1>29, Zenon DEF vars
<1> QED
  BY <1>1, <1>2, <1>3, <1>4, <1>5, <1>6, <1>7, <1>8, <1>9, <1>10,
     <1>11, <1>12, <1>13, <1>14, <1>15, <1>16, <1>17, <1>18, <1>19, <1>20,
     <1>21, <1>22, <1>23, <1>24, <1>25, <1>26, <1>27, <1>28, <1>29, Zenon
  DEF Next, Cloud, Main

(* The invariant holds at the start and every step keeps it.               *)
THEOREM InvariantHolds == Spec => []IInv
<1>1. Init => IInv
  <2> SUFFICES ASSUME Init PROVE IInv
    OBVIOUS
  <2>1. broker \in Brokers /\ broker.out = << >> /\ Len(<< >>) = 0
    BY NewBrokerOK, Zenon DEF Init, Brokers, NewBroker
  <2>2. Flags
    BY Zenon DEF Init, Flags
  <2>3. Types
    BY <2>1, PacketsTyped, BoundAssumption DEF Init, Types, CloudAt, PacketTypes
  <2>4. Places
    BY DEF Init, Places, Cycle, AfterRead, Connecting, Subscribing
  <2>5. Session
    BY <2>1 DEF Init, Session, SubackRead, Connecting, Cycle, AfterRead, OnlySubscribed
  <2>6. SubackFirst
    BY DEF Init, SubackFirst, Subscribing, Cycle, AfterRead
  <2>7. Messages
    BY <2>1 DEF Init, Messages, Numbered, Packet
  <2>8. Counts
    BY FailAssumption DEF Init, Counts, Cycle, AfterRead
  <2> QED
    BY <2>2, <2>3, <2>4, <2>5, <2>6, <2>7, <2>8 DEF IInv
<1>2. IInv /\ [Next]_vars => IInv'
  BY FlagsStep, TypesStep, PlacesStep, SessionStep, SubackFirstStep, MessagesStep, CountsStep
  DEF IInv
<1> QED
  BY <1>1, <1>2, PTL DEF Spec

(* While iot_yield is in IOT_STATUS_CONNECT the broker at the other end of  *)
(* the socket has the subscription, and the variables have their types, for *)
(* any number of connections, publications and messages (mqtt.c 111-158).  *)
THEOREM SubscribedWhenConnectedHolds == Spec => []SubscribedWhenConnected
<1>1. ASSUME IInv PROVE SubscribedWhenConnected
  <2>1. fail_count \in 0..(MaxFail + conns)
    <3>1. fail_count \in Nat /\ conns \in Nat /\ MaxFail \in Nat /\ fail_count <= MaxFail + conns - 1
      BY <1>1, NumbersTyped, Zenon DEF IInv, Counts
    <3> QED
      BY <3>1
  <2>2. broker.tcp \in {"open", "fin", "rst"}
    BY <1>1 DEF IInv, Types, Brokers
  <2>3. delivered \subseteq 1..messages /\ acked \subseteq 1..messages
    BY <1>1 DEF IInv, Messages
  <2>4. TypeOK
    BY <1>1, <2>1, <2>2, <2>3 DEF IInv, Flags, Types, TypeOK
  <2> QED
    BY <1>1, <2>4 DEF IInv, Session, SubscribedWhenConnected
<1> QED
  BY <1>1, InvariantHolds, PTL

(* A message is acknowledged only after its handler has seen it, whichever  *)
(* thread's write carries the acknowledgement (MQTTClient.c, cycle).       *)
THEOREM AckedWasDeliveredHolds == Spec => []AckedWasDelivered
<1>1. IInv => AckedWasDelivered
  BY DEF IInv, Messages, AckedWasDelivered
<1> QED
  BY <1>1, InvariantHolds, PTL
=============================================================================
