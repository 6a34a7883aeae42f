----------------------------- MODULE MqttClient -----------------------------
(***************************************************************************)
(* The MQTT client of mqtt_paho: the state machine of mqtt.c that logs in, *)
(* subscribes, keeps the connection alive and logs in again, over the      *)
(* client of MQTTClient.c and the sockets of MQTTLinux.c.                  *)
(*                                                                         *)
(* The cloud thread runs cloud_mqtt_thread; the main thread publishes.     *)
(* They share one Client, with its one send buffer, and one Network, with  *)
(* its one socket, and no lock: a packet is serialized in one step and     *)
(* written in another.  Packets arrive whole or not at all.                *)
(***************************************************************************)
EXTENDS Integers, Sequences

CONSTANTS
  MaxFail,     \* MAX_FAIL_ALLOWED
  Qos,         \* the qualities of service of the messages received
  MaxConns, MaxPublishes, MaxMessages  \* bounds

ASSUME FailAssumption == MaxFail \in Nat \ {0}
ASSUME QosAssumption == Qos \subseteq 0..2
ASSUME BoundAssumption ==
  MaxConns \in Nat /\ MaxPublishes \in Nat /\ MaxMessages \in Nat

VARIABLES
  iotstatus,         \* gateway.iotstatus
  cloud, main,       \* where the two threads are
  caller, got,       \* who called cycle, and what cycle returns
  isconnected, ping_outstanding, fail_count, handler,  \* of the Client
  due,               \* the ping_timer has expired
  buf,               \* the packet in the send buffer
  my_socket,         \* what the Network's descriptor is
  broker,            \* the other end of the connection
  conns, publishes, messages,  \* connections, publications and messages so far
  delivered, acked   \* messages given to the handler, and acknowledged

client == <<isconnected, ping_outstanding, fail_count, handler>>
counters == <<conns, publishes, messages>>
vars == <<iotstatus, cloud, main, caller, got, client, due, buf, my_socket,
          broker, counters, delivered, acked>>

Packet(t) == [type |-> t, id |-> 0, qos |-> 0]

\* A broker's end: the state of the connection ("rst": a write raises
\* SIGPIPE), whether it still answers, its session, and what it has sent.
NewBroker == [tcp |-> "open", alive |-> TRUE, session |-> FALSE,
              subscribed |-> FALSE, out |-> << >>]

Init ==
  /\ iotstatus = "LOGIN" /\ cloud = "top" /\ main = "top"
  /\ caller = "none" /\ got = Packet("NONE")
  /\ isconnected = FALSE /\ ping_outstanding = FALSE /\ fail_count = 0
  /\ handler = FALSE /\ due = TRUE /\ buf = Packet("NONE")
  /\ my_socket = "stdin" /\ broker = [NewBroker EXCEPT !.tcp = "rst"]
  /\ conns = 0 /\ publishes = 0 /\ messages = 0
  /\ delivered = {} /\ acked = {}

-----------------------------------------------------------------------------
(* The broker, as far as the client sees it                                *)

Answer(t) == [broker EXCEPT !.out = Append(@, Packet(t))]
Closed(b) == [b EXCEPT !.tcp = "fin"]

\* What becomes of the broker that receives the packet p.  It may refuse a
\* CONNECT or a SUBSCRIBE, and closes on anything else outside a session.
Received(p) ==
  CASE broker.tcp # "open" -> {[broker EXCEPT !.tcp = "rst"]}
    [] broker.tcp = "open" /\ ~ broker.alive -> {broker}
    [] OTHER ->
      CASE p.type = "CONNECT" /\ ~ broker.session ->
             {[Answer("CONNACK") EXCEPT !.session = TRUE], Answer("REFUSED")}
        [] p.type = "SUBSCRIBE" /\ broker.session ->
             {[Answer("SUBACK") EXCEPT !.subscribed = TRUE], Answer("REFUSED")}
        [] p.type = "PINGREQ" /\ broker.session -> {Answer("PINGRESP")}
        [] p.type \in {"PUBLISH", "PUBACK", "PUBREC"} /\ broker.session ->
             {broker}
        [] OTHER -> {Closed(broker)}

\* What becomes of it when the bytes are those of p in the length of
\* another packet: it may or may not see p, then closes, waits for the rest
\* of a packet for ever, or carries on.
Garbled(p) ==
  UNION {{b, Closed(b), [b EXCEPT !.alive = FALSE]} : b \in Received(p) \cup
         (IF broker.tcp = "open" THEN {broker} ELSE {})}

\* The broker falls silent, closes the connection or resets it.
BrokerStops ==
  /\ my_socket = "broker" /\ broker.tcp = "open"
  /\ broker' \in {[broker EXCEPT !.alive = FALSE], Closed(broker),
                  [broker EXCEPT !.tcp = "rst", !.out = << >>]}
  /\ broker' # broker
  /\ UNCHANGED <<iotstatus, cloud, main, caller, got, client, due, buf,
                 my_socket, counters, delivered, acked>>

BrokerPublishes ==
  /\ my_socket = "broker" /\ broker.tcp = "open" /\ broker.alive
  /\ broker.subscribed /\ messages < MaxMessages
  /\ messages' = messages + 1
  /\ \E q \in Qos : broker' = [broker EXCEPT !.out =
       Append(@, [type |-> "PUBLISH", id |-> messages + 1, qos |-> q])]
  /\ UNCHANGED <<iotstatus, cloud, main, caller, got, client, due, buf,
                 my_socket, conns, publishes, delivered, acked>>

\* keepAliveInterval goes by without a packet sent.  It is thirty times the
\* command timeout: this does not happen while a command waits.
PingTimerExpires ==
  /\ iotstatus = "CONNECT" /\ ~ due
  /\ due' = TRUE
  /\ UNCHANGED <<iotstatus, cloud, main, caller, got, client, buf, my_socket,
                 broker, counters, delivered, acked>>

-----------------------------------------------------------------------------
(* sendPacket: the thread that serialized p writes what is in the buffer   *)
(* now, in the length of p, to what the socket is now                      *)

AckOf(p) == IF p.type \in {"PUBACK", "PUBREC"} THEN {p.id} ELSE {}

\* The write succeeds, and the ping_timer starts anew.
Written(p) ==
  /\ due' = FALSE
  /\ \/ my_socket = "stdin" /\ UNCHANGED <<broker, acked>>
     \/ /\ my_socket = "broker" /\ broker.tcp # "rst"
        /\ broker' \in IF buf = p THEN Received(buf) ELSE Garbled(buf)
        /\ acked' = acked \cup AckOf(buf)

\* The write fails.
Unwritten ==
  /\ my_socket \in {"stdin", "none"}
  /\ UNCHANGED <<broker, acked, due>>

\* The write raises SIGPIPE, which nobody handles: the process ends.
BrokenPipe ==
  my_socket = "unconnected" \/ (my_socket = "broker" /\ broker.tcp = "rst")

Killed ==
  /\ BrokenPipe
  /\ \/ cloud \in {"send CONNECT", "send SUBSCRIBE", "send DISCONNECT",
                   "send PINGREQ", "send ack"}
     \/ main = "send"
  /\ cloud' = "killed" /\ main' = "killed"
  /\ UNCHANGED <<iotstatus, caller, got, client, due, buf, my_socket, broker,
                 counters, delivered, acked>>

-----------------------------------------------------------------------------
(* The cloud thread: mqtt_device_connect, MQTTDisconnect                   *)

\* mqtt_device_connect begins with NewNetwork.
NewNetwork ==
  /\ cloud = "top" /\ iotstatus = "LOGIN" /\ conns < MaxConns
  /\ my_socket' = "stdin" /\ cloud' = "network"
  /\ UNCHANGED <<iotstatus, main, caller, got, client, due, buf, broker,
                 counters, delivered, acked>>

\* No address, or no connection.
ConnectNetworkFails ==
  /\ cloud = "network"
  /\ cloud' = "top" /\ my_socket' \in {"stdin", "unconnected"}
  /\ UNCHANGED <<iotstatus, main, caller, got, client, due, buf, broker,
                 counters, delivered, acked>>

\* ConnectNetwork returns 0, also where socket() gives no descriptor, and
\* MQTTClient initialises the client: all of it but the count of failures.
ConnectNetwork ==
  /\ cloud = "network"
  /\ conns' = conns + 1
  /\ \/ my_socket' = "broker" /\ broker' = NewBroker
     \/ my_socket' = "none" /\ UNCHANGED broker
  /\ isconnected' = FALSE /\ ping_outstanding' = FALSE /\ handler' = FALSE
  /\ due' = TRUE /\ cloud' = "CONNECT"
  /\ UNCHANGED <<iotstatus, main, caller, got, fail_count, buf, publishes,
                 messages, delivered, acked>>

\* MQTTConnect, MQTTSubscribe and MQTTDisconnect fill the buffer.
SerializeConnect ==
  /\ cloud = "CONNECT"
  /\ buf' = Packet("CONNECT") /\ due' = FALSE /\ cloud' = "send CONNECT"
  /\ UNCHANGED <<iotstatus, main, caller, got, client, my_socket, broker,
                 counters, delivered, acked>>

SerializeSubscribe ==
  /\ cloud = "SUBSCRIBE"
  /\ buf' = Packet("SUBSCRIBE") /\ cloud' = "send SUBSCRIBE"
  /\ UNCHANGED <<iotstatus, main, caller, got, client, due, my_socket, broker,
                 counters, delivered, acked>>

SerializeDisconnect ==
  /\ cloud = "top" /\ iotstatus = "DROP"
  /\ buf' = Packet("DISCONNECT") /\ cloud' = "send DISCONNECT"
  /\ UNCHANGED <<iotstatus, main, caller, got, client, due, my_socket, broker,
                 counters, delivered, acked>>

\* The packet is sent and waitfor calls cycle, or the command fails.
SendCommand(at, t) ==
  /\ cloud = at
  /\ \/ Written(Packet(t)) /\ cloud' = "read" /\ caller' = t
     \/ Unwritten /\ cloud' = "top" /\ UNCHANGED caller
  /\ UNCHANGED <<iotstatus, main, got, client, buf, my_socket, counters,
                 delivered>>

\* The DISCONNECT is sent or not: iot_yield goes back to LOGIN.
SendDisconnect ==
  /\ cloud = "send DISCONNECT"
  /\ Written(Packet("DISCONNECT")) \/ Unwritten
  /\ isconnected' = FALSE /\ iotstatus' = "LOGIN" /\ cloud' = "top"
  /\ UNCHANGED <<main, caller, got, ping_outstanding, fail_count, handler,
                 buf, my_socket, counters, delivered>>

-----------------------------------------------------------------------------
(* The cloud thread: MQTTYield, waitfor and the cycle they call            *)

Yield ==
  /\ cloud = "top" /\ iotstatus = "CONNECT"
  /\ cloud' = "read" /\ caller' = "yield"
  /\ UNCHANGED <<iotstatus, main, got, client, due, buf, my_socket, broker,
                 counters, delivered, acked>>

\* readPacket times out: its -1 is no packet type, and the cycle goes on.
ReadNothing ==
  /\ cloud = "read"
  /\ broker.out = << >> /\ broker.tcp = "open"
  /\ got' = Packet("NONE") /\ cloud' = "keepalive"
  /\ UNCHANGED <<iotstatus, main, caller, client, due, buf, my_socket, broker,
                 counters, delivered, acked>>

\* readPacket returns 0: the connection is closed.
ReadClosed ==
  /\ cloud = "read"
  /\ broker.out = << >> /\ broker.tcp # "open"
  /\ got' = Packet("DISCONNECTED") /\ cloud' = "return"
  /\ UNCHANGED <<iotstatus, main, caller, client, due, buf, my_socket, broker,
                 counters, delivered, acked>>

\* The acknowledgement of the message p.
Ack(p) == [p EXCEPT !.type = IF p.qos = 1 THEN "PUBACK" ELSE "PUBREC"]

\* Mutant: a message to be acknowledged is left for later, and then forgotten.
ArrivedForgets(p) ==
  /\ p.type = "PUBLISH"
  /\ delivered' = IF handler /\ p.qos = 0 THEN delivered \cup {p.id} ELSE delivered
  /\ \/ p.qos = 0 /\ cloud' = "keepalive" /\ UNCHANGED buf
     \/ p.qos > 0 /\ cloud' = "send ack" /\ buf' = Ack(p)
  /\ UNCHANGED client

\* A message is given to its handler, if it has one, and the
\* acknowledgement of a message of quality 1 or 2 fills the buffer.
Arrived(p) ==
  /\ p.type = "PUBLISH"
  /\ delivered' = IF handler THEN delivered \cup {p.id} ELSE delivered
  /\ \/ p.qos = 0 /\ cloud' = "keepalive" /\ UNCHANGED buf
     \/ p.qos > 0 /\ cloud' = "send ack" /\ buf' = Ack(p)
  /\ UNCHANGED client

Pong(p) ==
  /\ p.type = "PINGRESP"
  /\ ping_outstanding' = FALSE /\ fail_count' = 0 /\ cloud' = "keepalive"
  /\ UNCHANGED <<isconnected, handler, buf, delivered>>

OtherPacket(p) ==
  /\ p.type \notin {"PUBLISH", "PINGRESP"}
  /\ cloud' = "keepalive"
  /\ UNCHANGED <<client, buf, delivered>>

ReadPacket ==
  /\ cloud = "read" /\ broker.out # << >>
  /\ got' = Head(broker.out)
  /\ Arrived(got') \/ Pong(got') \/ OtherPacket(got')
  /\ broker' = [broker EXCEPT !.out = Tail(@)]
  /\ UNCHANGED <<iotstatus, main, caller, due, my_socket, counters, acked>>

\* The acknowledgement is sent; or the timer of MQTTYield has expired by
\* now, nothing is sent and the cycle ends with FAILURE.
SendAck ==
  /\ cloud = "send ack"
  /\ \/ Written(Ack(got)) /\ cloud' = "keepalive" /\ UNCHANGED got
     \/ /\ cloud' = "return" /\ got' = Packet("FAILURE")
        /\ UNCHANGED <<broker, acked, due>>
  /\ UNCHANGED <<iotstatus, main, caller, client, buf, my_socket, counters,
                 delivered>>

\* Mutant: an unanswered ping is waited for once more, and never counted.
KeepAlivePatient ==
  /\ cloud = "keepalive" /\ cloud' = "return"
  /\ \/ (~ isconnected \/ ~ due) /\ UNCHANGED due
     \/ isconnected /\ due /\ ping_outstanding /\ due' = FALSE
  /\ UNCHANGED <<iotstatus, main, caller, got, client, buf, my_socket, broker,
                 counters, delivered, acked>>

\* keepalive, where the cycle ends with it: nothing is due, or the answer to
\* the last ping is.
KeepAlive ==
  /\ cloud = "keepalive" /\ cloud' = "return"
  /\ \/ (~ isconnected \/ ~ due) /\ UNCHANGED <<fail_count, due, got>>
     \/ /\ isconnected /\ due /\ ping_outstanding
        /\ fail_count' = fail_count + 1
        /\ IF fail_count' >= MaxFail
           THEN got' = Packet("DISCONNECTED") /\ UNCHANGED due
           ELSE due' = FALSE /\ UNCHANGED got
  /\ UNCHANGED <<iotstatus, main, caller, isconnected, ping_outstanding,
                 handler, buf, my_socket, broker, counters, delivered, acked>>

SerializePing ==
  /\ cloud = "keepalive"
  /\ isconnected /\ due /\ ~ ping_outstanding
  /\ buf' = Packet("PINGREQ") /\ cloud' = "send PINGREQ"
  /\ UNCHANGED <<iotstatus, main, caller, got, client, due, my_socket, broker,
                 counters, delivered, acked>>

SendPing ==
  /\ cloud = "send PINGREQ"
  /\ Written(Packet("PINGREQ"))
  /\ ping_outstanding' = TRUE /\ cloud' = "return"
  /\ UNCHANGED <<iotstatus, main, caller, got, isconnected, fail_count,
                 handler, buf, my_socket, counters, delivered>>

\* The end of MQTTYield: its time is up, or the connection is lost.
YieldReturns ==
  /\ cloud = "return" /\ caller = "yield"
  /\ cloud' = "top"
  /\ iotstatus' = IF got.type = "DISCONNECTED" THEN "DROP" ELSE iotstatus
  /\ UNCHANGED <<main, caller, got, client, due, buf, my_socket, broker,
                 counters, delivered, acked>>

\* The CONNACK: MQTTConnect succeeds and MQTTSubscribe is next.
Connected ==
  /\ cloud = "return" /\ caller = "CONNECT" /\ got.type = "CONNACK"
  /\ isconnected' = TRUE /\ cloud' = "SUBSCRIBE"
  /\ UNCHANGED <<iotstatus, main, caller, got, ping_outstanding, fail_count,
                 handler, due, buf, my_socket, broker, counters, delivered,
                 acked>>

\* Mutant: the return code 0x80 is not looked at.
SubscribedAnyhow ==
  /\ cloud = "return" /\ caller = "SUBSCRIBE" /\ got.type \in {"SUBACK", "REFUSED"}
  /\ handler' = TRUE /\ iotstatus' = "CONNECT" /\ cloud' = "top"
  /\ UNCHANGED <<main, caller, got, isconnected, ping_outstanding, fail_count,
                 due, buf, my_socket, broker, counters, delivered, acked>>

\* The SUBACK: the handler is registered and mqtt_device_connect succeeds.
Subscribed ==
  /\ cloud = "return" /\ caller = "SUBSCRIBE" /\ got.type = "SUBACK"
  /\ handler' = TRUE /\ iotstatus' = "CONNECT" /\ cloud' = "top"
  /\ UNCHANGED <<main, caller, got, isconnected, ping_outstanding, fail_count,
                 due, buf, my_socket, broker, counters, delivered, acked>>

\* Any other end of cycle: after a refusal, or when the time is up, the
\* command fails, and mqtt_device_connect with it; until then waitfor goes on.
WaitforReturns ==
  /\ cloud = "return"
  /\ \/ caller = "CONNECT" /\ got.type # "CONNACK"
     \/ caller = "SUBSCRIBE" /\ got.type # "SUBACK"
  /\ cloud' \in IF got.type \in {"REFUSED", "NONE", "DISCONNECTED"}
                THEN {"top"} ELSE {"read", "top"}
  /\ UNCHANGED <<iotstatus, main, caller, got, client, due, buf, my_socket,
                 broker, counters, delivered, acked>>

-----------------------------------------------------------------------------
(* The main thread: mqtt_data_write, of quality 0                          *)

Publish ==
  /\ main = "top" /\ publishes < MaxPublishes
  /\ isconnected
  /\ publishes' = publishes + 1 /\ main' = "PUBLISH"
  /\ UNCHANGED <<iotstatus, cloud, caller, got, client, due, buf, my_socket,
                 broker, conns, messages, delivered, acked>>

SerializePublish ==
  /\ main = "PUBLISH"
  /\ buf' = Packet("PUBLISH") /\ main' = "send"
  /\ UNCHANGED <<iotstatus, cloud, caller, got, client, due, my_socket,
                 broker, counters, delivered, acked>>

SendPublish ==
  /\ main = "send"
  /\ Written(Packet("PUBLISH")) \/ Unwritten
  /\ main' = "top"
  /\ UNCHANGED <<iotstatus, cloud, caller, got, client, buf, my_socket,
                 counters, delivered>>

-----------------------------------------------------------------------------
Cloud ==
  \/ NewNetwork \/ ConnectNetworkFails \/ ConnectNetwork
  \/ SerializeConnect \/ SerializeSubscribe \/ SerializeDisconnect
  \/ SendCommand("send CONNECT", "CONNECT")
  \/ SendCommand("send SUBSCRIBE", "SUBSCRIBE") \/ SendDisconnect
  \/ Yield \/ ReadNothing \/ ReadClosed \/ ReadPacket \/ SendAck
  \/ KeepAlive \/ SerializePing \/ SendPing
  \/ YieldReturns \/ Connected \/ Subscribed \/ WaitforReturns

Main == Publish \/ SerializePublish \/ SendPublish

Next == Cloud \/ Main \/ Killed \/ PingTimerExpires \/ BrokerStops \/ BrokerPublishes

Spec == Init /\ [][Next]_vars

\* The threads run on, and time goes by.
FairSpec == /\ Spec
            /\ WF_vars(Cloud) /\ WF_vars(Killed) /\ WF_vars(Main)
            /\ WF_vars(PingTimerExpires)

-----------------------------------------------------------------------------
CloudAt == {"top", "network", "CONNECT", "send CONNECT", "SUBSCRIBE",
            "send SUBSCRIBE", "send DISCONNECT", "read", "send ack",
            "keepalive", "send PINGREQ", "return", "killed"}

\* The variables have their types; in particular the count of unanswered
\* pings, which MQTTClient does not clear, grows by at most one a connection
\* beyond the number that drops one.
TypeOK ==
  /\ iotstatus \in {"LOGIN", "CONNECT", "DROP"}
  /\ cloud \in CloudAt /\ main \in {"top", "PUBLISH", "send", "killed"}
  /\ caller \in {"none", "CONNECT", "SUBSCRIBE", "yield"}
  /\ isconnected \in BOOLEAN /\ ping_outstanding \in BOOLEAN
  /\ handler \in BOOLEAN /\ due \in BOOLEAN
  /\ fail_count \in 0..(MaxFail + conns)
  /\ my_socket \in {"stdin", "none", "unconnected", "broker"}
  /\ broker.tcp \in {"open", "fin", "rst"}
  /\ conns \in 0..MaxConns /\ publishes \in 0..MaxPublishes
  /\ messages \in 0..MaxMessages
  /\ delivered \subseteq 1..messages /\ acked \subseteq 1..messages

\* While iot_yield is in IOT_STATUS_CONNECT the client is connected, its
\* handler is registered, and the broker at the other end of the socket it
\* reads has the subscription, whatever the main thread did to the buffer
\* and the socket while mqtt_device_connect ran (mqtt.c 111-158).
SubscribedWhenConnected ==
  /\ TypeOK
  /\ iotstatus = "CONNECT" =>
       isconnected /\ handler /\ my_socket = "broker" /\ broker.subscribed

\* A message is acknowledged only after its handler has seen it, also when
\* the acknowledgement goes out in a write of the other thread (cycle,
\* deliverMessage before MQTTSerialize_ack).
AckedWasDelivered == acked \subseteq delivered

\* A connection that the broker has closed, or on which it no longer answers,
\* is given up: iot_yield leaves IOT_STATUS_CONNECT, or a write ended the
\* process (keepalive, cycle).
LostBroker == iotstatus = "CONNECT" /\ (broker.tcp # "open" \/ ~ broker.alive)
LossIsNoticed == LostBroker ~> (iotstatus # "CONNECT" \/ cloud = "killed")

\* What the comment on waitfor says: one command at a time is in process.
OneCommand ==
  main = "send" => cloud \notin {"send CONNECT", "send SUBSCRIBE",
                                 "send DISCONNECT", "send PINGREQ", "send ack"}

\* Each write sends the packet its thread serialized.
SendsOwn == [][/\ cloud = "send PINGREQ" /\ cloud' = "return" => buf.type = "PINGREQ"
               /\ main = "send" /\ main' = "top" => buf.type = "PUBLISH"]_vars

\* A new connection starts with no unanswered pings counted.
CountsAfresh == iotstatus = "CONNECT" /\ ~ ping_outstanding => fail_count = 0

\* A broken connection does not end the process.
Survives == cloud # "killed"
=============================================================================
