-------------------------- MODULE CoapClientProofs --------------------------
(***************************************************************************)
(* Theorems about CoapClient: as long as nothing wrote to foreign memory,  *)
(* requests have slots of their own and a waiting one is woken, and an     *)
(* answer with an id used once reaches its request.                        *)
(***************************************************************************)
EXTENDS CoapClient, TLAPS, WellFoundedInduction

(* What a call knows of its request, and what a callback is doing.         *)
Rels == [code : {"content", "not found", "answered"}, resp : AnswerPackets \cup {NULL}]
Calls == [kind : {"CON", "NON", "PING", NULL}, peer : Peer \cup {NULL},
          req : 0..MaxRequests, index : -1..MaxNum, rel : Rels \cup {NULL}]
Callbacks == [pc : {"idle", "match", "expire", "give"}, pkt : AnswerPackets \cup {NULL},
              owner : Task \cup {NULL}, req : 0..MaxRequests]
Places == {"idle", "create", "send", "await", "wait", "analyse", "delete"}

Flags == clash \in BOOLEAN /\ broken \in BOOLEAN

Types ==
  /\ pc \in [Task -> Places] /\ call \in [Task -> Calls]
  /\ client \in [Task -> Clients \cup {NULL}]
  /\ m_client_handle \in [0..MaxNum -> Task \cup {NULL, Junk}]
  /\ m_rand \in Id \cup {0} /\ m_esp_sock \in Peer \cup {NULL}
  /\ up \in {"down", "up", "closing"} /\ scan \in 0..MaxNum
  /\ recv \in Callbacks /\ timer \in Callbacks
  /\ net \subseteq Requests /\ used \subseteq Id
  /\ requests \in 0..MaxRequests /\ inits \in 0..MaxInits

(* What the places of a task and of the callbacks say of their locals.     *)
Locals ==
  /\ \A t \in Task : pc[t] # "idle" =>
       /\ call[t].kind \in {"CON", "NON", "PING"} /\ call[t].peer \in Peer
       /\ call[t].req # 0
  /\ \A t \in Task : pc[t] = "create" => m_rand \in Id
  /\ \A t \in Task : pc[t] # "delete" => call[t].rel = NULL
  /\ \A t \in Registered : m_esp_sock \in Peer
  /\ \A t \in Task : pc[t] = "send" /\ client[t] # NULL => client[t].send_count < MaxRetransmit
  /\ recv.pc # "expire" /\ timer.pc # "match"
  /\ recv.pc = "match" => recv.pkt \in AnswerPackets
  /\ recv.pc = "give" => recv.owner \in Task
  /\ timer.pc # "idle" => timer.owner \in Task

(* The table holds the requests that run, each in the slot it remembers,   *)
(* and the part of it that sw_coap_destory has passed stays empty.         *)
Slots ==
  broken \/
  /\ \A t \in Registered :
       /\ up # "down" /\ client[t] # NULL
       /\ call[t].index \in 0..MaxNum - 1 /\ m_client_handle[call[t].index] = t
  /\ \A t \in Task \ Registered : client[t] = NULL
  /\ \A i \in 0..MaxNum - 1 : m_client_handle[i] # NULL =>
       m_client_handle[i] \in Registered /\ call[m_client_handle[i]].index = i
  /\ \A t \in Task : pc[t] = "create" => up = "up"
  /\ up = "closing" => \A i \in 0..scan - 1 : m_client_handle[i] = NULL

(* An id belongs to one request as long as none was drawn twice: of the    *)
(* messages sent, of the clients, and of the answers on their way.         *)
Ids ==
  broken \/ clash \/
  /\ \A q \in net : q.id \in used
  /\ \A t \in Registered : client[t].msgid \in used /\ client[t].req = call[t].req
  /\ \A q \in net : \A t \in Registered :
       q.id = client[t].msgid => q.req = client[t].req
  /\ \A s, t \in Registered : client[s].msgid = client[t].msgid => s = t
  /\ recv.pc = "match" => \E q \in net : q.id = recv.pkt.id /\ q.req = recv.pkt.req
  /\ \A t \in Registered : client[t].resp # NULL => client[t].resp.req = client[t].req
  /\ AnswersOwn

IInv == Flags /\ Types /\ Locals /\ Slots /\ WaitIsWoken /\ Ids

-----------------------------------------------------------------------------
(* A non-empty set of slots has a first one.                               *)
LEMMA MinIn ==
  ASSUME NEW S \in SUBSET Nat, S # {}
  PROVE  Min(S) \in S /\ \A y \in S : Min(S) <= y
<1>1. \E x \in S : \A y \in S : ~ (<<y, x>> \in OpToRel(<, Nat))
  BY NatLessThanWellFounded, WFMin, Zenon
<1>2. PICK x \in S : \A y \in S : ~ (<<y, x>> \in OpToRel(<, Nat))
  BY <1>1, Zenon
<1>3. \A y \in S : x <= y
  <2> SUFFICES ASSUME NEW y \in S
               PROVE  x <= y
    OBVIOUS
  <2>1. ~ (y < x)
    BY <1>2, Zenon DEF OpToRel
  <2> QED
    BY <2>1
<1> QED
  BY <1>3, Zenon DEF Min

(* The slot a client is entered in is empty, or behind the table.          *)
LEMMA FreeSlotEmpty ==
  FreeSlot \in 0..MaxNum /\ (FreeSlot # MaxNum => m_client_handle[FreeSlot] = NULL)
<1> DEFINE empty == {i \in 0..MaxNum - 1 : m_client_handle[i] = NULL}
<1>1. empty \in SUBSET Nat
  BY SizeAssumption
<1>2. FreeSlot = IF empty = {} THEN MaxNum ELSE Min(empty)
  BY DEF FreeSlot
<1>3. CASE empty = {}
  BY <1>2, <1>3, SizeAssumption
<1>4. CASE empty # {}
  <2>1. Min(empty) \in empty
    <3> HIDE DEF empty
    <3> QED
      BY <1>1, <1>4, MinIn
  <2> QED
    BY <1>2, <1>4, <2>1, SizeAssumption
<1> QED
  BY <1>3, <1>4

(* The client that udp_recv_cb gives an answer to.                         *)
LEMMA MatchingSlot ==
  ASSUME NEW d, Matching(d) # {}
  PROVE  LET i == Min(Matching(d)) IN
         /\ i \in 0..MaxNum - 1 /\ m_client_handle[i] # NULL
         /\ client[m_client_handle[i]].msgid = d.id
         /\ client[m_client_handle[i]].result = "WAITTING"
<1>1. Matching(d) \in SUBSET Nat
  BY SizeAssumption DEF Matching
<1>2. Min(Matching(d)) \in Matching(d)
  BY <1>1, MinIn
<1> QED
  BY <1>2, Zenon DEF Matching

(* The result of a request is made from its client.                        *)
LEMMA ResultTyped ==
  ASSUME NEW c \in Clients
  PROVE  Result(c) \in Rels /\ NoData(c) \in Rels
  BY Zenon DEF Result, NoData, Code, Clients, Rels

Results == {"INIT", "WAITTING", "TIMEOUT", "FAILED", "SUCCESS"}

(* Assignments to the fields of a client, of a call and of a callback give *)
(* clients, calls and callbacks.                                           *)
LEMMA ClientFields ==
  ASSUME NEW c \in Clients
  PROVE  /\ \A n \in 0..MaxRetransmit, r \in Results :
              [c EXCEPT !.send_count = n, !.result = r] \in Clients
         /\ \A a \in BOOLEAN, r \in Results : [c EXCEPT !.armed = a, !.result = r] \in Clients
         /\ \A s \in {0, 1} : [c EXCEPT !.sem = s] \in Clients
         /\ \A a \in BOOLEAN : [c EXCEPT !.armed = a] \in Clients
         /\ \A r \in Results : [c EXCEPT !.result = r] \in Clients
         /\ \A d \in AnswerPackets, r \in Results :
              [c EXCEPT !.resp = d, !.result = r] \in Clients
  BY Zenon DEF Clients, Results

(* The fields the steps read off a client have their types.                *)
LEMMA ClientRecord ==
  ASSUME NEW c \in Clients
  PROVE  /\ c.msgid \in Id /\ c.type \in {"CON", "NON"} /\ c.result \in Results
         /\ c.req \in 1..MaxRequests /\ c.send_count \in 0..MaxRetransmit
         /\ c.resp \in AnswerPackets \cup {NULL} /\ c # NULL
  BY ClientAssumption, Zenon DEF Clients, Results

(* Assignments to the fields of a call give calls.                         *)
LEMMA CallFields ==
  ASSUME NEW c \in Calls
  PROVE  /\ \A i \in 0..MaxNum : [c EXCEPT !.index = i] \in Calls
         /\ \A r \in Rels \cup {NULL} : [c EXCEPT !.rel = r] \in Calls
         /\ NoCall \in Calls
         /\ \A k \in {"CON", "NON", "PING"}, p \in Peer, n \in 1..MaxRequests :
              [NoCall EXCEPT !.kind = k, !.peer = p, !.req = n] \in Calls
<1>1. 0..MaxNum \subseteq -1..MaxNum /\ -1 \in -1..MaxNum /\ 0 \in 0..MaxRequests
      /\ 1..MaxRequests \subseteq 0..MaxRequests
  BY SizeAssumption, BoundAssumption
<1> HIDE DEF Rels
<1>2. NoCall \in Calls
  BY <1>1, Zenon DEF Calls, NoCall
<1> QED
  BY <1>1, <1>2, Zenon DEF Calls

(* A callback at rest, and one that has found its request, are callbacks.  *)
LEMMA CallbackFields ==
  /\ Idle \in Callbacks
  /\ \A d \in AnswerPackets : [Idle EXCEPT !.pc = "match", !.pkt = d] \in Callbacks
  /\ \A t \in Task, n \in 1..MaxRequests, l \in {"give", "expire"} :
       [Idle EXCEPT !.pc = l, !.owner = t, !.req = n] \in Callbacks
  /\ \A c \in Callbacks : [c EXCEPT !.pc = "give"] \in Callbacks
<1>1. 0 \in 0..MaxRequests /\ 1..MaxRequests \subseteq 0..MaxRequests
  BY BoundAssumption
<1>2. Idle \in Callbacks
  BY <1>1, Zenon DEF Callbacks, Idle
<1> QED
  BY <1>1, <1>2, Zenon DEF Callbacks

(* What the assignments leave alone.                                       *)
LEMMA ClientKeeps ==
  ASSUME NEW c \in Clients
  PROVE  /\ \A n, r : LET d == [c EXCEPT !.send_count = n, !.result = r] IN
              /\ d.msgid = c.msgid /\ d.req = c.req /\ d.resp = c.resp
              /\ d.result = r /\ d.send_count = n
         /\ \A a, r : LET d == [c EXCEPT !.armed = a, !.result = r] IN
              /\ d.msgid = c.msgid /\ d.req = c.req /\ d.resp = c.resp
              /\ d.result = r /\ d.armed = a
         /\ \A s : LET d == [c EXCEPT !.sem = s] IN
              /\ d.msgid = c.msgid /\ d.req = c.req /\ d.resp = c.resp
              /\ d.result = c.result /\ d.sem = s /\ d.armed = c.armed
              /\ d.send_count = c.send_count
         /\ \A a : LET d == [c EXCEPT !.armed = a] IN
              /\ d.msgid = c.msgid /\ d.req = c.req /\ d.resp = c.resp
              /\ d.result = c.result /\ d.sem = c.sem /\ d.armed = a
              /\ d.send_count = c.send_count
         /\ \A r : LET d == [c EXCEPT !.result = r] IN
              /\ d.msgid = c.msgid /\ d.req = c.req /\ d.resp = c.resp
              /\ d.result = r /\ d.sem = c.sem /\ d.armed = c.armed
              /\ d.send_count = c.send_count
         /\ \A p, r : LET d == [c EXCEPT !.resp = p, !.result = r] IN
              /\ d.msgid = c.msgid /\ d.req = c.req /\ d.resp = p
              /\ d.result = r /\ d.sem = c.sem /\ d.armed = c.armed
              /\ d.send_count = c.send_count
  BY DEF Clients

(* The same for the locals of a call.                                      *)
LEMMA CallKeeps ==
  ASSUME NEW c \in Calls
  PROVE  /\ \A i : LET d == [c EXCEPT !.index = i] IN
              /\ d.kind = c.kind /\ d.peer = c.peer /\ d.req = c.req /\ d.rel = c.rel
              /\ d.index = i
         /\ \A r : LET d == [c EXCEPT !.rel = r] IN
              /\ d.kind = c.kind /\ d.peer = c.peer /\ d.req = c.req /\ d.rel = r
              /\ d.index = c.index
  BY DEF Calls

(* The flags stay flags.                                                   *)
LEMMA FlagsStep ==
  ASSUME IInv, [Next]_vars
  PROVE  Flags'
<1> USE DEF IInv, Flags, task, table, ids
<1>1. ASSUME NEW t \in Task, Create(t), ~ broken
      PROVE  Flags'
  BY <1>1 DEF Create, NewClient, Goto
<1>2. ASSUME NEW t \in Task, CreateFails(t), ~ broken
      PROVE  Flags'
  BY <1>2 DEF CreateFails, Return, Goto
<1>3. ASSUME NEW t \in Task, Send(t), ~ broken
      PROVE  Flags'
  BY <1>3 DEF Send, Goto, Datagram
<1>4. ASSUME NEW t \in Task, SendFails(t), ~ broken
      PROVE  Flags'
  BY <1>4 DEF SendFails, Goto
<1>5. ASSUME NEW t \in Task, Await(t), ~ broken
      PROVE  Flags'
  BY <1>5 DEF Await, Goto
<1>6. ASSUME NEW t \in Task, Wake(t), ~ broken
      PROVE  Flags'
  BY <1>6 DEF Wake, Goto
<1>7. ASSUME NEW t \in Task, Analyse(t), ~ broken
      PROVE  Flags'
  BY <1>7 DEF Analyse, Goto
<1>8. ASSUME NEW t \in Task, Delete(t), ~ broken
      PROVE  Flags'
  BY <1>8 DEF Delete, Return, Goto
<1>9. ASSUME NEW t \in Task, TimerFire(t), ~ broken
      PROVE  Flags'
  BY <1>9 DEF TimerFire
<1>10. ASSUME RecvMatch, ~ broken
      PROVE  Flags'
  BY <1>10 DEF RecvMatch
<1>11. ASSUME RecvNoMatch, ~ broken
      PROVE  Flags'
  BY <1>11 DEF RecvNoMatch
<1>12. ASSUME RecvGive, ~ broken
      PROVE  Flags'
  BY <1>12, Zenon DEF RecvGive, Give
<1>13. ASSUME TimerExpire, ~ broken
      PROVE  Flags'
  BY <1>13, Zenon DEF TimerExpire
<1>14. ASSUME TimerGive, ~ broken
      PROVE  Flags'
  BY <1>14, Zenon DEF TimerGive, Give
<1>15. ASSUME ClientInit, ~ broken
      PROVE  Flags'
  BY <1>15 DEF ClientInit, EmptyTable
<1>16. ASSUME ClientInitFails, ~ broken
      PROVE  Flags'
  BY <1>16 DEF ClientInitFails
<1>17. ASSUME DestroyStart, ~ broken
      PROVE  Flags'
  BY <1>17 DEF DestroyStart
<1>18. ASSUME DestroyScan, ~ broken
      PROVE  Flags'
  BY <1>18 DEF DestroyScan
<1>19. ASSUME DestroyFree, ~ broken
      PROVE  Flags'
  BY <1>19 DEF DestroyFree, EmptyTable
<1>20. ASSUME NEW t \in Task, NEW k \in Kind, NEW p \in Peer, Begin(t, k, p), ~ broken
      PROVE  Flags'
  BY <1>20 DEF Begin, Goto
<1>21. ASSUME RecvStart, ~ broken
      PROVE  Flags'
  BY <1>21 DEF RecvStart, Answers
<1>22. ASSUME RecvRequest, ~ broken
      PROVE  Flags'
  BY <1>22 DEF RecvRequest
<1>23. CASE UNCHANGED vars
  BY <1>23 DEF vars
<1> QED
  BY <1>1, <1>2, <1>3, <1>4, <1>5, <1>6, <1>7, <1>8, <1>9, <1>10, <1>11,
     <1>12, <1>13, <1>14, <1>15, <1>16, <1>17, <1>18, <1>19, <1>20, <1>21, <1>22, <1>23
  DEF Next, TaskStep, Timeout, RecvStep, TimerStep, Other

(* Answers to requests that were sent.                                     *)
LEMMA AnswersTyped ==
  ASSUME Types
  PROVE  \A d \in Answers : /\ d \in AnswerPackets
                            /\ \E q \in net : q.id = d.id /\ q.req = d.req
<1>1. \A q \in net : q.dst \in Peer /\ q.id \in Id /\ q.req \in 1..MaxRequests
  BY DEF Types, Requests
<1>2. ASSUME NEW q \in net, NEW k \in {"ACK", "RST"}
      PROVE  LET d == [src |-> q.dst, kind |-> k, id |-> q.id, req |-> q.req] IN
             d \in AnswerPackets /\ d.id = q.id /\ d.req = q.req
  BY <1>1, Zenon DEF AnswerPackets
<1>3. AnswerKind \subseteq {"ACK", "RST"}
  BY KindAssumption
<1>4. ASSUME NEW d \in Answers
      PROVE  \E q \in net, k \in {"ACK", "RST"} :
               d = [src |-> q.dst, kind |-> k, id |-> q.id, req |-> q.req]
  <2>1. CASE \E q \in {r \in net : r.kind = "CON"}, k \in AnswerKind :
               d = [src |-> q.dst, kind |-> k, id |-> q.id, req |-> q.req]
    BY <1>3, <2>1, Zenon
  <2>2. CASE \E q \in {r \in net : r.kind = "PING"} :
               d = [src |-> q.dst, kind |-> "RST", id |-> q.id, req |-> q.req]
    BY <2>2, Zenon
  <2> QED
    BY <1>4, <2>1, <2>2 DEF Answers
<1>5. ASSUME NEW d \in Answers
      PROVE  d \in AnswerPackets /\ \E q \in net : q.id = d.id /\ q.req = d.req
  <2>1. PICK q \in net, k \in {"ACK", "RST"} :
          d = [src |-> q.dst, kind |-> k, id |-> q.id, req |-> q.req]
    BY <1>4
  <2> QED
    BY <1>2, <2>1, ZenonT(60)
<1> QED
  BY <1>5

(* The fields of a call have their types.                                  *)
LEMMA CallRecord ==
  ASSUME NEW c \in Calls
  PROVE  c.req \in 0..MaxRequests /\ c.index \in -1..MaxNum /\ c.rel \in Rels \cup {NULL}
         /\ c.peer \in Peer \cup {NULL} /\ c.kind \in {"CON", "NON", "PING", NULL}
  BY Zenon DEF Calls

(* A task with a client in the table has one.                              *)
LEMMA RegisteredClient ==
  ASSUME IInv, ~ broken, NEW t \in Task,
         pc[t] \in {"send", "await", "wait", "analyse", "delete"}
  PROVE  t \in Registered /\ client[t] \in Clients
<1>1. t \in Registered
  BY DEF Registered
<1> QED
  BY <1>1 DEF IInv, Slots, Types

(* So has a callback that finds the client it was called for.              *)
LEMMA FoundClient ==
  ASSUME IInv, NEW cb \in {recv, timer}, cb.owner \in Task, Finds(cb)
  PROVE  client[cb.owner] \in Clients
  BY DEF IInv, Types, Finds

(* And a client that matches an answer belongs to a task.                  *)
LEMMA MatchedTask ==
  ASSUME IInv, ~ broken, NEW d, Matching(d) # {}
  PROVE  LET t == m_client_handle[Min(Matching(d))] IN
         /\ t \in Registered /\ t \in Task /\ client[t] \in Clients
         /\ client[t].msgid = d.id /\ client[t].result = "WAITTING"
<1> DEFINE t == m_client_handle[Min(Matching(d))]
<1>1. t \in Registered /\ client[t].msgid = d.id /\ client[t].result = "WAITTING"
  BY MatchingSlot DEF IInv, Slots
<1>2. t \in Task /\ client[t] \in Clients
  BY <1>1 DEF IInv, Slots, Types, Registered
<1> QED
  BY <1>1, <1>2

(* The variables keep their types.                                         *)
LEMMA TypesStep ==
  ASSUME IInv, [Next]_vars
  PROVE  Types'
<1> USE DEF IInv, Types, task, table, ids
<1>1. ASSUME NEW t \in Task, Create(t), ~ broken
      PROVE  Types'
  <2>1. NewClient(t) \in Clients
    <3>1. m_rand \in Id /\ call[t].req \in 1..MaxRequests
      BY <1>1, CallRecord, BoundAssumption DEF Create, Locals
    <3>2. 0 \in 0..MaxRetransmit
      BY SizeAssumption
    <3> QED
      BY <3>1, <3>2, Zenon DEF NewClient, Clients
  <2>2. call[t].peer \in Peer /\ m_rand \in Id
    BY <1>1 DEF Create, Locals
  <2>3. [call[t] EXCEPT !.index = FreeSlot] \in Calls /\ FreeSlot \in 0..MaxNum
    BY CallFields, FreeSlotEmpty, Zenon
  <2>4. call' \in [Task -> Calls] /\ client' \in [Task -> Clients \cup {NULL}]
        /\ m_client_handle' \in [0..MaxNum -> Task \cup {NULL, Junk}]
    BY <1>1, <2>1, <2>3 DEF Create
  <2> QED
    BY <1>1, <2>2, <2>4 DEF Create, Goto, Places
<1>2. ASSUME NEW t \in Task, CreateFails(t), ~ broken
      PROVE  Types'
  <2>1. call[t].peer \in Peer /\ NoCall \in Calls
    BY <1>2, CallFields, Zenon DEF CreateFails, Locals
  <2> QED
    BY <1>2, <2>1 DEF CreateFails, Return, Goto, Places
<1>3. ASSUME NEW t \in Task, Send(t), ~ broken
      PROVE  Types'
  <2>1. client[t] \in Clients /\ t \in Registered
    BY <1>3, RegisteredClient DEF Send
  <2>2. Datagram(t) \in Requests
    <3>1. m_esp_sock \in Peer /\ call[t].kind \in {"CON", "NON", "PING"}
          /\ call[t].req \in 1..MaxRequests
      BY <1>3, <2>1, CallRecord, BoundAssumption DEF Send, Locals
    <3>2. client[t].msgid \in Id
      BY <2>1, ClientRecord
    <3> QED
      BY <3>1, <3>2, Zenon DEF Datagram, Requests
  <2> DEFINE r == IF client[t].type = "CON" THEN client[t].result ELSE "SUCCESS"
  <2>3. r \in Results /\ 0 \in 0..MaxRetransmit
    BY <2>1, ClientRecord, SizeAssumption DEF Results
  <2>4. client' = [client EXCEPT ![t] = [client[t] EXCEPT !.send_count = 0, !.result = r]]
    BY <1>3 DEF Send
  <2>5. client' \in [Task -> Clients \cup {NULL}]
    <3>1. [client[t] EXCEPT !.send_count = 0, !.result = r] \in Clients
      <4> HIDE DEF r
      <4> QED
        BY <2>1, <2>3, ClientFields, Zenon
    <3> HIDE DEF r
    <3> QED
      BY <2>4, <3>1
  <2> QED
    BY <1>3, <2>2, <2>5 DEF Send, Goto, Places
<1>4. ASSUME NEW t \in Task, SendFails(t), ~ broken
      PROVE  Types'
  <2>1. client[t] \in Clients
    BY <1>4, RegisteredClient DEF SendFails
  <2>2. client[t].send_count + 1 \in 0..MaxRetransmit
    BY <1>4, <2>1, ClientRecord, SizeAssumption DEF SendFails, Locals
  <2> DEFINE n == client[t].send_count + 1
             r == IF n < MaxRetransmit THEN client[t].result ELSE "FAILED"
  <2>3. r \in Results
    BY <2>1, ClientRecord DEF Results
  <2>4. client' = [client EXCEPT ![t] = [client[t] EXCEPT !.send_count = n, !.result = r]]
    BY <1>4 DEF SendFails
  <2>5. client' \in [Task -> Clients \cup {NULL}]
    <3>1. [client[t] EXCEPT !.send_count = n, !.result = r] \in Clients
      <4> HIDE DEF r, n
      <4> QED
        BY <2>1, <2>2, <2>3, ClientFields, Zenon DEF n
    <3> HIDE DEF r, n
    <3> QED
      BY <2>4, <3>1
  <2> QED
    BY <1>4, <2>5 DEF SendFails, Goto, Places
<1>5. ASSUME NEW t \in Task, Await(t), ~ broken
      PROVE  Types'
  <2>1. client[t] \in Clients
    BY <1>5, RegisteredClient DEF Await
  <2>2. [client[t] EXCEPT !.armed = TRUE, !.result = "WAITTING"] \in Clients
    BY <2>1, ClientFields, Zenon DEF Results
  <2> QED
    BY <1>5, <2>2 DEF Await, Goto, Places
<1>6. ASSUME NEW t \in Task, Wake(t), ~ broken
      PROVE  Types'
  <2>1. client[t] \in Clients
    BY <1>6, RegisteredClient DEF Wake
  <2>2. [client[t] EXCEPT !.sem = 0] \in Clients
    BY <2>1, ClientFields, Zenon
  <2> QED
    BY <1>6, <2>2 DEF Wake, Goto, Places
<1>7. ASSUME NEW t \in Task, Analyse(t), ~ broken
      PROVE  Types'
  <2>1. client[t] \in Clients
    BY <1>7, RegisteredClient DEF Analyse
  <2>2. [client[t] EXCEPT !.armed = FALSE] \in Clients
    BY <2>1, ClientFields, Zenon
  <2>3. PICK rel \in {NULL, Result(client[t]), NoData(client[t])} :
          call' = [call EXCEPT ![t].rel = rel]
    BY <1>7, Zenon DEF Analyse
  <2>4. [call[t] EXCEPT !.rel = rel] \in Calls
    BY <2>1, ResultTyped, CallFields, Zenon
  <2>5. call' \in [Task -> Calls]
    BY <2>3, <2>4
  <2> QED
    BY <1>7, <2>2, <2>5 DEF Analyse, Goto, Places
<1>8. ASSUME NEW t \in Task, Delete(t), ~ broken
      PROVE  Types'
  <2>1. NoCall \in Calls
    BY CallFields, Zenon
  <2> QED
    BY <1>8, <2>1, Zenon DEF Delete, Return, Goto, Places
<1>9. ASSUME NEW t \in Task, TimerFire(t), ~ broken
      PROVE  Types'
  <2>1. client[t] \in Clients
    BY <1>9 DEF TimerFire
  <2>2. [client[t] EXCEPT !.armed = FALSE] \in Clients
    BY <2>1, ClientFields, Zenon
  <2>3. [Idle EXCEPT !.pc = "expire", !.owner = t, !.req = client[t].req] \in Callbacks
    BY <2>1, ClientRecord, CallbackFields, Zenon
  <2> QED
    BY <1>9, <2>2, <2>3 DEF TimerFire
<1>10. ASSUME RecvMatch, ~ broken
      PROVE  Types'
  <2> DEFINE t == m_client_handle[Min(Matching(recv.pkt))]
  <2>1. t \in Task /\ client[t] \in Clients
    BY <1>10, MatchedTask DEF RecvMatch
  <2>2. [client[t] EXCEPT !.resp = recv.pkt, !.result = "SUCCESS"] \in Clients
    BY <1>10, <2>1, ClientFields, ZenonT(60) DEF RecvMatch, Locals, Results
  <2>3. [Idle EXCEPT !.pc = "give", !.owner = t, !.req = client[t].req] \in Callbacks
    BY <2>1, ClientRecord, CallbackFields, Zenon
  <2>4. /\ client' = [client EXCEPT ![t] =
                        [client[t] EXCEPT !.resp = recv.pkt, !.result = "SUCCESS"]]
        /\ recv' = [Idle EXCEPT !.pc = "give", !.owner = t, !.req = client[t].req]
    BY <1>10 DEF RecvMatch
  <2>5. UNCHANGED <<task, table, m_esp_sock, timer, net, ids>>
    BY <1>10 DEF RecvMatch
  <2> HIDE DEF t
  <2> QED
    BY <2>1, <2>2, <2>3, <2>4, <2>5
<1>11. ASSUME RecvNoMatch, ~ broken
      PROVE  Types'
  BY <1>11, CallbackFields, Zenon DEF RecvNoMatch
<1>12. ASSUME RecvGive, ~ broken
      PROVE  Types'
  <2>1. CASE Finds(recv)
    <3>1. client[recv.owner] \in Clients /\ recv.owner \in Task
      BY <1>12, <2>1, FoundClient DEF RecvGive, Locals
    <3>2. [client[recv.owner] EXCEPT !.sem = 1] \in Clients
      BY <3>1, ClientFields, ZenonT(60)
    <3> QED
      BY <1>12, <2>1, <3>1, <3>2, CallbackFields, ZenonT(60) DEF RecvGive, Give
  <2>2. CASE ~ Finds(recv)
    BY <1>12, <2>2, CallbackFields, Zenon DEF RecvGive, Give
  <2> QED
    BY <2>1, <2>2
<1>13. ASSUME TimerExpire, ~ broken
      PROVE  Types'
  <2>1. [timer EXCEPT !.pc = "give"] \in Callbacks
    BY CallbackFields, Zenon
  <2>2. CASE Finds(timer)
    <3>1. client[timer.owner] \in Clients /\ timer.owner \in Task
      BY <1>13, <2>2, FoundClient DEF TimerExpire, Locals
    <3>2. [client[timer.owner] EXCEPT !.result = "TIMEOUT"] \in Clients
      BY <3>1, ClientFields, Zenon DEF Results
    <3> QED
      BY <1>13, <2>1, <2>2, <3>1, <3>2 DEF TimerExpire
  <2>3. CASE ~ Finds(timer)
    BY <1>13, <2>1, <2>3 DEF TimerExpire
  <2> QED
    BY <2>2, <2>3
<1>14. ASSUME TimerGive, ~ broken
      PROVE  Types'
  <2>1. CASE Finds(timer)
    <3>1. client[timer.owner] \in Clients /\ timer.owner \in Task
      BY <1>14, <2>1, FoundClient DEF TimerGive, Locals
    <3>2. [client[timer.owner] EXCEPT !.sem = 1] \in Clients
      BY <3>1, ClientFields, ZenonT(60)
    <3> QED
      BY <1>14, <2>1, <3>1, <3>2, CallbackFields, ZenonT(60) DEF TimerGive, Give
  <2>2. CASE ~ Finds(timer)
    BY <1>14, <2>2, CallbackFields, Zenon DEF TimerGive, Give
  <2> QED
    BY <2>1, <2>2
<1>15. ASSUME ClientInit, ~ broken
      PROVE  Types'
  <2>1. PICK w \in Behind : m_client_handle' = [EmptyTable EXCEPT ![MaxNum] = w]
    BY <1>15, Zenon DEF ClientInit
  <2>2. m_client_handle' \in [0..MaxNum -> Task \cup {NULL, Junk}]
    BY <2>1, KindAssumption, Zenon DEF EmptyTable
  <2>3. inits' \in 0..MaxInits /\ scan' \in 0..MaxNum
    BY <1>15, BoundAssumption, SizeAssumption DEF ClientInit
  <2> QED
    BY <1>15, <2>2, <2>3 DEF ClientInit
<1>16. ASSUME ClientInitFails, ~ broken
      PROVE  Types'
  BY <1>16 DEF ClientInitFails
<1>17. ASSUME DestroyStart, ~ broken
      PROVE  Types'
  BY <1>17, SizeAssumption DEF DestroyStart
<1>18. ASSUME DestroyScan, ~ broken
      PROVE  Types'
  BY <1>18, SizeAssumption DEF DestroyScan
<1>19. ASSUME DestroyFree, ~ broken
      PROVE  Types'
  BY <1>19 DEF DestroyFree, EmptyTable
<1>20. ASSUME NEW t \in Task, NEW k \in Kind, NEW p \in Peer, Begin(t, k, p), ~ broken
      PROVE  Types'
  <2>1. requests' \in 0..MaxRequests /\ requests + 1 \in 1..MaxRequests
    BY <1>20, BoundAssumption DEF Begin
  <2>2. [NoCall EXCEPT !.kind = k, !.peer = p, !.req = requests + 1] \in Calls
    BY <2>1, CallFields, KindAssumption, Zenon
  <2> QED
    BY <1>20, <2>1, <2>2 DEF Begin, Goto, Places
<1>21. ASSUME RecvStart, ~ broken
      PROVE  Types'
  <2>1. PICK d \in Answers :
          m_esp_sock' = d.src /\ recv' = [Idle EXCEPT !.pc = "match", !.pkt = d]
    BY <1>21, Zenon DEF RecvStart
  <2>2. d \in AnswerPackets
    BY AnswersTyped
  <2>3. d.src \in Peer
    BY <2>2 DEF AnswerPackets
  <2>4. recv' \in Callbacks
    BY <2>1, <2>2, CallbackFields, Zenon
  <2> QED
    BY <1>21, <2>1, <2>3, <2>4 DEF RecvStart
<1>22. ASSUME RecvRequest, ~ broken
      PROVE  Types'
  BY <1>22 DEF RecvRequest
<1>23. CASE UNCHANGED vars
  BY <1>23 DEF vars
<1> QED
  BY <1>1, <1>2, <1>3, <1>4, <1>5, <1>6, <1>7, <1>8, <1>9, <1>10, <1>11,
     <1>12, <1>13, <1>14, <1>15, <1>16, <1>17, <1>18, <1>19, <1>20, <1>21, <1>22, <1>23, ZenonT(60)
  DEF Next, TaskStep, Timeout, RecvStep, TimerStep, Other


-----------------------------------------------------------------------------
(* Places and locals go on agreeing.                                       *)
LEMMA LocalsStep ==
  ASSUME IInv, [Next]_vars
  PROVE  Locals'
<1> USE DEF IInv, Types, Locals, Registered, Places, task, table, ids, Idle, NoCall
<1>1. ASSUME NEW t \in Task, Create(t), ~ broken
      PROVE  Locals'
  <2>1. 0 < MaxRetransmit /\ NewClient(t).send_count = 0
    BY SizeAssumption DEF NewClient
  <2>2. /\ call'[t].kind = call[t].kind /\ call'[t].peer = call[t].peer
        /\ call'[t].req = call[t].req /\ call'[t].rel = call[t].rel
    BY <1>1, CallKeeps DEF Create
  <2> QED
    BY <1>1, <2>1, <2>2 DEF Create, Goto
<1>2. ASSUME NEW t \in Task, CreateFails(t), ~ broken
      PROVE  Locals'
  BY <1>2 DEF CreateFails, Return, Goto
<1>3. ASSUME NEW t \in Task, Send(t), ~ broken
      PROVE  Locals'
  BY <1>3 DEF Send, Goto, Datagram
<1>4. ASSUME NEW t \in Task, SendFails(t), ~ broken
      PROVE  Locals'
  BY <1>4 DEF SendFails, Goto
<1>5. ASSUME NEW t \in Task, Await(t), ~ broken
      PROVE  Locals'
  BY <1>5 DEF Await, Goto
<1>6. ASSUME NEW t \in Task, Wake(t), ~ broken
      PROVE  Locals'
  BY <1>6 DEF Wake, Goto
<1>7. ASSUME NEW t \in Task, Analyse(t), ~ broken
      PROVE  Locals'
  BY <1>7 DEF Analyse, Goto
<1>8. ASSUME NEW t \in Task, Delete(t), ~ broken
      PROVE  Locals'
  BY <1>8 DEF Delete, Return, Goto
<1>9. ASSUME NEW t \in Task, TimerFire(t), ~ broken
      PROVE  Locals'
  BY <1>9 DEF TimerFire
<1>10. ASSUME RecvMatch, ~ broken
      PROVE  Locals'
  <2> DEFINE t == m_client_handle[Min(Matching(recv.pkt))]
             c == [client[t] EXCEPT !.resp = recv.pkt, !.result = "SUCCESS"]
  <2>1. t \in Task /\ client[t] \in Clients
    BY <1>10, MatchedTask DEF RecvMatch
  <2>2. c.send_count = client[t].send_count /\ client[t] # NULL
    BY <2>1, ClientKeeps, ClientAssumption
  <2>3. /\ client' = [client EXCEPT ![t] = c]
        /\ recv' = [Idle EXCEPT !.pc = "give", !.owner = t, !.req = client[t].req]
        /\ UNCHANGED <<task, table, m_esp_sock, timer, net, ids>>
    BY <1>10 DEF RecvMatch
  <2> HIDE DEF t, c
  <2> QED
    BY <2>1, <2>2, <2>3
<1>11. ASSUME RecvNoMatch, ~ broken
      PROVE  Locals'
  BY <1>11 DEF RecvNoMatch
<1>12. ASSUME RecvGive, ~ broken
      PROVE  Locals'
  <2>1. CASE Finds(recv)
    <3> DEFINE c == [client[recv.owner] EXCEPT !.sem = 1]
    <3>1. client[recv.owner] \in Clients /\ recv.owner \in Task
      BY <1>12, <2>1, FoundClient DEF RecvGive
    <3>2. c.send_count = client[recv.owner].send_count /\ client[recv.owner] # NULL
      BY <3>1, ClientKeeps, ClientAssumption
    <3>3. client' = [client EXCEPT ![recv.owner] = c]
      BY <1>12, <2>1 DEF RecvGive, Give
    <3> HIDE DEF c
    <3> QED
      BY <1>12, <2>1, <3>1, <3>2, <3>3 DEF RecvGive
  <2>2. CASE ~ Finds(recv)
    BY <1>12, <2>2 DEF RecvGive, Give
  <2> QED
    BY <2>1, <2>2
<1>13. ASSUME TimerExpire, ~ broken
      PROVE  Locals'
  <2>1. timer'.owner = timer.owner /\ timer'.pc = "give"
    BY <1>13 DEF TimerExpire, Callbacks
  <2>2. CASE Finds(timer)
    <3> DEFINE c == [client[timer.owner] EXCEPT !.result = "TIMEOUT"]
    <3>1. client[timer.owner] \in Clients /\ timer.owner \in Task
      BY <1>13, <2>2, FoundClient DEF TimerExpire
    <3>2. c.send_count = client[timer.owner].send_count /\ client[timer.owner] # NULL
      BY <3>1, ClientKeeps, ClientAssumption
    <3>3. client' = [client EXCEPT ![timer.owner] = c]
      BY <1>13, <2>2 DEF TimerExpire
    <3> HIDE DEF c
    <3> QED
      BY <1>13, <2>1, <2>2, <3>1, <3>2, <3>3 DEF TimerExpire
  <2>3. CASE ~ Finds(timer)
    BY <1>13, <2>1, <2>3 DEF TimerExpire
  <2> QED
    BY <2>2, <2>3
<1>14. ASSUME TimerGive, ~ broken
      PROVE  Locals'
  <2>1. CASE Finds(timer)
    <3> DEFINE c == [client[timer.owner] EXCEPT !.sem = 1]
    <3>1. client[timer.owner] \in Clients /\ timer.owner \in Task
      BY <1>14, <2>1, FoundClient DEF TimerGive
    <3>2. c.send_count = client[timer.owner].send_count /\ client[timer.owner] # NULL
      BY <3>1, ClientKeeps, ClientAssumption
    <3>3. client' = [client EXCEPT ![timer.owner] = c]
      BY <1>14, <2>1 DEF TimerGive, Give
    <3> HIDE DEF c
    <3> QED
      BY <1>14, <2>1, <3>1, <3>2, <3>3 DEF TimerGive
  <2>2. CASE ~ Finds(timer)
    BY <1>14, <2>2 DEF TimerGive, Give
  <2> QED
    BY <2>1, <2>2
<1>15. ASSUME ClientInit, ~ broken
      PROVE  Locals'
  <2>1. Registered = {}
    BY <1>15 DEF ClientInit, Slots
  <2> QED
    BY <1>15, <2>1 DEF ClientInit
<1>16. ASSUME ClientInitFails, ~ broken
      PROVE  Locals'
  <2>1. Registered = {}
    BY <1>16 DEF ClientInitFails, Slots
  <2> QED
    BY <1>16, <2>1 DEF ClientInitFails
<1>17. ASSUME DestroyStart, ~ broken
      PROVE  Locals'
  BY <1>17 DEF DestroyStart
<1>18. ASSUME DestroyScan, ~ broken
      PROVE  Locals'
  BY <1>18 DEF DestroyScan
<1>19. ASSUME DestroyFree, ~ broken
      PROVE  Locals'
  BY <1>19 DEF DestroyFree, EmptyTable
<1>20. ASSUME NEW t \in Task, NEW k \in Kind, NEW p \in Peer, Begin(t, k, p), ~ broken
      PROVE  Locals'
  <2>1. requests + 1 # 0 /\ k \in {"CON", "NON", "PING"}
    BY KindAssumption, BoundAssumption
  <2>2. call'[t] = [NoCall EXCEPT !.kind = k, !.peer = p, !.req = requests + 1]
    BY <1>20 DEF Begin
  <2>3. call'[t].kind = k /\ call'[t].peer = p /\ call'[t].req # 0 /\ call'[t].rel = NULL
    BY <2>1, <2>2
  <2> QED
    BY <1>20, <2>1, <2>3 DEF Begin, Goto
<1>21. ASSUME RecvStart, ~ broken
      PROVE  Locals'
  <2>1. PICK d \in Answers :
          m_esp_sock' = d.src /\ recv' = [Idle EXCEPT !.pc = "match", !.pkt = d]
    BY <1>21, Zenon DEF RecvStart
  <2>2. d \in AnswerPackets
    BY AnswersTyped
  <2>3. d.src \in Peer
    BY <2>2 DEF AnswerPackets
  <2>4. recv'.pc = "match" /\ recv'.pkt = d
    BY <2>1
  <2> QED
    BY <1>21, <2>1, <2>2, <2>3, <2>4 DEF RecvStart
<1>22. ASSUME RecvRequest, ~ broken
      PROVE  Locals'
  BY <1>22 DEF RecvRequest
<1>23. CASE UNCHANGED vars
  BY <1>23 DEF vars
<1> QED
  BY <1>1, <1>2, <1>3, <1>4, <1>5, <1>6, <1>7, <1>8, <1>9, <1>10, <1>11,
     <1>12, <1>13, <1>14, <1>15, <1>16, <1>17, <1>18, <1>19, <1>20, <1>21, <1>22, <1>23, ZenonT(60)
  DEF Next, TaskStep, Timeout, RecvStep, TimerStep, Other

(* The new client, and one whose message was sent or not.                  *)
LEMMA NewClientTyped ==
  ASSUME IInv, NEW t \in Task, pc[t] = "create"
  PROVE  NewClient(t) \in Clients
<1>1. m_rand \in Id /\ call[t].req \in 1..MaxRequests
  BY CallRecord, BoundAssumption DEF IInv, Types, Locals
<1>2. 0 \in 0..MaxRetransmit
  BY SizeAssumption
<1> QED
  BY <1>1, <1>2, Zenon DEF NewClient, Clients

(* A client stays one when its datagram went out (coap_client_send).       *)
LEMMA SentTyped ==
  ASSUME NEW c \in Clients
  PROVE  [c EXCEPT !.send_count = 0,
                   !.result = IF c.type = "CON" THEN c.result ELSE "SUCCESS"] \in Clients
<1> DEFINE r == IF c.type = "CON" THEN c.result ELSE "SUCCESS"
<1>1. r \in Results /\ 0 \in 0..MaxRetransmit
  BY ClientRecord, SizeAssumption DEF Results
<1> HIDE DEF r
<1>2. [c EXCEPT !.send_count = 0, !.result = r] \in Clients
  BY <1>1, ClientFields, Zenon
<1> QED
  BY <1>2 DEF r

(* A client stays one when its datagram did not (coap_client_send).        *)
LEMMA NotSentTyped ==
  ASSUME NEW c \in Clients, c.send_count < MaxRetransmit
  PROVE  [c EXCEPT !.send_count = c.send_count + 1,
                   !.result = IF c.send_count + 1 < MaxRetransmit
                              THEN c.result ELSE "FAILED"] \in Clients
<1> DEFINE n == c.send_count + 1
           r == IF n < MaxRetransmit THEN c.result ELSE "FAILED"
<1>1. r \in Results
  BY ClientRecord DEF Results
<1>2. n \in 0..MaxRetransmit
  BY ClientRecord, SizeAssumption
<1> HIDE DEF r, n
<1>3. [c EXCEPT !.send_count = n, !.result = r] \in Clients
  BY <1>1, <1>2, ClientFields, Zenon
<1> QED
  BY <1>3 DEF r, n

(* A step that only changes fields of clients and other places of tasks in *)
(* the table leaves the table as it is.                                    *)
LEMMA SlotsKept ==
  ASSUME Types, Slots, ~ broken, UNCHANGED <<m_client_handle, up, scan, broken>>, Types',
         Registered' = Registered,
         \A t \in Task : /\ pc'[t] = "create" => pc[t] = "create"
                         /\ call'[t].index = call[t].index
                         /\ client'[t] = NULL <=> client[t] = NULL
  PROVE  Slots'
<1> SUFFICES ASSUME ~ broken
             PROVE  Slots'
  OBVIOUS
<1>1. Registered \subseteq Task
  BY DEF Registered
<1> QED
  BY <1>1, ZenonT(60) DEF Slots, Types

(* So does a step that gives a client other contents.                      *)
LEMMA ClientWritten ==
  ASSUME Types, NEW x \in Task, client[x] \in Clients, NEW c \in Clients,
         client' = [client EXCEPT ![x] = c]
  PROVE  \A t \in Task : client'[t] = NULL <=> client[t] = NULL
  BY ClientAssumption DEF Types

(* The table goes on holding the requests that run.                         *)
LEMMA SlotsStep ==
  ASSUME IInv, [Next]_vars
  PROVE  Slots'
<1> USE DEF IInv, Types, task, table, ids
<1>1. ASSUME NEW t \in Task, Create(t), ~ broken
      PROVE  Slots'
  <2>1. FreeSlot \in 0..MaxNum /\ (FreeSlot # MaxNum => m_client_handle[FreeSlot] = NULL)
    BY FreeSlotEmpty
  <2>2. CASE FreeSlot = MaxNum
    BY <1>1, <2>2, Zenon DEF Create, Slots
  <2>3. CASE FreeSlot # MaxNum
    <3> DEFINE i == FreeSlot
               c == NewClient(t)
    <3>1. c # NULL
      BY <1>1, NewClientTyped, ClientAssumption DEF Create
    <3>2. /\ client' = [client EXCEPT ![t] = c]
          /\ m_client_handle' = [m_client_handle EXCEPT ![i] = t]
          /\ pc[t] = "create" /\ pc' = [pc EXCEPT ![t] = "send"]
          /\ UNCHANGED <<up, scan>>
      BY <1>1 DEF Create, Goto
    <3>3. /\ call'[t].index = i
          /\ \A s \in Task \ {t} : call'[s] = call[s]
      BY <1>1, CallKeeps DEF Create
    <3>4. i \in 0..MaxNum - 1 /\ m_client_handle[i] = NULL
      BY <2>1, <2>3, SizeAssumption
    <3> HIDE DEF i, c
    <3>5. t \notin Registered /\ Registered' = Registered \cup {t}
      BY <3>2 DEF Registered
    <3>6. up = "up"
      BY <1>1, <3>2 DEF Slots
    <3>7. \A s \in Registered : call[s].index # i
      BY <1>1, <3>4, NullAssumption DEF Slots, Registered
    <3>8. \A s \in Registered' :
            /\ up' # "down" /\ client'[s] # NULL
            /\ call'[s].index \in 0..MaxNum - 1 /\ m_client_handle'[call'[s].index] = s
      <4>1. ASSUME NEW s \in Registered
            PROVE  /\ s \in Task /\ s # t /\ client[s] # NULL
                   /\ call[s].index \in 0..MaxNum - 1 /\ m_client_handle[call[s].index] = s
        BY <1>1, <3>5 DEF Slots, Registered
      <4>2. ASSUME NEW s \in Registered
            PROVE  client'[s] # NULL /\ call'[s].index \in 0..MaxNum - 1
                   /\ m_client_handle'[call'[s].index] = s
        BY <3>2, <3>3, <3>7, <4>1
      <4>3. client'[t] # NULL /\ call'[t].index \in 0..MaxNum - 1
            /\ m_client_handle'[call'[t].index] = t
        BY <3>1, <3>2, <3>3, <3>4, SizeAssumption
      <4> QED
        BY <3>2, <3>5, <3>6, <4>2, <4>3
    <3>9. \A s \in Task \ Registered' : client'[s] = NULL
      BY <1>1, <3>2, <3>5 DEF Slots
    <3>10. \A j \in 0..MaxNum - 1 : m_client_handle'[j] # NULL =>
             m_client_handle'[j] \in Registered' /\ call'[m_client_handle'[j]].index = j
      BY <1>1, <3>2, <3>3, <3>4, <3>5 DEF Slots, Registered
    <3>11. \A s \in Task : pc'[s] = "create" => up' = "up"
      BY <3>2, <3>6
    <3> QED
      BY <3>2, <3>6, <3>8, <3>9, <3>10, <3>11 DEF Slots
  <2> QED
    BY <2>2, <2>3
<1>2. ASSUME NEW t \in Task, CreateFails(t), ~ broken
      PROVE  Slots'
  BY <1>2 DEF CreateFails, Return, Goto, Slots, Registered
<1>3. ASSUME NEW t \in Task, Send(t), ~ broken
      PROVE  Slots'
  <2> DEFINE c == [client[t] EXCEPT !.send_count = 0,
                !.result = IF client[t].type = "CON" THEN client[t].result ELSE "SUCCESS"]
  <2>1. client[t] \in Clients
    BY <1>3, RegisteredClient DEF Send
  <2>2. c \in Clients
    BY <2>1, SentTyped, Zenon
  <2>3. client' = [client EXCEPT ![t] = c]
    BY <1>3 DEF Send
  <2>4. \A s \in Task : client'[s] = NULL <=> client[s] = NULL
    <3> HIDE DEF c
    <3> QED
      BY <2>1, <2>2, <2>3, ClientWritten, Zenon
  <2>5. Registered' = Registered
    BY <1>3 DEF Send, Goto, Registered
  <2> QED
    BY <1>3, <2>4, <2>5, SlotsKept, TypesStep DEF Send, Goto
<1>4. ASSUME NEW t \in Task, SendFails(t), ~ broken
      PROVE  Slots'
  <2> DEFINE c == [client[t] EXCEPT !.send_count = client[t].send_count + 1,
                !.result = IF client[t].send_count + 1 < MaxRetransmit
                           THEN client[t].result ELSE "FAILED"]
  <2>1. client[t] \in Clients
    BY <1>4, RegisteredClient DEF SendFails
  <2>2. c \in Clients
    BY <2>1, <1>4, NotSentTyped, ClientAssumption, Zenon DEF SendFails, Locals
  <2>3. client' = [client EXCEPT ![t] = c]
    BY <1>4 DEF SendFails
  <2>4. \A s \in Task : client'[s] = NULL <=> client[s] = NULL
    <3> HIDE DEF c
    <3> QED
      BY <2>1, <2>2, <2>3, ClientWritten, Zenon
  <2>5. Registered' = Registered
    BY <1>4 DEF SendFails, Goto, Registered
  <2> QED
    BY <1>4, <2>4, <2>5, SlotsKept, TypesStep DEF SendFails, Goto
<1>5. ASSUME NEW t \in Task, Await(t), ~ broken
      PROVE  Slots'
  <2> DEFINE c == [client[t] EXCEPT !.armed = TRUE, !.result = "WAITTING"]
  <2>1. client[t] \in Clients
    BY <1>5, RegisteredClient DEF Await
  <2>2. c \in Clients
    BY <2>1, ClientFields, Zenon DEF Results
  <2>3. client' = [client EXCEPT ![t] = c]
    BY <1>5 DEF Await
  <2>4. \A s \in Task : client'[s] = NULL <=> client[s] = NULL
    <3> HIDE DEF c
    <3> QED
      BY <2>1, <2>2, <2>3, ClientWritten, Zenon
  <2>5. Registered' = Registered
    BY <1>5 DEF Await, Goto, Registered
  <2> QED
    BY <1>5, <2>4, <2>5, SlotsKept, TypesStep DEF Await, Goto
<1>6. ASSUME NEW t \in Task, Wake(t), ~ broken
      PROVE  Slots'
  <2> DEFINE c == [client[t] EXCEPT !.sem = 0]
  <2>1. client[t] \in Clients
    BY <1>6, RegisteredClient DEF Wake
  <2>2. c \in Clients
    BY <2>1, ClientFields, Zenon
  <2>3. client' = [client EXCEPT ![t] = c]
    BY <1>6 DEF Wake
  <2>4. \A s \in Task : client'[s] = NULL <=> client[s] = NULL
    <3> HIDE DEF c
    <3> QED
      BY <2>1, <2>2, <2>3, ClientWritten, Zenon
  <2>5. Registered' = Registered
    BY <1>6 DEF Wake, Goto, Registered
  <2> QED
    BY <1>6, <2>4, <2>5, SlotsKept, TypesStep DEF Wake, Goto
<1>7. ASSUME NEW t \in Task, Analyse(t), ~ broken
      PROVE  Slots'
  <2> DEFINE c == [client[t] EXCEPT !.armed = FALSE]
  <2>1. client[t] \in Clients
    BY <1>7, RegisteredClient DEF Analyse
  <2>2. c \in Clients
    BY <2>1, ClientFields, Zenon
  <2>3. client' = [client EXCEPT ![t] = c]
    BY <1>7 DEF Analyse
  <2>4. \A s \in Task : client'[s] = NULL <=> client[s] = NULL
    <3> HIDE DEF c
    <3> QED
      BY <2>1, <2>2, <2>3, ClientWritten, Zenon
  <2>5. Registered' = Registered
    BY <1>7 DEF Analyse, Goto, Registered
  <2>6. \A s \in Task : call'[s].index = call[s].index
    <3>1. PICK rel : call' = [call EXCEPT ![t].rel = rel]
      BY <1>7, Zenon DEF Analyse
    <3> QED
      BY <3>1, CallKeeps
  <2> QED
    BY <1>7, <2>4, <2>5, <2>6, SlotsKept, TypesStep DEF Analyse, Goto
<1>8. ASSUME NEW t \in Task, Delete(t), ~ broken
      PROVE  Slots'
  <2> DEFINE i == call[t].index
  <2>1. t \in Registered
    BY <1>8 DEF Delete, Registered
  <2>2. /\ client' = [client EXCEPT ![t] = NULL]
        /\ m_client_handle' = [m_client_handle EXCEPT ![i] = NULL]
        /\ pc' = [pc EXCEPT ![t] = "idle"] /\ UNCHANGED <<up, scan, broken>>
        /\ \A s \in Task \ {t} : call'[s] = call[s]
    BY <1>8 DEF Delete, Return, Goto
  <2>3. Registered' = Registered \ {t}
    BY <2>2 DEF Registered
  <2>4. i \in 0..MaxNum - 1 /\ m_client_handle[i] = t
    BY <1>8, <2>1 DEF Slots
  <2> HIDE DEF i
  <2>5. \A s \in Registered \ {t} : call[s].index # i
    BY <1>8, <2>4 DEF Slots
  <2>6. \A s \in Registered' :
          /\ up' # "down" /\ client'[s] # NULL
          /\ call'[s].index \in 0..MaxNum - 1 /\ m_client_handle'[call'[s].index] = s
    <3> SUFFICES ASSUME NEW s \in Registered \ {t}
                 PROVE  /\ up' # "down" /\ client'[s] # NULL
                        /\ call'[s].index \in 0..MaxNum - 1
                        /\ m_client_handle'[call'[s].index] = s
      BY <2>3
    <3>1. s \in Task /\ up # "down" /\ client[s] # NULL
          /\ call[s].index \in 0..MaxNum - 1 /\ m_client_handle[call[s].index] = s
      BY <1>8 DEF Slots, Registered
    <3> QED
      BY <2>2, <2>5, <3>1
  <2>7. \A s \in Task \ Registered' : client'[s] = NULL
    BY <1>8, <2>2, <2>3 DEF Slots
  <2>8. \A j \in 0..MaxNum - 1 : m_client_handle'[j] # NULL =>
          m_client_handle'[j] \in Registered' /\ call'[m_client_handle'[j]].index = j
    <3> SUFFICES ASSUME NEW j \in 0..MaxNum - 1, m_client_handle'[j] # NULL
                 PROVE  m_client_handle'[j] \in Registered'
                        /\ call'[m_client_handle'[j]].index = j
      OBVIOUS
    <3>1. j # i /\ m_client_handle'[j] = m_client_handle[j] /\ j \in 0..MaxNum
      BY <2>2, <2>4, SizeAssumption
    <3>2. m_client_handle[j] \in Registered /\ call[m_client_handle[j]].index = j
      BY <1>8, <3>1 DEF Slots
    <3>3. m_client_handle[j] # t /\ m_client_handle[j] \in Task
      BY <3>1, <3>2 DEF Registered, i
    <3> QED
      BY <2>2, <2>3, <3>1, <3>2, <3>3
  <2>9. \A s \in Task : pc'[s] = "create" => up' = "up"
    BY <1>8, <2>2 DEF Slots
  <2>10. up' = "closing" => \A j \in 0..scan' - 1 : m_client_handle'[j] = NULL
    BY <1>8, <2>2, <2>4, SizeAssumption DEF Slots
  <2> QED
    BY <2>6, <2>7, <2>8, <2>9, <2>10 DEF Slots
<1>9. ASSUME NEW t \in Task, TimerFire(t), ~ broken
      PROVE  Slots'
  <2> DEFINE c == [client[t] EXCEPT !.armed = FALSE]
  <2>1. client[t] \in Clients
    BY <1>9 DEF TimerFire
  <2>2. c \in Clients
    BY <2>1, ClientFields, Zenon
  <2>3. client' = [client EXCEPT ![t] = c]
    BY <1>9 DEF TimerFire
  <2>4. \A s \in Task : client'[s] = NULL <=> client[s] = NULL
    <3> HIDE DEF c
    <3> QED
      BY <2>1, <2>2, <2>3, ClientWritten, Zenon
  <2>5. Registered' = Registered
    BY <1>9 DEF TimerFire, Goto, Registered
  <2> QED
    BY <1>9, <2>4, <2>5, SlotsKept, TypesStep DEF TimerFire, Goto
<1>10. ASSUME RecvMatch, ~ broken
      PROVE  Slots'
  <2> DEFINE t == m_client_handle[Min(Matching(recv.pkt))]
             c == [client[t] EXCEPT !.resp = recv.pkt, !.result = "SUCCESS"]
  <2>1. t \in Task /\ client[t] \in Clients
    BY <1>10, MatchedTask DEF RecvMatch
  <2>2. c \in Clients
    BY <1>10, <2>1, ClientFields, Zenon DEF RecvMatch, Locals, Results
  <2>3. client' = [client EXCEPT ![t] = c] /\ UNCHANGED <<task, table, broken>>
    BY <1>10 DEF RecvMatch
  <2> HIDE DEF t, c
  <2>4. \A s \in Task : client'[s] = NULL <=> client[s] = NULL
    BY <2>1, <2>2, <2>3, ClientWritten, Zenon
  <2>5. Registered' = Registered
    BY <2>3 DEF Registered
  <2> QED
    BY <1>10, <2>3, <2>4, <2>5, SlotsKept, TypesStep
<1>11. ASSUME RecvNoMatch, ~ broken
      PROVE  Slots'
  BY <1>11 DEF RecvNoMatch, Slots, Registered
<1>12. ASSUME RecvGive, ~ broken
      PROVE  Slots'
  <2>1. CASE Finds(recv)
    <3> DEFINE c == [client[recv.owner] EXCEPT !.sem = 1]
    <3>1. client[recv.owner] \in Clients /\ recv.owner \in Task
      BY <1>12, <2>1, FoundClient DEF RecvGive, Locals
    <3>2. c \in Clients
      BY <3>1, ClientFields, Zenon DEF Results
    <3>3. client' = [client EXCEPT ![recv.owner] = c] /\ UNCHANGED broken
      BY <1>12, <2>1 DEF RecvGive, Give
    <3>4. \A s \in Task : client'[s] = NULL <=> client[s] = NULL
      <4> HIDE DEF c
      <4> QED
        BY <3>1, <3>2, <3>3, ClientWritten, Zenon
    <3>5. Registered' = Registered
      BY <1>12 DEF RecvGive, Registered
    <3> QED
      BY <1>12, <3>3, <3>4, <3>5, SlotsKept, TypesStep DEF RecvGive
  <2>2. CASE ~ Finds(recv)
    BY <1>12, <2>2 DEF RecvGive, Give, Slots
  <2> QED
    BY <2>1, <2>2
<1>13. ASSUME TimerExpire, ~ broken
      PROVE  Slots'
  <2>1. CASE Finds(timer)
    <3> DEFINE c == [client[timer.owner] EXCEPT !.result = "TIMEOUT"]
    <3>1. client[timer.owner] \in Clients /\ timer.owner \in Task
      BY <1>13, <2>1, FoundClient DEF TimerExpire, Locals
    <3>2. c \in Clients
      BY <3>1, ClientFields, Zenon DEF Results
    <3>3. client' = [client EXCEPT ![timer.owner] = c] /\ UNCHANGED broken
      BY <1>13, <2>1 DEF TimerExpire, Give
    <3>4. \A s \in Task : client'[s] = NULL <=> client[s] = NULL
      <4> HIDE DEF c
      <4> QED
        BY <3>1, <3>2, <3>3, ClientWritten, ZenonT(60)
    <3>5. Registered' = Registered
      BY <1>13 DEF TimerExpire, Registered
    <3> QED
      BY <1>13, <3>3, <3>4, <3>5, SlotsKept, TypesStep DEF TimerExpire
  <2>2. CASE ~ Finds(timer)
    BY <1>13, <2>2 DEF TimerExpire, Give, Slots
  <2> QED
    BY <2>1, <2>2
<1>14. ASSUME TimerGive, ~ broken
      PROVE  Slots'
  <2>1. CASE Finds(timer)
    <3> DEFINE c == [client[timer.owner] EXCEPT !.sem = 1]
    <3>1. client[timer.owner] \in Clients /\ timer.owner \in Task
      BY <1>14, <2>1, FoundClient DEF TimerGive, Locals
    <3>2. c \in Clients
      BY <3>1, ClientFields, Zenon DEF Results
    <3>3. client' = [client EXCEPT ![timer.owner] = c] /\ UNCHANGED broken
      BY <1>14, <2>1 DEF TimerGive, Give
    <3>4. \A s \in Task : client'[s] = NULL <=> client[s] = NULL
      <4> HIDE DEF c
      <4> QED
        BY <3>1, <3>2, <3>3, ClientWritten, Zenon
    <3>5. Registered' = Registered
      BY <1>14 DEF TimerGive, Registered
    <3> QED
      BY <1>14, <3>3, <3>4, <3>5, SlotsKept, TypesStep DEF TimerGive
  <2>2. CASE ~ Finds(timer)
    BY <1>14, <2>2 DEF TimerGive, Give, Slots
  <2> QED
    BY <2>1, <2>2
<1>15. ASSUME ClientInit, ~ broken
      PROVE  Slots'
  <2>1. Registered = {} /\ Registered' = {}
    BY <1>15 DEF ClientInit, Slots, Registered
  <2>2. PICK w \in Behind : m_client_handle' = [EmptyTable EXCEPT ![MaxNum] = w]
    BY <1>15, ZenonT(60) DEF ClientInit
  <2>3. \A i \in 0..MaxNum - 1 : m_client_handle'[i] = NULL
    BY <2>2, SizeAssumption DEF EmptyTable
  <2> QED
    BY <1>15, <2>1, <2>3 DEF ClientInit, Slots
<1>16. ASSUME ClientInitFails, ~ broken
      PROVE  Slots'
  BY <1>16 DEF ClientInitFails, Slots, Registered
<1>17. ASSUME DestroyStart, ~ broken
      PROVE  Slots'
  BY <1>17 DEF DestroyStart, Slots, Registered
<1>18. ASSUME DestroyScan, ~ broken
      PROVE  Slots'
  BY <1>18, SizeAssumption DEF DestroyScan, Slots, Registered
<1>19. ASSUME DestroyFree, ~ broken
      PROVE  Slots'
  <2>1. \A i \in 0..MaxNum - 1 : m_client_handle[i] = NULL
    BY <1>19 DEF DestroyFree, Slots
  <2>2. Registered = {} /\ Registered' = {}
    BY <1>19, <2>1, NullAssumption DEF DestroyFree, Slots, Registered
  <2>3. \A i \in 0..MaxNum - 1 : m_client_handle'[i] = NULL
    BY <1>19, SizeAssumption DEF DestroyFree, EmptyTable
  <2> QED
    BY <1>19, <2>2, <2>3 DEF DestroyFree, Slots
<1>20. ASSUME NEW t \in Task, NEW k \in Kind, NEW p \in Peer, Begin(t, k, p), ~ broken
      PROVE  Slots'
  BY <1>20 DEF Begin, Goto, Slots, Registered
<1>21. ASSUME RecvStart, ~ broken
      PROVE  Slots'
  BY <1>21 DEF RecvStart, Slots, Registered
<1>22. ASSUME RecvRequest, ~ broken
      PROVE  Slots'
  BY <1>22 DEF RecvRequest, Slots, Registered
<1>23. CASE UNCHANGED vars
  BY <1>23 DEF vars, Slots, Registered
<1> QED
  BY <1>1, <1>2, <1>3, <1>4, <1>5, <1>6, <1>7, <1>8, <1>9, <1>10, <1>11,
     <1>12, <1>13, <1>14, <1>15, <1>16, <1>17, <1>18, <1>19, <1>20, <1>21, <1>22, <1>23
  DEF Next, TaskStep, Timeout, RecvStep, TimerStep, Other


-----------------------------------------------------------------------------

(* A waiting task goes on having a wake-up.                                *)
LEMMA WakeStep ==
  ASSUME IInv, [Next]_vars
  PROVE  WaitIsWoken'
<1> USE DEF IInv, Types, Registered, WaitIsWoken, Giving, Final, Places, task, table, ids, Idle
<1>1. ASSUME NEW t \in Task, Create(t), ~ broken
      PROVE  WaitIsWoken'
  BY <1>1 DEF Create, NewClient, Goto
<1>2. ASSUME NEW t \in Task, CreateFails(t), ~ broken
      PROVE  WaitIsWoken'
  BY <1>2 DEF CreateFails, Return, Goto
<1>3. ASSUME NEW t \in Task, Send(t), ~ broken
      PROVE  WaitIsWoken'
  BY <1>3 DEF Send, Goto, Datagram
<1>4. ASSUME NEW t \in Task, SendFails(t), ~ broken
      PROVE  WaitIsWoken'
  BY <1>4 DEF SendFails, Goto
<1>5. ASSUME NEW t \in Task, Await(t), ~ broken
      PROVE  WaitIsWoken'
  BY <1>5 DEF Await, Goto
<1>6. ASSUME NEW t \in Task, Wake(t), ~ broken
      PROVE  WaitIsWoken'
  BY <1>6 DEF Wake, Goto
<1>7. ASSUME NEW t \in Task, Analyse(t), ~ broken
      PROVE  WaitIsWoken'
  BY <1>7 DEF Analyse, Goto
<1>8. ASSUME NEW t \in Task, Delete(t), ~ broken
      PROVE  WaitIsWoken'
  BY <1>8 DEF Delete, Return, Goto
<1>9. ASSUME NEW t \in Task, TimerFire(t), ~ broken
      PROVE  WaitIsWoken'
  BY <1>9 DEF TimerFire
<1>10. ASSUME RecvMatch, ~ broken
      PROVE  WaitIsWoken'
  BY <1>10 DEF RecvMatch
<1>11. ASSUME RecvNoMatch, ~ broken
      PROVE  WaitIsWoken'
  BY <1>11 DEF RecvNoMatch
<1>12. ASSUME RecvGive, ~ broken
      PROVE  WaitIsWoken'
  <2>1. CASE Finds(recv)
    <3> DEFINE x == recv.owner
               c == [client[x] EXCEPT !.sem = 1]
    <3>1. client[x] \in Clients /\ x \in Task
      BY <1>12, <2>1, FoundClient DEF RecvGive, Locals
    <3>2. c.sem = 1 /\ c.result = client[x].result /\ c.armed = client[x].armed
      BY <3>1, ClientKeeps
    <3>3. client' = [client EXCEPT ![x] = c] /\ UNCHANGED broken
      BY <1>12, <2>1 DEF RecvGive, Give
    <3> HIDE DEF c
    <3> QED
      BY <1>12, <3>1, <3>2, <3>3 DEF RecvGive
  <2>2. CASE ~ Finds(recv)
    BY <1>12, <2>2 DEF RecvGive, Give
  <2> QED
    BY <2>1, <2>2
<1>13. ASSUME TimerExpire, ~ broken
      PROVE  WaitIsWoken'
  <2>1. CASE Finds(timer)
    <3> DEFINE x == timer.owner
               c == [client[x] EXCEPT !.result = "TIMEOUT"]
    <3>1. client[x] \in Clients /\ x \in Task
      BY <1>13, <2>1, FoundClient DEF TimerExpire, Locals
    <3>2. c.result = "TIMEOUT"
      BY <3>1, ClientKeeps
    <3>3. client' = [client EXCEPT ![x] = c] /\ UNCHANGED broken
      BY <1>13, <2>1 DEF TimerExpire
    <3>4. timer'.pc = "give" /\ timer'.owner = x
      BY <1>13 DEF TimerExpire, Callbacks
    <3> HIDE DEF c
    <3> QED
      BY <1>13, <3>1, <3>2, <3>3, <3>4 DEF TimerExpire
  <2>2. CASE ~ Finds(timer)
    BY <1>13, <2>2 DEF TimerExpire
  <2> QED
    BY <2>1, <2>2
<1>14. ASSUME TimerGive, ~ broken
      PROVE  WaitIsWoken'
  <2>1. CASE Finds(timer)
    <3> DEFINE x == timer.owner
               c == [client[x] EXCEPT !.sem = 1]
    <3>1. client[x] \in Clients /\ x \in Task
      BY <1>14, <2>1, FoundClient DEF TimerGive, Locals
    <3>2. c.sem = 1 /\ c.result = client[x].result /\ c.armed = client[x].armed
      BY <3>1, ClientKeeps
    <3>3. client' = [client EXCEPT ![x] = c] /\ UNCHANGED broken
      BY <1>14, <2>1 DEF TimerGive, Give
    <3> HIDE DEF c
    <3> QED
      BY <1>14, <3>1, <3>2, <3>3 DEF TimerGive
  <2>2. CASE ~ Finds(timer)
    BY <1>14, <2>2 DEF TimerGive, Give
  <2> QED
    BY <2>1, <2>2
<1>15. ASSUME ClientInit, ~ broken
      PROVE  WaitIsWoken'
  BY <1>15 DEF ClientInit, EmptyTable
<1>16. ASSUME ClientInitFails, ~ broken
      PROVE  WaitIsWoken'
  BY <1>16 DEF ClientInitFails
<1>17. ASSUME DestroyStart, ~ broken
      PROVE  WaitIsWoken'
  BY <1>17 DEF DestroyStart
<1>18. ASSUME DestroyScan, ~ broken
      PROVE  WaitIsWoken'
  BY <1>18 DEF DestroyScan
<1>19. ASSUME DestroyFree, ~ broken
      PROVE  WaitIsWoken'
  BY <1>19 DEF DestroyFree, EmptyTable
<1>20. ASSUME NEW t \in Task, NEW k \in Kind, NEW p \in Peer, Begin(t, k, p), ~ broken
      PROVE  WaitIsWoken'
  BY <1>20 DEF Begin, Goto
<1>21. ASSUME RecvStart, ~ broken
      PROVE  WaitIsWoken'
  BY <1>21 DEF RecvStart, Answers
<1>22. ASSUME RecvRequest, ~ broken
      PROVE  WaitIsWoken'
  BY <1>22 DEF RecvRequest
<1>23. CASE UNCHANGED vars
  BY <1>23 DEF vars
<1> QED
  BY <1>1, <1>2, <1>3, <1>4, <1>5, <1>6, <1>7, <1>8, <1>9, <1>10, <1>11,
     <1>12, <1>13, <1>14, <1>15, <1>16, <1>17, <1>18, <1>19, <1>20, <1>21, <1>22, <1>23, ZenonT(60)
  DEF Next, TaskStep, Timeout, RecvStep, TimerStep, Other

(* A step that sends nothing, takes no id, accepts no answer and returns   *)
(* none leaves ids to their requests.                                      *)
LEMMA IdsKept ==
  ASSUME Ids, ~ broken, UNCHANGED <<net, used, clash>>,
         recv'.pc = "match" => recv' = recv,
         Registered' \subseteq Registered,
         \A t \in Registered' :
           /\ client'[t].msgid = client[t].msgid /\ client'[t].req = client[t].req
           /\ client'[t].resp = client[t].resp /\ call'[t].req = call[t].req,
         \A t \in Task : Answered(t)' => Answered(t) /\ call'[t] = call[t]
  PROVE  Ids'
<1> SUFFICES ASSUME ~ clash
             PROVE  Ids'
  BY DEF Ids
<1>1. /\ \A q \in net : q.id \in used
      /\ \A t \in Registered' : client'[t].msgid \in used /\ client'[t].req = call'[t].req
  BY DEF Ids
<1>2. /\ \A q \in net, t \in Registered' :
           q.id = client'[t].msgid => q.req = client'[t].req
      /\ \A s, t \in Registered' : client'[s].msgid = client'[t].msgid => s = t
  BY DEF Ids
<1>3. recv'.pc = "match" => \E q \in net : q.id = recv'.pkt.id /\ q.req = recv'.pkt.req
  BY DEF Ids
<1>4. \A t \in Registered' : client'[t].resp # NULL => client'[t].resp.req = client'[t].req
  BY DEF Ids
<1>5. AnswersOwn'
  BY DEF Ids, AnswersOwn
<1> QED
  BY <1>1, <1>2, <1>3, <1>4, <1>5 DEF Ids

(* Ids go on belonging to one request each.                                *)
LEMMA IdsStep ==
  ASSUME IInv, [Next]_vars
  PROVE  Ids'
<1> USE DEF IInv, Types, task, table, ids
<1>1. ASSUME NEW t \in Task, Create(t), ~ broken
      PROVE  Ids'
  <2>1. SUFFICES ASSUME ~ clash, m_rand \notin used
                  PROVE  Ids'
    BY <1>1, Zenon DEF Create, Ids
  <2> DEFINE c == NewClient(t)
  <2>2. c.msgid = m_rand /\ c.req = call[t].req /\ c.resp = NULL
    BY DEF NewClient
  <2>3. /\ client' = [client EXCEPT ![t] = c] /\ used' = used \cup {m_rand}
        /\ UNCHANGED <<net, recv>> /\ pc[t] = "create" /\ pc' = [pc EXCEPT ![t] = "send"]
    BY <1>1 DEF Create, Goto
  <2>4. call'[t].req = call[t].req /\ \A s \in Task \ {t} : call'[s] = call[s]
    BY <1>1, CallKeeps DEF Create
  <2> HIDE DEF c
  <2>5. t \notin Registered /\ Registered' = Registered \cup {t} /\ Registered \subseteq Task
    BY <2>3 DEF Registered
  <2>6. client'[t] = c /\ \A s \in Registered : client'[s] = client[s] /\ call'[s] = call[s]
    BY <2>3, <2>4, <2>5
  <2>7. \A q \in net : q.id \in used /\ q.id # m_rand
    BY <1>1, <2>1 DEF Ids
  <2>8. \A s \in Registered : client[s].msgid \in used /\ client[s].msgid # m_rand
    BY <1>1, <2>1 DEF Ids
  <2>9. \A s \in Registered' : client'[s].msgid \in used' /\ client'[s].req = call'[s].req
    BY <1>1, <2>1, <2>2, <2>3, <2>4, <2>5, <2>6 DEF Ids
  <2>10. \A q \in net' : \A s \in Registered' :
           q.id = client'[s].msgid => q.req = client'[s].req
    <3>1. \A q \in net : q.id # client'[t].msgid
      BY <2>2, <2>6, <2>7
    <3>2. \A q \in net : \A s \in Registered : q.id = client[s].msgid => q.req = client[s].req
      BY <1>1, <2>1 DEF Ids
    <3> QED
      BY <2>3, <2>5, <2>6, <3>1, <3>2, ZenonT(60)
  <2>11. \A r, s \in Registered' : client'[r].msgid = client'[s].msgid => r = s
    BY <1>1, <2>1, <2>2, <2>5, <2>6, <2>8 DEF Ids
  <2>12. \A s \in Registered' : client'[s].resp # NULL => client'[s].resp.req = client'[s].req
    BY <1>1, <2>1, <2>2, <2>5, <2>6 DEF Ids
  <2>13. \A s \in Task : Answered(s)' => Answered(s) /\ call'[s] = call[s]
    BY <2>3, <2>4 DEF Answered
  <2>14. AnswersOwn'
    BY <1>1, <2>1, <2>13 DEF Ids, AnswersOwn
  <2> QED
    BY <1>1, <2>1, <2>3, <2>7, <2>9, <2>10, <2>11, <2>12, <2>14 DEF Ids
<1>2. ASSUME NEW t \in Task, CreateFails(t), ~ broken
      PROVE  Ids'
  <2>1. UNCHANGED client /\ Registered' = Registered
    BY <1>2 DEF CreateFails, Return, Goto, Registered
  <2>2. /\ \A s \in Registered : call'[s] = call[s]
        /\ \A s \in Task : Answered(s)' => Answered(s) /\ call'[s] = call[s]
    BY <1>2 DEF CreateFails, Return, Goto, Registered, Answered
  <2> QED
    BY <1>2, <2>1, <2>2, IdsKept DEF CreateFails
<1>3. ASSUME NEW t \in Task, Send(t), ~ broken
      PROVE  Ids'
  <2>1. SUFFICES ASSUME ~ clash
                  PROVE  Ids'
    BY <1>3 DEF Send, Ids
  <2> DEFINE c == [client[t] EXCEPT !.send_count = 0,
                !.result = IF client[t].type = "CON" THEN client[t].result ELSE "SUCCESS"]
  <2>2. client[t] \in Clients /\ t \in Registered
    BY <1>3, RegisteredClient DEF Send
  <2>3. c.msgid = client[t].msgid /\ c.req = client[t].req /\ c.resp = client[t].resp
    BY <2>2, ClientKeeps
  <2>4. client' = [client EXCEPT ![t] = c] /\ net' = net \cup {Datagram(t)}
        /\ UNCHANGED <<call, used, recv, clash, broken>>
    BY <1>3 DEF Send
  <2> HIDE DEF c
  <2>5. Registered' = Registered /\ Registered \subseteq Task
    BY <1>3 DEF Send, Goto, Registered
  <2>6. \A s \in Registered :
          /\ client'[s].msgid = client[s].msgid /\ client'[s].req = client[s].req
          /\ client'[s].resp = client[s].resp
    BY <2>3, <2>4, <2>5
  <2>7. Datagram(t).id = client[t].msgid /\ Datagram(t).req = client[t].req
    BY <1>3, <2>1, <2>2 DEF Datagram, Ids
  <2>8. \A q \in net' : q.id \in used'
    BY <1>3, <2>1, <2>2, <2>4, <2>7 DEF Ids
  <2>9. \A q \in net' : \A s \in Registered' :
          q.id = client'[s].msgid => q.req = client'[s].req
    BY <1>3, <2>1, <2>2, <2>4, <2>5, <2>6, <2>7 DEF Ids
  <2>10. \A s \in Task : Answered(s)' => Answered(s)
    BY <1>3 DEF Send, Goto, Answered
  <2>11. AnswersOwn'
    BY <1>3, <2>1, <2>4, <2>10 DEF Ids, AnswersOwn
  <2>12. /\ \A s \in Registered' : client'[s].msgid \in used' /\ client'[s].req = call'[s].req
         /\ \A r, s \in Registered' : client'[r].msgid = client'[s].msgid => r = s
         /\ \A s \in Registered' :
              client'[s].resp # NULL => client'[s].resp.req = client'[s].req
    BY <1>3, <2>1, <2>4, <2>5, <2>6 DEF Ids
  <2>13. recv'.pc = "match" => \E q \in net' : q.id = recv'.pkt.id /\ q.req = recv'.pkt.req
    BY <1>3, <2>1, <2>4 DEF Ids
  <2> QED
    BY <2>8, <2>9, <2>11, <2>12, <2>13 DEF Ids
<1>4. ASSUME NEW t \in Task, SendFails(t), ~ broken
      PROVE  Ids'
  <2> DEFINE c == [client[t] EXCEPT !.send_count = client[t].send_count + 1,
                !.result = IF client[t].send_count + 1 < MaxRetransmit
                           THEN client[t].result ELSE "FAILED"]
  <2>1. client[t] \in Clients
    BY <1>4, RegisteredClient DEF SendFails
  <2>2. c.msgid = client[t].msgid /\ c.req = client[t].req /\ c.resp = client[t].resp
    BY <2>1, ClientKeeps
  <2>3. client' = [client EXCEPT ![t] = c] /\ UNCHANGED call
    BY <1>4 DEF SendFails
  <2> HIDE DEF c
  <2>4. Registered' = Registered
    BY <1>4 DEF SendFails, Goto, Registered
  <2>5. \A s \in Registered :
          /\ client'[s].msgid = client[s].msgid /\ client'[s].req = client[s].req
          /\ client'[s].resp = client[s].resp
    BY <2>2, <2>3 DEF Registered
  <2>6. \A s \in Task : Answered(s)' => Answered(s) /\ call'[s] = call[s]
    BY <1>4, <2>3 DEF SendFails, Goto, Answered, Locals
  <2> QED
    BY <1>4, <2>3, <2>4, <2>5, <2>6, IdsKept DEF SendFails
<1>5. ASSUME NEW t \in Task, Await(t), ~ broken
      PROVE  Ids'
  <2> DEFINE c == [client[t] EXCEPT !.armed = TRUE, !.result = "WAITTING"]
  <2>1. client[t] \in Clients
    BY <1>5, RegisteredClient DEF Await
  <2>2. c.msgid = client[t].msgid /\ c.req = client[t].req /\ c.resp = client[t].resp
    BY <2>1, ClientKeeps
  <2>3. client' = [client EXCEPT ![t] = c] /\ UNCHANGED call
    BY <1>5 DEF Await
  <2> HIDE DEF c
  <2>4. Registered' = Registered
    BY <1>5 DEF Await, Goto, Registered
  <2>5. \A s \in Registered :
          /\ client'[s].msgid = client[s].msgid /\ client'[s].req = client[s].req
          /\ client'[s].resp = client[s].resp
    BY <2>2, <2>3 DEF Registered
  <2>6. \A s \in Task : Answered(s)' => Answered(s) /\ call'[s] = call[s]
    BY <1>5, <2>3 DEF Await, Goto, Answered, Locals
  <2> QED
    BY <1>5, <2>3, <2>4, <2>5, <2>6, IdsKept DEF Await
<1>6. ASSUME NEW t \in Task, Wake(t), ~ broken
      PROVE  Ids'
  <2> DEFINE c == [client[t] EXCEPT !.sem = 0]
  <2>1. client[t] \in Clients
    BY <1>6, RegisteredClient DEF Wake
  <2>2. c.msgid = client[t].msgid /\ c.req = client[t].req /\ c.resp = client[t].resp
    BY <2>1, ClientKeeps
  <2>3. client' = [client EXCEPT ![t] = c] /\ UNCHANGED call
    BY <1>6 DEF Wake
  <2> HIDE DEF c
  <2>4. Registered' = Registered
    BY <1>6 DEF Wake, Goto, Registered
  <2>5. \A s \in Registered :
          /\ client'[s].msgid = client[s].msgid /\ client'[s].req = client[s].req
          /\ client'[s].resp = client[s].resp
    BY <2>2, <2>3 DEF Registered
  <2>6. \A s \in Task : Answered(s)' => Answered(s) /\ call'[s] = call[s]
    BY <1>6, <2>3 DEF Wake, Goto, Answered, Locals
  <2> QED
    BY <1>6, <2>3, <2>4, <2>5, <2>6, IdsKept DEF Wake
<1>7. ASSUME NEW t \in Task, Analyse(t), ~ broken
      PROVE  Ids'
  <2>1. SUFFICES ASSUME ~ clash
                  PROVE  Ids'
    BY <1>7 DEF Analyse, Ids
  <2> DEFINE c == [client[t] EXCEPT !.armed = FALSE]
  <2>2. client[t] \in Clients /\ t \in Registered
    BY <1>7, RegisteredClient DEF Analyse
  <2>3. c.msgid = client[t].msgid /\ c.req = client[t].req /\ c.resp = client[t].resp
    BY <2>2, ClientKeeps
  <2>4. client' = [client EXCEPT ![t] = c] /\ UNCHANGED <<net, used, recv, clash, broken>>
    BY <1>7 DEF Analyse
  <2> HIDE DEF c
  <2>5. Registered' = Registered /\ Registered \subseteq Task
    BY <1>7 DEF Analyse, Goto, Registered
  <2>6. \A s \in Registered :
          /\ client'[s].msgid = client[s].msgid /\ client'[s].req = client[s].req
          /\ client'[s].resp = client[s].resp
    BY <2>3, <2>4, <2>5
  <2>7. PICK rel \in {NULL, Result(client[t]), NoData(client[t])} :
          call' = [call EXCEPT ![t].rel = rel]
    BY <1>7, Zenon DEF Analyse
  <2>8. \/ rel = NULL \/ rel.resp = NULL \/ rel.resp = client[t].resp
    <3>1. \A c1 \in Clients : Result(c1).resp = NULL \/ Result(c1).resp = c1.resp
      BY Zenon DEF Result
    <3>2. \A c1 \in Clients : NoData(c1).resp = NULL
      BY Zenon DEF NoData
    <3> QED
      BY <2>2, <2>7, <3>1, <3>2, Zenon
  <2>9. /\ call'[t].req = call[t].req /\ call'[t].rel = rel
        /\ \A s \in Task \ {t} : call'[s] = call[s]
    BY <2>7, CallKeeps
  <2>10. client[t].resp # NULL => client[t].resp.req = call[t].req
    BY <1>7, <2>1, <2>2 DEF Ids
  <2>11. \A s \in Task : Answered(s)' => call'[s].rel.resp.req = call'[s].req
    <3>1. Answered(t)' => call'[t].rel.resp.req = call'[t].req
      BY <2>8, <2>9, <2>10 DEF Answered
    <3>2. \A s \in Task \ {t} : Answered(s)' => Answered(s) /\ call'[s] = call[s]
      BY <1>7, <2>9 DEF Analyse, Goto, Answered
    <3>3. \A s \in Task \ {t} : Answered(s)' => call'[s].rel.resp.req = call'[s].req
      BY <1>7, <2>1, <3>2 DEF Ids, AnswersOwn
    <3> QED
      BY <3>1, <3>3
  <2>12. \A s \in Registered : call'[s].req = call[s].req
    BY <2>5, <2>9
  <2>13. /\ \A s \in Registered' : client'[s].msgid \in used' /\ client'[s].req = call'[s].req
         /\ \A s \in Registered' :
              client'[s].resp # NULL => client'[s].resp.req = client'[s].req
    <3>1. \A s \in Registered : /\ client[s].msgid \in used /\ client[s].req = call[s].req
                                /\ client[s].resp # NULL => client[s].resp.req = client[s].req
      BY <1>7, <2>1, Zenon DEF Ids
    <3>2. used' = used
      BY <2>4, Zenon
    <3> QED
      BY <2>5, <2>6, <2>12, <3>1, <3>2, Zenon
  <2>14. /\ \A q \in net' : q.id \in used'
         /\ \A q \in net' : \A s \in Registered' :
              q.id = client'[s].msgid => q.req = client'[s].req
         /\ \A r, s \in Registered' : client'[r].msgid = client'[s].msgid => r = s
    <3>1. /\ \A q \in net : q.id \in used
          /\ \A q \in net : \A s \in Registered :
               q.id = client[s].msgid => q.req = client[s].req
          /\ \A r, s \in Registered : client[r].msgid = client[s].msgid => r = s
      BY <1>7, <2>1, Zenon DEF Ids
    <3>2. used' = used /\ net' = net
      BY <2>4, Zenon
    <3>3. \A r, s \in Registered' : client'[r].msgid = client'[s].msgid => r = s
      <4> SUFFICES ASSUME NEW r \in Registered, NEW s \in Registered,
                          client'[r].msgid = client'[s].msgid
                   PROVE  r = s
        BY <2>5, Zenon
      <4>1. client[r].msgid = client[s].msgid
        BY <2>6, Zenon
      <4> QED
        BY <3>1, <4>1, Zenon
    <3>4. \A q \in net' : \A s \in Registered' :
            q.id = client'[s].msgid => q.req = client'[s].req
      <4> SUFFICES ASSUME NEW q \in net, NEW s \in Registered, q.id = client'[s].msgid
                   PROVE  q.req = client'[s].req
        BY <2>5, <3>2, Zenon
      <4>1. q.id = client[s].msgid /\ client'[s].req = client[s].req
        BY <2>6, Zenon
      <4> QED
        BY <3>1, <4>1, Zenon
    <3> QED
      BY <3>1, <3>2, <3>3, <3>4, Zenon
  <2>15. recv'.pc = "match" => \E q \in net' : q.id = recv'.pkt.id /\ q.req = recv'.pkt.req
    BY <1>7, <2>1, <2>4 DEF Ids
  <2>16. AnswersOwn'
    BY <2>11 DEF AnswersOwn
  <2> QED
    BY <2>13, <2>14, <2>15, <2>16 DEF Ids
<1>8. ASSUME NEW t \in Task, Delete(t), ~ broken
      PROVE  Ids'
  <2>1. /\ client' = [client EXCEPT ![t] = NULL]
        /\ pc' = [pc EXCEPT ![t] = "idle"]
        /\ \A s \in Task \ {t} : call'[s] = call[s]
    BY <1>8 DEF Delete, Return, Goto
  <2>2. Registered' = Registered \ {t}
    BY <2>1 DEF Registered
  <2>3. \A s \in Task : Answered(s)' => Answered(s) /\ call'[s] = call[s]
    BY <2>1 DEF Answered
  <2>4. \A s \in Registered \ {t} : client'[s] = client[s] /\ call'[s] = call[s]
    BY <2>1 DEF Registered
  <2> QED
    BY <1>8, <2>2, <2>3, <2>4, IdsKept DEF Delete
<1>9. ASSUME NEW t \in Task, TimerFire(t), ~ broken
      PROVE  Ids'
  <2> DEFINE c == [client[t] EXCEPT !.armed = FALSE]
  <2>1. client[t] \in Clients
    BY <1>9 DEF TimerFire
  <2>2. c.msgid = client[t].msgid /\ c.req = client[t].req /\ c.resp = client[t].resp
    BY <2>1, ClientKeeps
  <2>3. client' = [client EXCEPT ![t] = c] /\ UNCHANGED call
    BY <1>9 DEF TimerFire
  <2> HIDE DEF c
  <2>4. Registered' = Registered
    BY <1>9 DEF TimerFire, Goto, Registered
  <2>5. \A s \in Registered :
          /\ client'[s].msgid = client[s].msgid /\ client'[s].req = client[s].req
          /\ client'[s].resp = client[s].resp
    BY <2>2, <2>3 DEF Registered
  <2>6. \A s \in Task : Answered(s)' => Answered(s) /\ call'[s] = call[s]
    BY <1>9, <2>3 DEF TimerFire, Goto, Answered, Locals
  <2> QED
    BY <1>9, <2>3, <2>4, <2>5, <2>6, IdsKept DEF TimerFire
<1>10. ASSUME RecvMatch, ~ broken
      PROVE  Ids'
  <2>1. SUFFICES ASSUME ~ clash
                  PROVE  Ids'
    BY <1>10, Zenon DEF RecvMatch, Ids
  <2> DEFINE t == m_client_handle[Min(Matching(recv.pkt))]
             c == [client[t] EXCEPT !.resp = recv.pkt, !.result = "SUCCESS"]
  <2>2. t \in Registered /\ t \in Task /\ client[t] \in Clients /\ client[t].msgid = recv.pkt.id
    BY <1>10, MatchedTask DEF RecvMatch
  <2>3. c.msgid = client[t].msgid /\ c.req = client[t].req /\ c.resp = recv.pkt
    BY <2>2, ClientKeeps
  <2>4. /\ client' = [client EXCEPT ![t] = c]
        /\ recv' = [Idle EXCEPT !.pc = "give", !.owner = t, !.req = client[t].req]
        /\ UNCHANGED <<pc, call, net, used, clash, broken>> /\ recv.pc = "match"
    BY <1>10 DEF RecvMatch
  <2> HIDE DEF t, c
  <2>5. recv.pkt.req = client[t].req
    BY <1>10, <2>1, <2>2, <2>4 DEF Ids
  <2>6. Registered' = Registered /\ Registered \subseteq Task
    BY <2>4 DEF Registered
  <2>7. \A s \in Registered :
          /\ client'[s].msgid = client[s].msgid /\ client'[s].req = client[s].req
          /\ client'[s].resp = client[s].resp \/ (s = t /\ client'[s].resp = recv.pkt)
    BY <2>2, <2>3, <2>4, <2>6
  <2>8. recv'.pc = "give"
    BY <2>4 DEF Idle
  <2>9. \A s \in Task : Answered(s)' => Answered(s)
    BY <2>4 DEF Answered
  <2>10. AnswersOwn'
    BY <1>10, <2>1, <2>4, <2>9 DEF Ids, AnswersOwn
  <2>11. \A s \in Registered' : client'[s].resp # NULL => client'[s].resp.req = client'[s].req
    BY <1>10, <2>1, <2>5, <2>6, <2>7 DEF Ids
  <2> QED
    BY <1>10, <2>1, <2>4, <2>6, <2>7, <2>8, <2>10, <2>11 DEF Ids
<1>11. ASSUME RecvNoMatch, ~ broken
      PROVE  Ids'
  <2>1. UNCHANGED <<pc, call, client>>
    BY <1>11 DEF RecvNoMatch
  <2>2. Registered' = Registered /\ \A s \in Task : Answered(s)' => Answered(s)
    BY <2>1 DEF Registered, Answered
  <2> QED
    BY <1>11, <2>1, <2>2, IdsKept DEF RecvNoMatch, Idle
<1>12. ASSUME RecvGive, ~ broken
      PROVE  Ids'
  <2>1. CASE Finds(recv)
    <3> DEFINE x == recv.owner
               c == [client[x] EXCEPT !.sem = 1]
    <3>1. client[x] \in Clients /\ x \in Task
      BY <1>12, <2>1, FoundClient DEF RecvGive, Locals
    <3>2. c.msgid = client[x].msgid /\ c.req = client[x].req /\ c.resp = client[x].resp
      BY <3>1, ClientKeeps
    <3>3. client' = [client EXCEPT ![x] = c] /\ UNCHANGED call
      BY <1>12, <2>1 DEF RecvGive, Give
    <3> HIDE DEF c
    <3>4. Registered' = Registered
      BY <1>12 DEF RecvGive, Registered
    <3>5. \A s \in Registered :
            /\ client'[s].msgid = client[s].msgid /\ client'[s].req = client[s].req
            /\ client'[s].resp = client[s].resp
      BY <3>1, <3>2, <3>3 DEF Registered
    <3>6. \A s \in Task : Answered(s)' => Answered(s) /\ call'[s] = call[s]
      BY <1>12, <3>3 DEF RecvGive, Answered
    <3> QED
      BY <1>12, <3>3, <3>4, <3>5, <3>6, IdsKept DEF RecvGive, Idle
  <2>2. CASE ~ Finds(recv)
    BY <1>12, <2>2 DEF RecvGive, Give, Ids
  <2> QED
    BY <2>1, <2>2
<1>13. ASSUME TimerExpire, ~ broken
      PROVE  Ids'
  <2>1. CASE Finds(timer)
    <3> DEFINE x == timer.owner
               c == [client[x] EXCEPT !.result = "TIMEOUT"]
    <3>1. client[x] \in Clients /\ x \in Task
      BY <1>13, <2>1, FoundClient DEF TimerExpire, Locals
    <3>2. c.msgid = client[x].msgid /\ c.req = client[x].req /\ c.resp = client[x].resp
      BY <3>1, ClientKeeps
    <3>3. client' = [client EXCEPT ![x] = c] /\ UNCHANGED call
      BY <1>13, <2>1 DEF TimerExpire, Give
    <3> HIDE DEF c
    <3>4. Registered' = Registered
      BY <1>13 DEF TimerExpire, Registered
    <3>5. \A s \in Registered :
            /\ client'[s].msgid = client[s].msgid /\ client'[s].req = client[s].req
            /\ client'[s].resp = client[s].resp
      BY <3>1, <3>2, <3>3 DEF Registered
    <3>6. \A s \in Task : Answered(s)' => Answered(s) /\ call'[s] = call[s]
      BY <1>13, <3>3 DEF TimerExpire, Answered
    <3> QED
      BY <1>13, <3>3, <3>4, <3>5, <3>6, IdsKept DEF TimerExpire, Idle
  <2>2. CASE ~ Finds(timer)
    BY <1>13, <2>2 DEF TimerExpire, Give, Ids
  <2> QED
    BY <2>1, <2>2
<1>14. ASSUME TimerGive, ~ broken
      PROVE  Ids'
  <2>1. CASE Finds(timer)
    <3> DEFINE x == timer.owner
               c == [client[x] EXCEPT !.sem = 1]
    <3>1. client[x] \in Clients /\ x \in Task
      BY <1>14, <2>1, FoundClient DEF TimerGive, Locals
    <3>2. c.msgid = client[x].msgid /\ c.req = client[x].req /\ c.resp = client[x].resp
      BY <3>1, ClientKeeps
    <3>3. client' = [client EXCEPT ![x] = c] /\ UNCHANGED call
      BY <1>14, <2>1 DEF TimerGive, Give
    <3> HIDE DEF c
    <3>4. Registered' = Registered
      BY <1>14 DEF TimerGive, Registered
    <3>5. \A s \in Registered :
            /\ client'[s].msgid = client[s].msgid /\ client'[s].req = client[s].req
            /\ client'[s].resp = client[s].resp
      BY <3>1, <3>2, <3>3 DEF Registered
    <3>6. \A s \in Task : Answered(s)' => Answered(s) /\ call'[s] = call[s]
      BY <1>14, <3>3 DEF TimerGive, Answered
    <3> QED
      BY <1>14, <3>3, <3>4, <3>5, <3>6, IdsKept DEF TimerGive, Idle
  <2>2. CASE ~ Finds(timer)
    BY <1>14, <2>2 DEF TimerGive, Give, Ids
  <2> QED
    BY <2>1, <2>2
<1>15. ASSUME ClientInit, ~ broken
      PROVE  Ids'
  <2>1. UNCHANGED <<pc, call, client>>
    BY <1>15 DEF ClientInit
  <2>2. Registered' = Registered /\ \A s \in Task : Answered(s)' => Answered(s)
    BY <2>1 DEF Registered, Answered
  <2> QED
    BY <1>15, <2>1, <2>2, IdsKept DEF ClientInit
<1>16. ASSUME ClientInitFails, ~ broken
      PROVE  Ids'
  <2>1. UNCHANGED <<pc, call, client>>
    BY <1>16 DEF ClientInitFails
  <2>2. Registered' = Registered /\ \A s \in Task : Answered(s)' => Answered(s)
    BY <2>1 DEF Registered, Answered
  <2> QED
    BY <1>16, <2>1, <2>2, IdsKept DEF ClientInitFails
<1>17. ASSUME DestroyStart, ~ broken
      PROVE  Ids'
  <2>1. UNCHANGED <<pc, call, client>>
    BY <1>17 DEF DestroyStart
  <2>2. Registered' = Registered /\ \A s \in Task : Answered(s)' => Answered(s)
    BY <2>1 DEF Registered, Answered
  <2> QED
    BY <1>17, <2>1, <2>2, IdsKept DEF DestroyStart
<1>18. ASSUME DestroyScan, ~ broken
      PROVE  Ids'
  <2>1. UNCHANGED <<pc, call, client>>
    BY <1>18 DEF DestroyScan
  <2>2. Registered' = Registered /\ \A s \in Task : Answered(s)' => Answered(s)
    BY <2>1 DEF Registered, Answered
  <2> QED
    BY <1>18, <2>1, <2>2, IdsKept DEF DestroyScan
<1>19. ASSUME DestroyFree, ~ broken
      PROVE  Ids'
  <2>1. UNCHANGED <<pc, call, client>>
    BY <1>19 DEF DestroyFree
  <2>2. Registered' = Registered /\ \A s \in Task : Answered(s)' => Answered(s)
    BY <2>1 DEF Registered, Answered
  <2> QED
    BY <1>19, <2>1, <2>2, IdsKept DEF DestroyFree
<1>20. ASSUME NEW t \in Task, NEW k \in Kind, NEW p \in Peer, Begin(t, k, p), ~ broken
      PROVE  Ids'
  <2>1. UNCHANGED client /\ Registered' = Registered
    BY <1>20 DEF Begin, Goto, Registered
  <2>2. /\ \A s \in Registered : call'[s] = call[s]
        /\ \A s \in Task : Answered(s)' => Answered(s) /\ call'[s] = call[s]
    BY <1>20 DEF Begin, Goto, Registered, Answered
  <2> QED
    BY <1>20, <2>1, <2>2, IdsKept, Zenon DEF Begin
<1>21. ASSUME RecvStart, ~ broken
      PROVE  Ids'
  <2>1. UNCHANGED <<pc, call, client>>
    BY <1>21 DEF RecvStart
  <2>2. Registered' = Registered /\ \A s \in Task : Answered(s)' => Answered(s)
    BY <2>1 DEF Registered, Answered
  <2>3. PICK d \in Answers : recv' = [Idle EXCEPT !.pc = "match", !.pkt = d]
    BY <1>21, Zenon DEF RecvStart
  <2>4. \E q \in net : q.id = d.id /\ q.req = d.req
    BY AnswersTyped
  <2>5. recv'.pkt = d
    BY <2>3 DEF Idle
  <2>6. broken' \/ clash' \/ AnswersOwn'
    BY <1>21, <2>1, <2>2 DEF RecvStart, Ids, AnswersOwn
  <2> QED
    BY <1>21, <2>1, <2>2, <2>4, <2>5, <2>6 DEF RecvStart, Ids, AnswersOwn
<1>22. ASSUME RecvRequest, ~ broken
      PROVE  Ids'
  <2>1. UNCHANGED <<pc, call, client>>
    BY <1>22 DEF RecvRequest
  <2>2. Registered' = Registered /\ \A s \in Task : Answered(s)' => Answered(s)
    BY <2>1 DEF Registered, Answered
  <2> QED
    BY <1>22, <2>1, <2>2, IdsKept DEF RecvRequest
<1>23. CASE UNCHANGED vars
  <2>1. UNCHANGED <<net, used, clash, broken, recv, pc, call, client>>
    BY <1>23 DEF vars
  <2>2. Registered' = Registered /\ \A t \in Task : Answered(t)' => Answered(t)
    BY <2>1 DEF Registered, Answered
  <2>3. CASE ~ broken
    BY <2>1, <2>2, <2>3, IdsKept
  <2>4. CASE broken
    BY <2>1, <2>4 DEF Ids
  <2> QED
    BY <2>3, <2>4
<1> QED
  BY <1>1, <1>2, <1>3, <1>4, <1>5, <1>6, <1>7, <1>8, <1>9, <1>10, <1>11,
     <1>12, <1>13, <1>14, <1>15, <1>16, <1>17, <1>18, <1>19, <1>20, <1>21, <1>22, <1>23
  DEF Next, TaskStep, Timeout, RecvStep, TimerStep, Other

(* The invariant holds in every state.                                     *)
THEOREM InvariantHolds == Spec => []IInv
<1>1. Init => IInv
  <2> SUFFICES ASSUME Init
               PROVE  IInv
    OBVIOUS
  <2>1. Flags
    BY Zenon DEF Init, Flags
  <2>2. Registered = {}
    BY DEF Init, Registered
  <2>3. Idle \in Callbacks
    BY CallbackFields, Zenon
  <2>4. NoCall \in Calls
    <3>1. -1 \in -1..MaxNum /\ 0 \in 0..MaxRequests
      BY SizeAssumption, BoundAssumption
    <3> QED
      BY <3>1, Zenon DEF NoCall, Calls
  <2>5. m_client_handle \in [0..MaxNum -> Task \cup {NULL, Junk}]
    BY DEF Init, EmptyTable
  <2>6. Types
    BY <2>3, <2>4, <2>5, SizeAssumption, BoundAssumption DEF Init, Types, Places
  <2>7. Locals
    BY <2>2 DEF Init, Locals, Idle, NoCall
  <2>8. Slots
    BY <2>2, SizeAssumption DEF Init, Slots, EmptyTable
  <2>9. WaitIsWoken
    BY DEF Init, WaitIsWoken
  <2>10. Ids
    BY <2>2 DEF Init, Ids, AnswersOwn, Answered, Idle
  <2> QED
    BY <2>1, <2>6, <2>7, <2>8, <2>9, <2>10 DEF IInv
<1>2. IInv /\ [Next]_vars => IInv'
  BY FlagsStep, TypesStep, LocalsStep, SlotsStep, WakeStep, IdsStep DEF IInv
<1> QED
  BY <1>1, <1>2, PTL DEF Spec

(* As long as nothing wrote to foreign memory, a request that runs has a   *)
(* slot of its own in a table that is there, and no slot is taken by one   *)
(* that is over (coap_client_create, coap_client_delete, sw_coap_destory). *)
THEOREM SlotOwnedHolds == Spec => []SlotOwned
<1>1. IInv => SlotOwned
  <2> SUFFICES ASSUME IInv
               PROVE  SlotOwned
    OBVIOUS
  <2>1. clash \in BOOLEAN /\ broken \in BOOLEAN
    BY DEF IInv, Flags
  <2>2. recv.pc \in {"idle", "match", "give"} /\ timer.pc \in {"idle", "expire", "give"}
    BY DEF IInv, Types, Locals, Callbacks
  <2>3. /\ \A t \in Task : client[t] = NULL \/ client[t] \in Clients
        /\ \A i \in 0..MaxNum : m_client_handle[i] \in Task \cup {NULL, Junk}
        /\ m_rand \in Id \cup {0} /\ m_esp_sock \in Peer \cup {NULL}
        /\ up \in {"down", "up", "closing"} /\ scan \in 0..MaxNum
        /\ net \subseteq Requests
        /\ requests \in 0..MaxRequests /\ inits \in 0..MaxInits /\ used \subseteq Id
    BY DEF IInv, Types
  <2>4. pc \in [Task -> {"idle", "create", "send", "await", "wait", "analyse", "delete"}]
    BY DEF IInv, Types, Places
  <2>5. ~ broken =>
          /\ \A t \in Registered : /\ up # "down" /\ client[t] # NULL
                                   /\ m_client_handle[call[t].index] = t
          /\ \A i \in 0..MaxNum - 1 : m_client_handle[i] # NULL =>
               \E t \in Registered : m_client_handle[i] = t /\ call[t].index = i
    BY DEF IInv, Slots
  <2>6. TypeOK
    BY <2>1, <2>2, <2>3, <2>4, Zenon DEF TypeOK
  <2> QED
    BY <2>5, <2>6, Zenon DEF SlotOwned
<1> QED
  BY <1>1, InvariantHolds, PTL

(* A waiting task has a wake-up coming from the answer or from the timer   *)
(* (coap_send_wait_request, udp_recv_cb, coap_wait2timeout).               *)
THEOREM WaitIsWokenHolds == Spec => []WaitIsWoken
<1>1. IInv => WaitIsWoken
  BY DEF IInv
<1> QED
  BY <1>1, InvariantHolds, PTL

(* As long as no id is used twice, a call returns an answer to its own     *)
(* request (udp_recv_cb matches by id alone).                              *)
THEOREM AnswersOwnHolds == Spec => []AnswersOwn
<1>1. IInv => AnswersOwn
  BY DEF IInv, Ids, AnswersOwn
<1> QED
  BY <1>1, InvariantHolds, PTL
=============================================================================
