----------------------------- MODULE CoapClient -----------------------------
(***************************************************************************)
(* The CoAP client of coap_priv/coap_client.c.                             *)
(*                                                                         *)
(* Tasks call sw_coap_get_request and sw_coap_ping.  A request allocates a *)
(* client, enters it in the table m_client_handle, sends its message over  *)
(* the one UDP socket, and waits on a semaphore that is given by the       *)
(* receive callback, which matches an answer to a client by message id, or *)
(* by the client's timer.  Tasks, the receive callback and the timer       *)
(* interleave; the stretches under m_mutex do not block and are one step.  *)
(* Datagrams are lost, duplicated and reordered.                           *)
(***************************************************************************)
EXTENDS Integers, FiniteSets, FiniteSetsExt

CONSTANTS
  Task, Peer,     \* a task has at most one request at a time
  Id,             \* message ids
  Kind,           \* the requests made: "CON", "NON" and "PING"
  AnswerKind,     \* what a "CON" request is answered by: "ACK" and "RST"
  Behind,         \* what the word behind the table may hold: NULL and Junk
  MaxNum,         \* the num given to sw_coap_client_init
  MaxRetransmit,  \* COAP_MAX_RETRANSMIT
  MaxRequests,    \* bound on requests
  MaxInits,       \* bound on calls of sw_coap_client_init
  NULL, Junk

ASSUME SizeAssumption == MaxNum \in Nat \ {0} /\ MaxRetransmit \in Nat \ {0}
ASSUME KindAssumption ==
  /\ Kind \subseteq {"CON", "NON", "PING"} /\ AnswerKind \subseteq {"ACK", "RST"}
  /\ Behind \subseteq {NULL, Junk}
ASSUME BoundAssumption == MaxRequests \in Nat /\ MaxInits \in Nat
ASSUME NullAssumption == NULL \notin Task /\ Junk \notin Task /\ NULL # Junk

VARIABLES
  pc, call,         \* per task: where it is in coap_request, and its locals
  client,           \* per task: the coap_client_t of its request, or NULL
  m_client_handle,  \* slot MaxNum is the word behind the table
  m_rand,           \* the message id for the next client
  m_esp_sock,       \* the remote address in the shared socket
  up, scan,         \* the life of the table, and where sw_coap_destory looks
  recv, timer,      \* the receive callback and the timer callback
  net,              \* every request sent so far; any may be answered at any time
  requests, inits, used,  \* counters, and the ids that clients had
  clash,            \* some id was used twice
  broken            \* memory that does not belong to the writer was touched

vars == <<pc, call, client, m_client_handle, m_rand, m_esp_sock, up,
          scan, recv, timer, net, requests, inits, used, clash, broken>>

task == <<pc, call>>
table == <<m_client_handle, up, scan, inits>>
ids == <<m_rand, requests, used, clash>>

Idle == [pc |-> "idle", pkt |-> NULL, owner |-> NULL, req |-> 0]
NoCall == [kind |-> NULL, peer |-> NULL, req |-> 0, index |-> -1, rel |-> NULL]

\* Mutant of Final: a request that could not be sent is not over.
FinalUnlessFailed == {"TIMEOUT", "SUCCESS"}

\* The results with which a request is over
Final == {"TIMEOUT", "FAILED", "SUCCESS"}

EmptyTable == [i \in 0..MaxNum |-> IF i < MaxNum THEN NULL ELSE Junk]

Init ==
  /\ pc = [t \in Task |-> "idle"]
  /\ call = [t \in Task |-> NoCall]
  /\ client = [t \in Task |-> NULL]
  /\ m_client_handle = EmptyTable
  /\ m_rand = 0 /\ m_esp_sock = NULL
  /\ up = "down" /\ scan = 0
  /\ recv = Idle /\ timer = Idle
  /\ net = {} /\ requests = 0 /\ inits = 0
  /\ used = {} /\ clash = FALSE /\ broken = FALSE

-----------------------------------------------------------------------------
(* The table and the socket                                                *)

\* sw_coap_client_init; the word behind the new table may be anything.
ClientInit ==
  /\ up = "down" /\ inits < MaxInits
  /\ up' = "up" /\ scan' = 0 /\ inits' = inits + 1
  /\ \E w \in Behind : m_client_handle' = [EmptyTable EXCEPT ![MaxNum] = w]
  /\ m_esp_sock' = NULL
  /\ UNCHANGED <<task, client, recv, timer, net, ids, broken>>

\* It fails for want of memory, a socket or a mutex.
ClientInitFails ==
  /\ up = "down"
  /\ m_esp_sock' = NULL
  /\ UNCHANGED <<task, client, table, recv, timer, net, ids, broken>>

\* sw_coap_destory: no request is between its call and its entry in the
\* table, and none is made from now on.
DestroyStart ==
  /\ up = "up" /\ \A t \in Task : pc[t] # "create"
  /\ up' = "closing" /\ scan' = 0
  /\ UNCHANGED <<task, client, m_client_handle, m_esp_sock, recv, timer, net,
                 inits, ids, broken>>

\* Mutant of DestroyScan: slots in use are passed over.
DestroyScanAll ==
  /\ up = "closing" /\ scan < MaxNum
  /\ scan' = scan + 1
  /\ UNCHANGED <<task, client, m_client_handle, up, m_esp_sock, recv, timer,
                 net, inits, ids, broken>>

\* The scan goes on when the slot is empty.
DestroyScan ==
  /\ up = "closing" /\ scan < MaxNum /\ m_client_handle[scan] = NULL
  /\ scan' = scan + 1
  /\ UNCHANGED <<task, client, m_client_handle, up, m_esp_sock, recv, timer,
                 net, inits, ids, broken>>

\* The socket is deleted and the table freed.
DestroyFree ==
  /\ up = "closing" /\ scan = MaxNum
  /\ up' = "down" /\ m_client_handle' = EmptyTable
  /\ UNCHANGED <<task, client, scan, m_esp_sock, recv, timer, net, inits, ids,
                 broken>>

-----------------------------------------------------------------------------
(* coap_request, and its callers                                           *)

Goto(t, l) == pc' = [pc EXCEPT ![t] = l]

\* What sw_coap_ping returns when coap_request returned rel; without a rel
\* it reads through a null pointer.
Pong(rel) ==
  CASE rel = NULL -> "fault"
    [] rel # NULL /\ rel.code = "0xff" -> 1
    [] OTHER -> 0

\* The call returns.
Return(t) == Goto(t, "idle") /\ call' = [call EXCEPT ![t] = NoCall]

\* A task calls coap_request, which draws a message id into m_rand.
Begin(t, k, p) ==
  /\ up = "up" /\ pc[t] = "idle" /\ requests < MaxRequests
  /\ Goto(t, "create") /\ requests' = requests + 1
  /\ call' = [call EXCEPT ![t] = [NoCall EXCEPT !.kind = k, !.peer = p,
                                                !.req = requests + 1]]
  /\ m_rand' \in Id
  /\ UNCHANGED <<client, table, m_esp_sock, recv, timer, net, used, clash,
                 broken>>

NewClient(t) ==
  [msgid |-> m_rand, type |-> IF call[t].kind = "NON" THEN "NON" ELSE "CON",
   result |-> "INIT", sem |-> 0, armed |-> FALSE, send_count |-> 0,
   req |-> call[t].req, resp |-> NULL]

\* The slot the search ends at: behind the table when no slot is empty.
FreeSlot ==
  LET empty == {i \in 0..MaxNum - 1 : m_client_handle[i] = NULL}
  IN  IF empty = {} THEN MaxNum ELSE Min(empty)

\* coap_client_create: it takes the id in m_rand, whichever task drew it,
\* sets the address in the socket and, under the mutex, enters the client.
Create(t) ==
  /\ pc[t] = "create" /\ m_client_handle[FreeSlot] = NULL
  /\ client' = [client EXCEPT ![t] = NewClient(t)]
  /\ m_client_handle' = [m_client_handle EXCEPT ![FreeSlot] = t]
  /\ call' = [call EXCEPT ![t].index = FreeSlot]
  /\ m_esp_sock' = call[t].peer
  /\ used' = used \cup {m_rand} /\ clash' = (clash \/ m_rand \in used)
  /\ broken' = (FreeSlot = MaxNum)
  /\ Goto(t, "send")
  /\ UNCHANGED <<up, scan, inits, recv, timer, net, m_rand, requests>>

\* coap_build fails, or no slot is empty: the client is freed and the call
\* returns NULL.
CreateFails(t) ==
  /\ pc[t] = "create"
  /\ m_esp_sock' = call[t].peer
  /\ Return(t)
  /\ UNCHANGED <<client, table, recv, timer, net, ids, broken>>

-----------------------------------------------------------------------------
(* coap_send_wait_request, coap_analysis_response, coap_client_delete      *)

\* The datagram goes to whatever address the socket holds.
Datagram(t) ==
  [dst |-> m_esp_sock, kind |-> call[t].kind, id |-> client[t].msgid,
   req |-> call[t].req]

\* send_count is not read again and cleared.
Send(t) ==
  /\ pc[t] = "send"
  /\ net' = net \cup {Datagram(t)}
  /\ client' = [client EXCEPT ![t] = [@ EXCEPT !.send_count = 0, !.result =
                  IF client[t].type = "CON" THEN client[t].result ELSE "SUCCESS"]]
  /\ Goto(t, IF client[t].type = "CON" THEN "await" ELSE "analyse")
  /\ UNCHANGED <<call, table, m_esp_sock, recv, timer, ids, broken>>

\* espconn_sendto fails: again, until send_count reaches its limit.
SendFails(t) ==
  LET n == client[t].send_count + 1
  IN  /\ pc[t] = "send"
      /\ client' = [client EXCEPT
           ![t] = [@ EXCEPT !.send_count = n, !.result =
                IF n < MaxRetransmit THEN client[t].result ELSE "FAILED"]]
      /\ IF n < MaxRetransmit THEN UNCHANGED pc ELSE Goto(t, "delete")
      /\ UNCHANGED <<call, table, m_esp_sock, recv, timer, net, ids,
                     broken>>

\* The timer is armed and the client may be matched; the timeout of 30 s
\* does not pass between the two assignments.
Await(t) ==
  /\ pc[t] = "await"
  /\ client' = [client EXCEPT ![t] =
                  [@ EXCEPT !.armed = TRUE, !.result = "WAITTING"]]
  /\ Goto(t, "wait")
  /\ UNCHANGED <<call, table, m_esp_sock, recv, timer, net, ids,
                 broken>>

Wake(t) ==
  /\ pc[t] = "wait" /\ client[t].sem = 1
  /\ client' = [client EXCEPT ![t].sem = 0]
  /\ Goto(t, "analyse")
  /\ UNCHANGED <<call, table, m_esp_sock, recv, timer, net, ids,
                 broken>>

Code(c) ==
  CASE c.type = "NON" -> "content"
    [] c.type = "CON" /\ c.result # "SUCCESS" -> "not found"
    [] c.type = "CON" /\ c.result = "SUCCESS" ->
         IF c.resp.kind = "RST" THEN "not found" ELSE "answered"

Result(c) ==
  [code |-> Code(c), resp |-> IF c.result = "SUCCESS" THEN c.resp ELSE NULL]

\* Without memory for a copy of the answer
NoData(c) ==
  [code |-> IF c.type = "NON" THEN "content" ELSE "not found", resp |-> NULL]

\* The timer is disarmed and the result made from the answer, as far as
\* there is memory for it.
Analyse(t) ==
  /\ pc[t] = "analyse"
  /\ client' = [client EXCEPT ![t].armed = FALSE]
  /\ \E rel \in {NULL, Result(client[t]), NoData(client[t])} :
       call' = [call EXCEPT ![t].rel = rel]
  /\ Goto(t, "delete")
  /\ UNCHANGED <<table, m_esp_sock, recv, timer, net, ids, broken>>

\* Under the mutex the semaphore is deleted and the slot cleared, then the
\* client is freed and the call returns; it waits while the request is not
\* over.
Delete(t) ==
  /\ pc[t] = "delete" /\ client[t].result \in Final
  /\ client' = [client EXCEPT ![t] = NULL]
  /\ m_client_handle' = [m_client_handle EXCEPT ![call[t].index] = NULL]
  /\ Return(t)
  /\ UNCHANGED <<up, scan, inits, m_esp_sock, recv, timer, net,
                 ids, broken>>

-----------------------------------------------------------------------------
(* The peers, as far as the client sees them                               *)

\* A peer answers a request it received, never, once or more often; a ping
\* is answered by a reset.
Answers ==
  {[src |-> q.dst, kind |-> k, id |-> q.id, req |-> q.req] :
     q \in {r \in net : r.kind = "CON"}, k \in AnswerKind}
  \cup
  {[src |-> q.dst, kind |-> "RST", id |-> q.id, req |-> q.req] :
     q \in {r \in net : r.kind = "PING"}}

-----------------------------------------------------------------------------
(* udp_recv_cb, with coap_recv_request                                     *)

\* The address of the sender becomes the remote address of the socket.
RecvStart ==
  /\ up # "down" /\ recv = Idle
  /\ \E d \in Answers :
       m_esp_sock' = d.src /\ recv' = [Idle EXCEPT !.pc = "match", !.pkt = d]
  /\ UNCHANGED <<task, client, table, timer, net, ids, broken>>

\* A request of a peer, which may come at any time, is answered from within
\* the callback by coap_recv_request; the reply leaves the model.
RecvRequest ==
  /\ up # "down" /\ recv = Idle
  /\ m_esp_sock' \in Peer
  /\ UNCHANGED <<task, client, table, recv, timer, net, ids, broken>>

\* Mutant of Matching: the id is not compared.
MatchingAny(d) ==
  {i \in 0..MaxNum - 1 : /\ m_client_handle[i] # NULL
                         /\ client[m_client_handle[i]].result = "WAITTING"}

\* The slots of the clients that wait for an answer with the id of d
Matching(d) ==
  {i \in 0..MaxNum - 1 : /\ m_client_handle[i] # NULL
                         /\ client[m_client_handle[i]].msgid = d.id
                         /\ client[m_client_handle[i]].result = "WAITTING"}

\* Under the mutex, the first matching client gets the answer.
RecvMatch ==
  /\ recv.pc = "match" /\ up # "down" /\ Matching(recv.pkt) # {}
  /\ LET t == m_client_handle[Min(Matching(recv.pkt))]
     IN  /\ client' = [client EXCEPT ![t] =
                         [@ EXCEPT !.resp = recv.pkt, !.result = "SUCCESS"]]
         /\ recv' = [Idle EXCEPT !.pc = "give", !.owner = t,
                                 !.req = client[t].req]
  /\ UNCHANGED <<task, table, m_esp_sock, timer, net, ids, broken>>

\* No client waits for it; or the table was freed under the callback.
RecvNoMatch ==
  /\ recv.pc = "match" /\ (up = "down" \/ Matching(recv.pkt) = {})
  /\ recv' = Idle
  /\ broken' = (up = "down")
  /\ UNCHANGED <<task, client, table, m_esp_sock, timer, net, ids>>

\* The callback cb still finds the client it was called for.
Finds(cb) == client[cb.owner] # NULL /\ client[cb.owner].req = cb.req

\* The callback cb gives the semaphore of its client, after the mutex.
Give(cb) ==
  IF Finds(cb)
  THEN client' = [client EXCEPT ![cb.owner].sem = 1] /\ UNCHANGED broken
  ELSE broken' = TRUE /\ UNCHANGED client

\* Mutant of RecvGive: the semaphore is not given.
RecvGiveNot ==
  /\ recv.pc = "give" /\ recv' = Idle
  /\ UNCHANGED <<task, client, table, m_esp_sock, timer, net, ids, broken>>

RecvGive ==
  /\ recv.pc = "give" /\ recv' = Idle
  /\ Give(recv)
  /\ UNCHANGED <<task, table, m_esp_sock, timer, net, ids>>

-----------------------------------------------------------------------------
(* coap_wait2timeout                                                       *)

\* A timer fires; its callback still has to take the mutex.
TimerFire(t) ==
  /\ timer = Idle /\ client[t] # NULL /\ client[t].armed
  /\ client' = [client EXCEPT ![t].armed = FALSE]
  /\ timer' = [Idle EXCEPT !.pc = "expire", !.owner = t, !.req = client[t].req]
  /\ UNCHANGED <<task, table, m_esp_sock, recv, net, ids, broken>>

\* Under the mutex; the client may be freed or be another one by now.
TimerExpire ==
  /\ timer.pc = "expire"
  /\ IF Finds(timer)
     THEN /\ client' = [client EXCEPT ![timer.owner].result = "TIMEOUT"]
          /\ UNCHANGED broken
     ELSE broken' = TRUE /\ UNCHANGED client
  /\ timer' = [timer EXCEPT !.pc = "give"]
  /\ UNCHANGED <<task, table, m_esp_sock, recv, net, ids>>

TimerGive ==
  /\ timer.pc = "give" /\ timer' = Idle
  /\ Give(timer)
  /\ UNCHANGED <<task, table, m_esp_sock, recv, net, ids>>

-----------------------------------------------------------------------------
(* Nothing is said of what follows once foreign memory was written.        *)

TaskStep(t) ==
  /\ ~ broken
  /\ \/ Create(t) \/ CreateFails(t) \/ Send(t) \/ SendFails(t)
     \/ Await(t) \/ Wake(t) \/ Analyse(t) \/ Delete(t)

RecvStep ==
  /\ ~ broken
  /\ RecvMatch \/ RecvNoMatch \/ RecvGive

TimerStep == ~ broken /\ (TimerExpire \/ TimerGive)

Timeout(t) == ~ broken /\ TimerFire(t)

Other ==
  /\ ~ broken
  /\ \/ ClientInit \/ ClientInitFails \/ DestroyStart \/ DestroyScan \/ DestroyFree
     \/ \E t \in Task, k \in Kind, p \in Peer : Begin(t, k, p)
     \/ RecvStart \/ RecvRequest

Next ==
  \/ \E t \in Task : TaskStep(t) \/ Timeout(t)
  \/ RecvStep \/ TimerStep
  \/ Other

Spec == Init /\ [][Next]_vars

\* The scheduler runs every task and callback that can run, and an armed
\* timer fires.  Nothing is assumed of the peers and of the network.
Fairness ==
  /\ \A t \in Task : WF_vars(TaskStep(t)) /\ WF_vars(Timeout(t))
  /\ WF_vars(RecvStep) /\ WF_vars(TimerStep)

FairSpec == Spec /\ Fairness

-----------------------------------------------------------------------------
Requests ==
  [dst : Peer, kind : {"CON", "NON", "PING"}, id : Id, req : 1..MaxRequests]

AnswerPackets ==
  [src : Peer, kind : {"ACK", "RST"}, id : Id, req : 1..MaxRequests]

Clients ==
  [msgid : Id, type : {"CON", "NON"},
   result : {"INIT", "WAITTING", "TIMEOUT", "FAILED", "SUCCESS"},
   sem : {0, 1}, armed : BOOLEAN, send_count : 0..MaxRetransmit,
   req : 1..MaxRequests, resp : AnswerPackets \cup {NULL}]

ASSUME ClientAssumption == NULL \notin Clients

\* The types of the variables.
TypeOK ==
  /\ pc \in [Task -> {"idle", "create", "send", "await", "wait", "analyse",
                      "delete"}]
  /\ \A t \in Task : client[t] = NULL \/ client[t] \in Clients
  /\ \A i \in 0..MaxNum : m_client_handle[i] \in Task \cup {NULL, Junk}
  /\ m_rand \in Id \cup {0} /\ m_esp_sock \in Peer \cup {NULL}
  /\ up \in {"down", "up", "closing"} /\ scan \in 0..MaxNum
  /\ recv.pc \in {"idle", "match", "give"}
  /\ timer.pc \in {"idle", "expire", "give"}
  /\ net \subseteq Requests
  /\ requests \in 0..MaxRequests /\ inits \in 0..MaxInits
  /\ used \subseteq Id /\ clash \in BOOLEAN /\ broken \in BOOLEAN

\* The tasks with a client in the table
Registered == {t \in Task : pc[t] \in {"send", "await", "wait", "analyse", "delete"}}

\* As long as nothing wrote to foreign memory, a request that runs has a
\* slot of its own in a table that is there, with its client in it, and no
\* slot is taken by a request that is over, although the table is freed
\* without the mutex (coap_client_create, coap_client_delete and
\* sw_coap_destory).
SlotOwned ==
  /\ TypeOK
  /\ ~ broken =>
       /\ \A t \in Registered : /\ up # "down" /\ client[t] # NULL
                                /\ m_client_handle[call[t].index] = t
       /\ \A i \in 0..MaxNum - 1 :
            m_client_handle[i] # NULL =>
              \E t \in Registered : m_client_handle[i] = t /\ call[t].index = i

\* A callback that has still to give the semaphore of the client of t
Giving(cb, t) == cb.pc = "give" /\ cb.owner = t

\* A task that waits is woken: when the request is over the semaphore has
\* been given or is about to be, and until then the timer is armed or has
\* fired (the callbacks give the semaphore only after the mutex; an answer
\* that comes before REQ_WAITTING is set is dropped, and only the timer is
\* left to wake the task).
WaitIsWoken ==
  broken \/
  \A t \in Task : pc[t] = "wait" =>
    IF client[t].result \in Final
    THEN client[t].sem = 1 \/ Giving(recv, t) \/ Giving(timer, t)
    ELSE client[t].armed \/ (timer.pc = "expire" /\ timer.owner = t)

\* The call of t is about to return an answer.
Answered(t) ==
  pc[t] = "delete" /\ call[t].rel # NULL /\ call[t].rel.resp # NULL

\* As long as no message id is used twice, the answer a call returns is an
\* answer to its own request, also when answers are late, duplicated or
\* come from requests of other tasks (udp_recv_cb matches by id alone).
AnswersOwn ==
  broken \/ clash \/
  \A t \in Task : Answered(t) => call[t].rel.resp.req = call[t].req

\* Every request returns, whatever the network does, unless a callback
\* wrote to a client that was freed: the send is given up, the timer ends
\* the wait, and coap_client_delete finds the request over.
RequestReturns ==
  \A t \in Task : pc[t] # "idle" ~> (pc[t] = "idle" \/ broken)

-----------------------------------------------------------------------------
(* What the comments of the code say and the code does not do              *)

\* An answered ping returns 1 (coap_client.h on sw_coap_ping).
PingTells ==
  \A t \in Task :
    Answered(t) /\ call[t].kind = "PING" => Pong(call[t].rel) = 1

\* A call returns what the peer in its URL answered to this very request
\* (coap_client.h on sw_coap_get_request).
AnswersFromPeer ==
  \A t \in Task : Answered(t) =>
    /\ call[t].rel.resp.req = call[t].req
    /\ call[t].rel.resp.src = call[t].peer

\* The callbacks touch no client that was freed, and no client is entered
\* behind the table.
NeverBroken == ~ broken
=============================================================================
