------------------------------ MODULE SwTimer ------------------------------
(***************************************************************************)
(* The timers of swapi (common/swutil/swtimer.c): one thread that sleeps   *)
(* until the next timer is due, and the calls that create, destroy, reset, *)
(* enable, disable and change timers.                                      *)
(*                                                                         *)
(* Timers live in cells of a pool whose contents survive a free, so that   *)
(* a pointer kept across one reads what is really there.  The list is the  *)
(* doubly linked one of the code.  Times are relative: due is trigger_time *)
(* minus the current tick, and Word is the number of values of an unsigned *)
(* long.  The wrap of the tick counter itself is not modelled.             *)
(*                                                                         *)
(* The mutex is a plain pthread mutex: an unlock frees it whoever holds it.*)
(* The timer thread takes less than a tick except while it sleeps and, if  *)
(* Slow, in a handler; so does every call.  Locals of the thread that are  *)
(* no longer needed go back to their first value.                          *)
(***************************************************************************)
EXTENDS Integers

CONSTANTS
  Cell,        \* cells of the timer pool
  NULL,
  Client,      \* threads that call the timer functions
  Ops,         \* the calls they make
  Intervals, Times,
  Word,        \* number of values of an unsigned long
  Slow,        \* whether handlers may take time
  Preempt,     \* whether a client may be preempted in its critical section
  MaxLate,     \* bound: time stops when a running timer is this late
  MaxCalls     \* bound: calls made between two ticks

AllOps == {"create", "destroy", "reset", "enable", "disable", "interval", "handler"}

ASSUME OpsAssumption == Ops \subseteq AllOps
ASSUME CellAssumption == NULL \notin Cell
ASSUME TimeAssumption ==
  /\ Intervals \subseteq Nat /\ Times \subseteq Nat \cup {-1}
  /\ Word \in Nat \ {0} /\ MaxLate \in Nat /\ MaxCalls \in Nat
  /\ \A i \in Intervals : 2 * (i + MaxLate) < Word
ASSUME FlagAssumption == Slow \in BOOLEAN /\ Preempt \in BOOLEAN

VARIABLES
  node,        \* contents of the cells
  alloc,       \* cells that are allocated
  head, tail,  \* ptimer_head, ptimer_tail
  mutex,       \* "free" or "locked"
  signal,      \* htimer_signal
  timeout,     \* m_timer_des.timeout
  exit,        \* "no", or how far sw_timer_exit is
  tpc, cur, min, left,   \* the timer thread: place, ptimer, min_timeout and
                         \* the time left to sleep
  call,        \* the call every client is in, or Idle
  calls        \* number of calls since the last tick

list == <<head, tail, alloc>>
thread == <<tpc, cur, min, left>>
vars == <<node, alloc, head, tail, mutex, signal, timeout, exit, tpc, cur, min,
          left, call, calls>>

Forever == Word - 1                     \* (unsigned long)-1

\* The difference of two ticks as an unsigned long
Unsigned(d) == d % Word

Negative(u) == 2 * u >= Word            \* read as an int

Idle == [op |-> "idle", at |-> "idle", cell |-> NULL, interval |-> 0, times |-> 0]

\* A cell before its first use.
Blank == [interval |-> 0, times |-> 0, orig |-> 0, due |-> 0, store |-> 0,
          status |-> "disable", param |-> "junk", next |-> NULL, prev |-> NULL]

\* The cells on the list, found by following next from the head: those of every
\* set that holds the head and, with a cell, the one its next leads to.
Listed ==
  {x \in Cell : \A S \in SUBSET Cell :
     /\ head # NULL => head \in S
     /\ \A y \in S : node[y].next # NULL => node[y].next \in S
     => x \in S}

\* sw_timer_init
Init ==
  /\ node = [x \in Cell |-> Blank]
  /\ alloc = {} /\ head = NULL /\ tail = NULL
  /\ mutex = "free" /\ signal = 0
  /\ timeout = Forever /\ exit = "no"
  /\ tpc = "start" /\ cur = NULL /\ min = Forever /\ left = Forever
  /\ call = [c \in Client |-> Idle] /\ calls = 0

-----------------------------------------------------------------------------
\* delete_timer: unlink x and free it.  nd is the contents of the cells, the
\* primed list that of the result.
Relinked(nd, x) ==
  [y \in Cell |->
     CASE x # head /\ y = nd[x].prev -> [nd[y] EXCEPT !.next = nd[x].next]
       [] x # tail /\ y = nd[x].next ->
            [nd[y] EXCEPT !.prev = IF x = head THEN NULL ELSE nd[x].prev]
       [] OTHER -> nd[y]]

delete_timer(x) ==
  /\ head' = IF x = head THEN (IF x = tail THEN NULL ELSE node[x].next) ELSE head
  /\ tail' = IF x = tail THEN (IF x = head THEN NULL ELSE node[x].prev) ELSE tail
  /\ node' = Relinked(node, x)
  /\ alloc' = alloc \ {x}

-----------------------------------------------------------------------------
\* The timer thread, thread_pro

ThreadMayRun == Preempt \/ \A c \in Client : call[c].at # "in"

At(place) == tpc = place /\ ThreadMayRun /\ exit # "done"

\* time_des->timeout = -1
Start ==
  /\ At("start")
  /\ timeout' = Forever
  /\ tpc' = "read"
  /\ UNCHANGED <<node, list, mutex, signal, exit, cur, min, left, call, calls>>

\* find_min_timeout starts from m_timer_des.timeout, read before the lock.
ScanRead ==
  /\ At("read")
  /\ min' = timeout
  /\ tpc' = "lock"
  /\ UNCHANGED <<node, list, mutex, signal, timeout, exit, cur, left, call, calls>>

ScanLock ==
  /\ At("lock")
  /\ mutex = "free"
  /\ mutex' = "locked"
  /\ cur' = head
  /\ tpc' = "scan"
  /\ UNCHANGED <<node, list, signal, timeout, exit, min, left, call, calls>>

\* A timer that lowers the minimum also makes the loop release the mutex.
ScanNode ==
  /\ At("scan")
  /\ cur # NULL
  /\ IF node[cur].status = "enable" /\ min > Unsigned(node[cur].due)
     THEN min' = Unsigned(node[cur].due) /\ mutex' = "free"
     ELSE UNCHANGED <<min, mutex>>
  /\ cur' = node[cur].next
  /\ UNCHANGED <<node, list, signal, timeout, exit, tpc, left, call, calls>>

ScanEnd ==
  /\ At("scan")
  /\ cur = NULL
  /\ mutex' = "free"
  /\ timeout' = min
  /\ min' = Forever
  /\ tpc' = "sleep"
  /\ UNCHANGED <<node, list, signal, exit, cur, left, call, calls>>

\* sw_signal_wait: a timeout that is negative as an int waits for ever.
Sleep ==
  /\ At("sleep")
  /\ left' = IF Negative(timeout) THEN Forever ELSE timeout
  /\ tpc' = "wait"
  /\ UNCHANGED <<node, list, mutex, signal, timeout, exit, cur, min, call, calls>>

\* The wait ends with the signal or with its time; then the exit flag is read.
Wake ==
  /\ At("wait")
  /\ signal > 0 \/ left = 0
  /\ signal' = IF signal > 0 THEN signal - 1 ELSE 0
  /\ left' = Forever
  /\ tpc' = "check"
  /\ UNCHANGED <<node, list, mutex, timeout, exit, cur, min, call, calls>>

Check ==
  /\ At("check")
  /\ tpc' = IF exit \in {"flag", "give", "close"} THEN "ended" ELSE "lock2"
  /\ UNCHANGED <<node, list, mutex, signal, timeout, exit, cur, min, left, call, calls>>

\* Mutant of TickLock: the walk starts behind the first timer.
TickLockSkip ==
  /\ At("lock2")
  /\ mutex = "free"
  /\ mutex' = "locked"
  /\ cur' = IF head = NULL THEN NULL ELSE node[head].next
  /\ tpc' = "tick"
  /\ UNCHANGED <<node, list, signal, timeout, exit, min, left, call, calls>>

TickLock ==
  /\ At("lock2")
  /\ mutex = "free"
  /\ mutex' = "locked"
  /\ cur' = head
  /\ tpc' = "tick"
  /\ UNCHANGED <<node, list, signal, timeout, exit, min, left, call, calls>>

\* on_tick: a timer that is due has its handler called, with the mutex held.
Due(x) == node[x].status = "enable" /\ node[x].times # 0 /\ node[x].due <= 0

TickNode ==
  /\ At("tick")
  /\ cur # NULL
  /\ IF Due(cur) THEN tpc' = "handler" /\ cur' = cur
                 ELSE tpc' = "tick" /\ cur' = node[cur].next
  /\ UNCHANGED <<node, list, mutex, signal, timeout, exit, min, left, call, calls>>

\* The rest of on_tick, after the handler has returned.
Fired(n) ==
  IF n.times > 0
  THEN [n EXCEPT !.times = @ - 1,
                 !.due = IF n.times > 1 THEN @ + n.interval ELSE @]
  ELSE [n EXCEPT !.due = @ + n.interval]

HandlerReturns ==
  /\ At("handler")
  /\ node' = [node EXCEPT ![cur] = Fired(@)]
  /\ cur' = node[cur].next
  /\ tpc' = "tick"
  /\ UNCHANGED <<list, mutex, signal, timeout, exit, min, left, call, calls>>

TickEnd ==
  /\ At("tick")
  /\ cur = NULL
  /\ cur' = head
  /\ tpc' = "sweep"
  /\ UNCHANGED <<node, list, mutex, signal, timeout, exit, min, left, call, calls>>

\* The loop that deletes finished timers reads ptimer->next after the free.
SweepNode ==
  /\ At("sweep")
  /\ cur # NULL
  /\ IF node[cur].times = 0 THEN delete_timer(cur) ELSE UNCHANGED <<node, list>>
  /\ cur' = node[cur].next
  /\ UNCHANGED <<mutex, signal, timeout, exit, tpc, min, left, call, calls>>

SweepEnd ==
  /\ At("sweep")
  /\ cur = NULL
  /\ mutex' = "free"
  /\ tpc' = "start"
  /\ UNCHANGED <<node, list, signal, timeout, exit, cur, min, left, call, calls>>

ThreadStep ==
  \/ Start \/ ScanRead \/ ScanLock \/ ScanNode \/ ScanEnd \/ Sleep \/ Wake
  \/ Check \/ TickLock \/ TickNode \/ HandlerReturns \/ TickEnd \/ SweepNode
  \/ SweepEnd

-----------------------------------------------------------------------------
\* The calls

\* sw_timer_create up to add_timer: the cell is allocated and filled in; its
\* wparam and lparam are not.
New(n, i, t) ==
  [n EXCEPT !.status = "enable", !.interval = i, !.times = t, !.orig = t,
            !.due = i]

CallCreate(c) ==
  /\ "create" \in Ops /\ call[c] = Idle /\ exit = "no"
  /\ calls < MaxCalls /\ calls' = calls + 1
  /\ \E x \in Cell \ alloc, i \in Intervals, t \in Times :
       /\ alloc' = alloc \cup {x}
       /\ node' = [node EXCEPT ![x] = New(@, i, t)]
       /\ call' = [call EXCEPT ![c] = [op |-> "create", at |-> "lock",
                                       cell |-> x, interval |-> i, times |-> t]]
  /\ UNCHANGED <<head, tail, mutex, signal, timeout, exit, thread>>

\* Any other call, with a handle that may have been freed before.
CallOther(c) ==
  /\ call[c] = Idle /\ exit = "no"
  /\ calls < MaxCalls /\ calls' = calls + 1
  /\ \E op \in Ops \ {"create"}, x \in Cell :
     \E i \in IF op = "interval" THEN Intervals ELSE {0},
        t \in IF op = "interval" THEN Times ELSE {0} :
       call' = [call EXCEPT ![c] = [op |-> op, at |-> "lock", cell |-> x,
                                    interval |-> i, times |-> t]]
  /\ UNCHANGED <<node, list, mutex, signal, timeout, exit, thread>>

Lock(c) ==
  /\ call[c].at = "lock"
  /\ mutex = "free"
  /\ mutex' = "locked"
  /\ call' = [call EXCEPT ![c].at = "in"]
  /\ UNCHANGED <<node, list, signal, timeout, exit, thread, calls>>

\* After its critical section a call is done or gives the signal.
Leave(c, giving) ==
  /\ mutex' = "free"
  /\ call' = [call EXCEPT ![c] = IF giving THEN [@ EXCEPT !.at = "give"] ELSE Idle]

upgrade_timeout(x) ==
  timeout' = IF timeout > Unsigned(node[x].due) THEN Unsigned(node[x].due)
                                                ELSE timeout

\* Mutant of Append: the new timer is not made the last one.
AppendLost(x) ==
  /\ node' = [y \in Cell |->
       CASE y = x -> [node[y] EXCEPT !.prev = tail, !.next = NULL]
         [] y = tail -> [node[y] EXCEPT !.next = x]
         [] OTHER -> node[y]]
  /\ head' = IF head = NULL THEN x ELSE head
  /\ tail' = IF head = NULL THEN x ELSE tail

\* The new timer becomes the last one of the list.
Append(x) ==
  /\ node' = [y \in Cell |->
       CASE y = x -> [node[y] EXCEPT !.prev = tail, !.next = NULL]
         [] y = tail -> [node[y] EXCEPT !.next = x]
         [] OTHER -> node[y]]
  /\ head' = IF head = NULL THEN x ELSE head
  /\ tail' = x

\* Mutant of add_timer: the timer thread is not told.
AddSilently(c) ==
  /\ call[c].op = "create" /\ call[c].at = "in"
  /\ upgrade_timeout(call[c].cell)
  /\ Append(call[c].cell)
  /\ Leave(c, FALSE)
  /\ UNCHANGED <<alloc, signal, exit, thread, calls>>

\* The critical section of add_timer, after which the signal is given
add_timer(c) ==
  /\ call[c].op = "create" /\ call[c].at = "in"
  /\ upgrade_timeout(call[c].cell)
  /\ Append(call[c].cell)
  /\ Leave(c, TRUE)
  /\ UNCHANGED <<alloc, signal, exit, thread, calls>>

\* sw_timer_destroy, the timer being found on the list
Destroy(c) ==
  /\ call[c].op = "destroy" /\ call[c].at = "in"
  /\ call[c].cell \in Listed
  /\ delete_timer(call[c].cell)
  /\ Leave(c, FALSE)
  /\ UNCHANGED <<signal, timeout, exit, thread, calls>>

\* What the calls that change a timer on the list write into it.
Changed(n, r) ==
  CASE r.op = "reset" ->
         [n EXCEPT !.times = n.orig, !.due = n.interval, !.status = "enable"]
    [] r.op = "interval" ->
         [n EXCEPT !.times = r.times, !.orig = r.times, !.interval = r.interval,
                   !.due = r.interval, !.status = "enable"]
    [] r.op = "disable" /\ n.status = "enable" ->
         [n EXCEPT !.store = n.due, !.status = "disable"]
    [] r.op = "enable" /\ n.status = "disable" ->
         [n EXCEPT !.due = n.store, !.status = "enable"]
    [] r.op = "handler" -> [n EXCEPT !.param = "given"]
    [] OTHER -> n

\* sw_timer_reset, _set_interval, _set_status and _set_ontimehandler: only
\* enabling a disabled timer gives the signal.
Change(c) ==
  LET x == call[c].cell IN
  /\ call[c].op \notin {"create", "destroy"} /\ call[c].at = "in"
  /\ x \in Listed
  /\ node' = [node EXCEPT ![x] = Changed(@, call[c])]
  /\ Leave(c, call[c].op = "enable" /\ node[x].status = "disable")
  /\ UNCHANGED <<list, signal, timeout, exit, thread, calls>>

\* The handle is not on the list.
NotFound(c) ==
  /\ call[c].op # "create" /\ call[c].at = "in"
  /\ call[c].cell \notin Listed
  /\ Leave(c, FALSE)
  /\ UNCHANGED <<node, list, signal, timeout, exit, thread, calls>>

\* sw_signal_give on a signal with maximum 1
Give(c) ==
  /\ call[c].at = "give"
  /\ signal' = 1
  /\ call' = [call EXCEPT ![c] = Idle]
  /\ UNCHANGED <<node, list, mutex, timeout, exit, thread, calls>>

CallStep(c) ==
  Lock(c) \/ add_timer(c) \/ Destroy(c) \/ Change(c) \/ NotFound(c) \/ Give(c)

-----------------------------------------------------------------------------
\* sw_timer_exit, called when no other call is under way

\* release_queue: every timer is disabled, unlinked and freed.
ExitRelease ==
  /\ exit = "no" /\ \A c \in Client : call[c] = Idle
  /\ mutex = "free"
  /\ node' = [x \in Cell |-> IF x \in Listed
                             THEN [node[x] EXCEPT !.status = "disable", !.prev = NULL]
                             ELSE node[x]]
  /\ head' = NULL /\ tail' = NULL /\ alloc' = alloc \ Listed
  /\ exit' = "released"
  /\ UNCHANGED <<mutex, signal, timeout, thread, call, calls>>

ExitFlag ==
  /\ exit = "released"
  /\ exit' = "flag"
  /\ UNCHANGED <<node, list, mutex, signal, timeout, thread, call, calls>>

\* Mutant of ExitGive: the thread is not woken.
ExitNoGive ==
  /\ exit = "flag"
  /\ exit' = "give"
  /\ UNCHANGED <<node, list, mutex, signal, timeout, thread, call, calls>>

ExitGive ==
  /\ exit = "flag"
  /\ signal' = 1
  /\ exit' = "give"
  /\ UNCHANGED <<node, list, mutex, timeout, thread, call, calls>>

\* sw_thrd_close returns when the thread has ended, or cancels it in a handler
\* that does not return in time; then signal and mutex are destroyed.
ExitClose ==
  /\ exit = "give"
  /\ tpc = "ended" \/ (Slow /\ tpc = "handler")
  /\ exit' = "done"
  /\ UNCHANGED <<node, list, mutex, signal, timeout, thread, call, calls>>

ExitStep == ExitFlag \/ ExitGive \/ ExitClose

-----------------------------------------------------------------------------
\* One tick of the clock, while the timer thread sleeps or its handler runs.
\* The due time of a timer that is not running is not looked at again.
Running(x) == x \in Listed /\ node[x].status = "enable"

Tick ==
  /\ \A c \in Client : call[c] = Idle
  /\ exit # "done"
  /\ \/ tpc = "wait" /\ signal = 0 /\ left # 0
     \/ tpc = "handler" /\ Slow
  /\ \A x \in Cell : Running(x) => node[x].due > -MaxLate
  /\ node' = [x \in Cell |-> IF Running(x) THEN [node[x] EXCEPT !.due = @ - 1]
                                           ELSE node[x]]
  /\ calls' = 0
  /\ left' = IF tpc = "wait" /\ left # Forever THEN left - 1 ELSE left
  /\ UNCHANGED <<list, mutex, signal, timeout, exit, tpc, cur, min, call>>

Exited == exit = "done" /\ UNCHANGED vars

Next ==
  \/ ThreadStep
  \/ \E c \in Client : CallCreate(c) \/ CallOther(c) \/ CallStep(c)
  \/ ExitRelease \/ ExitStep
  \/ Tick
  \/ Exited

Spec == Init /\ [][Next]_vars

\* The timer thread, calls under way and an exit under way go on, and the clock
\* ticks.
FairSpec ==
  /\ Spec
  /\ WF_vars(ThreadStep)
  /\ \A c \in Client : WF_vars(CallStep(c))
  /\ WF_vars(ExitStep)
  /\ WF_vars(Tick)

-----------------------------------------------------------------------------
\* Properties

Pointer == Cell \cup {NULL}

\* The types of the cells, the list and the places; in particular no time-out
\* leaves the range of an unsigned long.
TypeOK ==
  /\ \A x \in Cell :
       /\ node[x].next \in Pointer /\ node[x].prev \in Pointer
       /\ node[x].due \in Int /\ node[x].store \in Int
       /\ node[x].times \in Times \cup Nat \cup {-1}
  /\ alloc \subseteq Cell /\ head \in Pointer /\ tail \in Pointer
  /\ mutex \in {"free", "locked"} /\ signal \in 0..1
  /\ timeout \in 0..Forever /\ min \in 0..Forever /\ left \in 0..Forever
  /\ exit \in {"no", "released", "flag", "give", "done"}
  /\ cur \in Pointer

\* The list is a list: walking it from the head ends at the tail, prev undoes
\* next, and its cells are the allocated ones that are not on their way to be
\* added: neither a delete, an append nor the sweep breaks it, loses a cell or
\* leaves a freed cell on it.  While a handler runs, its timer is on the list:
\* once sw_timer_destroy has returned, the handler is neither running nor
\* called again for that timer.
ListOK ==
  /\ TypeOK
  /\ (head = NULL) <=> (tail = NULL)
  /\ head # NULL => node[head].prev = NULL
  /\ tail # NULL => tail \in Listed /\ node[tail].next = NULL
  /\ \A x \in Listed : node[x].next # NULL => node[node[x].next].prev = x
  /\ alloc = Listed \cup {call[c].cell : c \in
                {c \in Client : call[c].op = "create" /\ call[c].at \in {"lock", "in"}}}
  /\ tpc = "handler" => cur \in Listed

\* A sleeping timer thread wakes no later than the first running timer is due,
\* or has a signal to wake it.  With reset and set_interval among the calls
\* this is what swtimer.h says of them: swtimer.h:130, "set the time of the
\* timer", and swtimer.h:87, back to the state of a timer just created.
Punctual ==
  tpc = "wait" =>
    \A x \in Listed :
      node[x].status = "enable" /\ node[x].times # 0 =>
        \/ signal > 0 \/ \E c \in Client : call[c].at = "give"
        \/ left = 0 \/ (left <= node[x].due)

\* swtimer.h:133, times -1 means unlimited: a timer that repeats for ever goes
\* on firing as long as it is enabled, on the list and not reset.
PeriodicFires ==
  \A x \in Cell :
    []<>(\/ ~ (Running(x) /\ node[x].times = -1)
         \/ tpc = "handler" /\ cur = x)

\* sw_timer_exit returns: the timer thread sees the flag and ends.
ExitEnds == exit = "released" ~> exit = "done"

-----------------------------------------------------------------------------
\* What the comments of the code say and the code does not do

\* swtimer.h:68, times 0 means unlimited: the sweep never deletes such a timer.
ZeroMeansForever ==
  [][\A x \in Listed : tpc = "sweep" /\ node[x].orig = 0 /\ exit = "no"
                         => x \in alloc']_vars

\* swtimer.h:70-71, wparam and lparam are the arguments of the handler: it is
\* called with what was passed to sw_timer_create.
HandlerGetsParams == tpc = "handler" => node[cur].param = "given"

\* swtimer.c:322, the mutex makes the walk over the timers atomic: while the
\* thread calls handlers nobody else is inside a critical section.
WalkAlone == tpc \in {"tick", "handler", "sweep"} => \A c \in Client : call[c].at # "in"
=============================================================================
