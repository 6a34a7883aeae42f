------------------------------ MODULE SwQueue ------------------------------
(***************************************************************************)
(* The bounded priority queue of swapi (common/swutil/swqueue.c) together  *)
(* with the binary signals it is built from (base/swos/swsignal.c).        *)
(*                                                                         *)
(* A queue has LevelNum rings.  Ring l has QSize[l] slots and holds at     *)
(* most QSize[l] - 1 elements; read[l] = write[l] means empty.  The rings  *)
(* are only touched with q->mutex held and no call blocks while holding    *)
(* it, so each critical section is one atomic step.  Everything else (the  *)
(* waits, and the sem_getvalue / sem_post pair inside sw_signal_give) is a *)
(* step of its own, and threads interleave between them.                   *)
(*                                                                         *)
(* An element is abstracted to its stamp: the how-manieth element stored   *)
(* in its ring since the queue was created.                                *)
(***************************************************************************)
EXTENDS Integers

CONSTANTS
  LevelNum,     \* q->level_num
  QSize,        \* slots per level (qsize[])
  FullCover,    \* the levels whose posts may delete the oldest element
  Writers,      \* threads calling sw_queue_post(_with_level)
  Readers,      \* threads calling sw_queue_read, _timeout, _nowait
  Clearers,     \* threads calling sw_queue_clear(_with_level)
  MaxPosts      \* bound: number of posts started in a behaviour

Level == 0..(LevelNum - 1)
Threads == Writers \cup Readers

\* At most four levels: with five, the stray argument of the give in
\* sw_queue_clear is undefined in a different way (see ClearGive below).
ASSUME LevelAssumption == LevelNum \in 1..4
ASSUME SizeAssumption == QSize \in [Level -> Nat \ {0}]
ASSUME CoverAssumption == FullCover \subseteq Level
ASSUME BoundAssumption == MaxPosts \in Nat

VARIABLES
  handle,        \* "open" once the handle exists (created and not destroyed)
  read, write,   \* ring indices per level
  elements,      \* ring contents per level: stamps, 0 = never written
  read_signal,   \* semaphore count of q->read_signal
  write_signal,  \* semaphore count of q->write_signal[l]
  pc,            \* where each thread is
  lvl,           \* the thread's level argument / idx_got
  wait,          \* the timeout argument of the thread's read
  stored,        \* history: stamps given out per level
  got,           \* history: stamp last read per level, 0 = none
  posts          \* history: posts started, for the bound

qvars == <<read, write, elements, stored, got>>
vars == <<handle, read, write, elements, read_signal, write_signal, pc, lvl,
          wait, stored, got, posts>>

\* The slot after i: the pointer arithmetic of swqueue.c, in elements.
NextSlot(l, i) == IF i < QSize[l] - 1 THEN i + 1 ELSE 0

IsEmpty(l) == read[l] = write[l]
IsFull(l) == NextSlot(l, write[l]) = read[l]
NonEmpty == \E l \in Level : ~IsEmpty(l)

\* sw_queue_get_num restricted to one level, and its whole.
Num(l) == IF write[l] >= read[l] THEN write[l] - read[l]
          ELSE write[l] + QSize[l] - read[l]
GetMax(l) == QSize[l] - 1

\* The states of a freshly created queue (also what memset and the signal
\* constructors establish).
Fresh ==
  /\ read' = [l \in Level |-> 0]
  /\ write' = [l \in Level |-> 0]
  /\ elements' = [l \in Level |-> [i \in 0..(QSize[l] - 1) |-> 0]]
  /\ read_signal' = 0
  /\ write_signal' = [l \in Level |-> 0]
  /\ stored' = [l \in Level |-> 0]
  /\ got' = [l \in Level |-> 0]

Init ==
  /\ handle = "null"
  /\ read = [l \in Level |-> 0]
  /\ write = [l \in Level |-> 0]
  /\ elements = [l \in Level |-> [i \in 0..(QSize[l] - 1) |-> 0]]
  /\ read_signal = 0
  /\ write_signal = [l \in Level |-> 0]
  /\ pc = [t \in Threads |-> "idle"]
  /\ lvl = [t \in Threads |-> 0]
  /\ wait = [t \in Threads |-> "forever"]
  /\ stored = [l \in Level |-> 0]
  /\ got = [l \in Level |-> 0]
  /\ posts = 0

-----------------------------------------------------------------------------
\* Creation and destruction

\* sw_queue_create_with_priority succeeding; a failed allocation destroys
\* what was built and leaves no queue, which is no step.
Create ==
  /\ handle = "null"
  /\ handle' = "open"
  /\ Fresh
  /\ UNCHANGED <<pc, lvl, wait, posts>>

\* sw_queue_destroy.  The caller must know that nobody is inside the queue:
\* the semaphores and the handle are freed.
Destroy ==
  /\ handle = "open"
  /\ \A t \in Threads : pc[t] = "idle"
  /\ handle' = "null"
  /\ UNCHANGED <<qvars, read_signal, write_signal, pc, lvl, wait, posts>>

-----------------------------------------------------------------------------
\* sw_queue_post_with_level

\* Entry and the non-blocking wait that drains a stale write signal.
PostDrain(w, l) ==
  /\ handle = "open"
  /\ pc[w] = "idle"
  /\ posts < MaxPosts
  /\ posts' = posts + 1
  /\ write_signal' = [write_signal EXCEPT ![l] = IF @ > 0 THEN @ - 1 ELSE 0]
  /\ lvl' = [lvl EXCEPT ![w] = l]
  /\ pc' = [pc EXCEPT ![w] = "wr_check"]
  /\ UNCHANGED <<handle, qvars, read_signal, wait>>

\* First critical section: compute is_full, then decide whether to wait.
PostCheck(w) ==
  /\ pc[w] = "wr_check"
  /\ pc' = [pc EXCEPT ![w] =
              IF lvl[w] \notin FullCover /\ IsFull(lvl[w]) THEN "wr_wait"
              ELSE "wr_store"]
  /\ UNCHANGED <<handle, qvars, read_signal, write_signal, lvl, wait, posts>>

\* sw_signal_wait(write_signal, WAIT_FOREVER) returning.
PostWait(w) ==
  /\ pc[w] = "wr_wait"
  /\ write_signal[lvl[w]] > 0
  /\ write_signal' = [write_signal EXCEPT ![lvl[w]] = @ - 1]
  /\ pc' = [pc EXCEPT ![w] = "wr_store"]
  /\ UNCHANGED <<handle, qvars, read_signal, lvl, wait, posts>>

\* Mutant of ReadAfterPost: the oldest element is not dropped.
ReadKept(l, w) == read[l]

\* The read index after a post: a covering ring drops its oldest element
\* when the write index caught up with the read index.
ReadAfterPost(l, w) ==
  IF l \in FullCover /\ w = read[l] THEN NextSlot(l, read[l]) ELSE read[l]

\* Second critical section: copy the element in, advance write.
PostStore(w) ==
  LET l == lvl[w] IN
  /\ pc[w] = "wr_store"
  /\ stored' = [stored EXCEPT ![l] = @ + 1]
  /\ elements' = [elements EXCEPT ![l][write[l]] = stored[l] + 1]
  /\ write' = [write EXCEPT ![l] = NextSlot(l, @)]
  /\ read' = [read EXCEPT ![l] = ReadAfterPost(l, NextSlot(l, write[l]))]
  /\ pc' = [pc EXCEPT ![w] = "wr_give"]
  /\ UNCHANGED <<handle, read_signal, write_signal, lvl, wait, got, posts>>

\* sw_signal_give(read_signal), first half: sem_getvalue and the comparison
\* with max_val, which is 1.
GiveNeeded(count) == count < 1

PostGive(w) ==
  /\ pc[w] = "wr_give"
  /\ pc' = [pc EXCEPT ![w] =
              IF GiveNeeded(read_signal) THEN "wr_sempost" ELSE "idle"]
  /\ UNCHANGED <<handle, qvars, read_signal, write_signal, lvl, wait, posts>>

\* Second half: sem_post, whatever the count has become.
PostSemPost(w) ==
  /\ pc[w] = "wr_sempost"
  /\ read_signal' = read_signal + 1
  /\ pc' = [pc EXCEPT ![w] = "idle"]
  /\ UNCHANGED <<handle, qvars, write_signal, lvl, wait, posts>>

-----------------------------------------------------------------------------
\* sw_queue_read, sw_queue_read_timeout and sw_queue_read_nowait

\* Entry; "timed" stands for every timeout other than -1, 0 included.
ReadCall(r, timeout) ==
  /\ handle = "open"
  /\ pc[r] = "idle"
  /\ wait' = [wait EXCEPT ![r] = timeout]
  /\ pc' = [pc EXCEPT ![r] = "rd_wait"]
  /\ UNCHANGED <<handle, qvars, read_signal, write_signal, lvl, posts>>

\* Mutant of ReadWait: the wait is on the signal of the writers.
ReadWaitWrong(r) ==
  /\ pc[r] = "rd_wait"
  /\ write_signal[0] > 0
  /\ write_signal' = [write_signal EXCEPT ![0] = @ - 1]
  /\ pc' = [pc EXCEPT ![r] = "rd_take"]
  /\ UNCHANGED <<handle, qvars, read_signal, lvl, wait, posts>>

\* sw_signal_wait(read_signal, timeout) returning 0.
ReadWait(r) ==
  /\ pc[r] = "rd_wait"
  /\ read_signal > 0
  /\ read_signal' = read_signal - 1
  /\ pc' = [pc EXCEPT ![r] = "rd_take"]
  /\ UNCHANGED <<handle, qvars, write_signal, lvl, wait, posts>>

\* The same wait timing out: the read returns -1.
ReadTimeout(r) ==
  /\ pc[r] = "rd_wait"
  /\ wait[r] = "timed"
  /\ read_signal = 0
  /\ pc' = [pc EXCEPT ![r] = "idle"]
  /\ UNCHANGED <<handle, qvars, read_signal, write_signal, lvl, wait, posts>>

\* Mutant of TakeFrom: the read signal is not given back for what is left.
TakeFromNoRegive(r, l) ==
  /\ ~IsEmpty(l)
  /\ \A k \in Level : k < l => IsEmpty(k)
  /\ got' = [got EXCEPT ![l] = elements[l][read[l]]]
  /\ read' = [read EXCEPT ![l] = NextSlot(l, @)]
  /\ lvl' = [lvl EXCEPT ![r] = l]
  /\ pc' = [pc EXCEPT ![r] = "rd_givew"]
  /\ UNCHANGED <<handle, write, elements, read_signal, write_signal, wait,
                 stored, posts>>

\* Mutant of TakeFrom: the read pointer does not wrap around.
TakeFromStuck(r, l) ==
  /\ ~IsEmpty(l)
  /\ \A k \in Level : k < l => IsEmpty(k)
  /\ got' = [got EXCEPT ![l] = elements[l][read[l]]]
  /\ read' = [read EXCEPT ![l] = IF NextSlot(l, @) = 0 THEN @
                                  ELSE NextSlot(l, @)]
  /\ lvl' = [lvl EXCEPT ![r] = l]
  /\ pc' = [pc EXCEPT ![r] =
              IF \E k \in Level : read'[k] # write[k] THEN "rd_give"
              ELSE "rd_givew"]
  /\ UNCHANGED <<handle, write, elements, read_signal, write_signal, wait,
                 stored, posts>>

\* The critical section of a read that finds an element: the scan takes the
\* oldest element of the first level that has one, and is_empty ends up
\* FALSE exactly when some level still holds an element afterwards.
TakeFrom(r, l) ==
  /\ ~IsEmpty(l)
  /\ \A k \in Level : k < l => IsEmpty(k)
  /\ got' = [got EXCEPT ![l] = elements[l][read[l]]]
  /\ read' = [read EXCEPT ![l] = NextSlot(l, @)]
  /\ lvl' = [lvl EXCEPT ![r] = l]
  /\ pc' = [pc EXCEPT ![r] =
              IF \E k \in Level : read'[k] # write[k] THEN "rd_give"
              ELSE "rd_givew"]
  /\ UNCHANGED <<handle, write, elements, read_signal, write_signal, wait,
                 stored, posts>>

\* The critical section of a read that finds nothing: it returns -1.
TakeNothing(r) ==
  /\ ~NonEmpty
  /\ pc' = [pc EXCEPT ![r] = "idle"]
  /\ UNCHANGED <<handle, qvars, read_signal, write_signal, lvl, wait, posts>>

ReadTake(r) ==
  /\ pc[r] = "rd_take"
  /\ TakeNothing(r) \/ \E l \in Level : TakeFrom(r, l)

\* if( !is_empty ) sw_signal_give( q->read_signal ), in its two halves.
ReadGive(r) ==
  /\ pc[r] = "rd_give"
  /\ pc' = [pc EXCEPT ![r] =
              IF GiveNeeded(read_signal) THEN "rd_sempost" ELSE "rd_givew"]
  /\ UNCHANGED <<handle, qvars, read_signal, write_signal, lvl, wait, posts>>

ReadSemPost(r) ==
  /\ pc[r] = "rd_sempost"
  /\ read_signal' = read_signal + 1
  /\ pc' = [pc EXCEPT ![r] = "rd_givew"]
  /\ UNCHANGED <<handle, qvars, write_signal, lvl, wait, posts>>

\* sw_signal_give( q->write_signal[idx_got] ), in its two halves.
ReadGiveWriter(r) ==
  /\ pc[r] = "rd_givew"
  /\ pc' = [pc EXCEPT ![r] =
              IF GiveNeeded(write_signal[lvl[r]]) THEN "rd_sempostw"
              ELSE "idle"]
  /\ UNCHANGED <<handle, qvars, read_signal, write_signal, lvl, wait, posts>>

ReadSemPostWriter(r) ==
  /\ pc[r] = "rd_sempostw"
  /\ write_signal' = [write_signal EXCEPT ![lvl[r]] = @ + 1]
  /\ pc' = [pc EXCEPT ![r] = "idle"]
  /\ UNCHANGED <<handle, qvars, read_signal, lvl, wait, posts>>

-----------------------------------------------------------------------------
\* sw_queue_clear (S = Level) and sw_queue_clear_with_level (S = {l}).
\* Both end with sw_signal_give( q->write_signal ), which passes the address
\* of the array where a signal handle is expected.  Read as a signal, the
\* array has the pointer write_signal[0] for a count and write_signal[4] for
\* max_val; the latter is NULL with fewer than five levels, so the give
\* compares a user-space address with 0 and posts nothing.
ClearGive == UNCHANGED <<read_signal, write_signal>>

Clear(S) ==
  /\ handle = "open"
  /\ read' = [l \in Level |-> IF l \in S THEN 0 ELSE read[l]]
  /\ write' = [l \in Level |-> IF l \in S THEN 0 ELSE write[l]]
  /\ ClearGive
  /\ UNCHANGED <<handle, elements, pc, lvl, wait, stored, got, posts>>

-----------------------------------------------------------------------------
WriterStep(w) ==
  \/ PostCheck(w)
  \/ PostWait(w)
  \/ PostStore(w)
  \/ PostGive(w)
  \/ PostSemPost(w)

ReaderStep(r) ==
  \/ ReadWait(r)
  \/ ReadTimeout(r)
  \/ ReadTake(r)
  \/ ReadGive(r)
  \/ ReadSemPost(r)
  \/ ReadGiveWriter(r)
  \/ ReadSemPostWriter(r)

Next ==
  \/ Create
  \/ Destroy
  \/ \E w \in Writers : \/ WriterStep(w)
                        \/ \E l \in Level : PostDrain(w, l)
  \/ \E r \in Readers : \/ ReaderStep(r)
                        \/ \E timeout \in {"forever", "timed"} :
                             ReadCall(r, timeout)
  \/ \E c \in Clearers : \/ Clear(Level)
                         \/ \E l \in Level : Clear({l})

Spec == Init /\ [][Next]_vars

\* Every thread inside a call keeps running until the call returns; no
\* fairness is assumed of a waiting thread beyond what sem_wait gives (a
\* thread that stays able to take the semaphore takes it).
FairSpec ==
  /\ Spec
  /\ \A w \in Writers : WF_vars(WriterStep(w))
  /\ \A r \in Readers : WF_vars(ReaderStep(r))

\* FairSpec for callers that never stop reading.
ReadingSpec ==
  /\ FairSpec
  /\ \A r \in Readers : WF_vars(ReadCall(r, "forever"))

-----------------------------------------------------------------------------
\* Properties

WriterPC == {"idle", "wr_check", "wr_wait", "wr_store", "wr_give",
             "wr_sempost"}
ReaderPC == {"idle", "rd_wait", "rd_take", "rd_give", "rd_sempost",
             "rd_givew", "rd_sempostw"}

\* The rings: pointers and slots.
RingOK ==
  /\ read \in [Level -> Nat] /\ write \in [Level -> Nat]
  /\ \A l \in Level : read[l] < QSize[l] /\ write[l] < QSize[l]
  /\ DOMAIN elements = Level
  /\ \A l \in Level : elements[l] \in [0..(QSize[l] - 1) -> Nat]
  /\ stored \in [Level -> Nat] /\ got \in [Level -> Nat]

\* The indices stay inside their rings, the counts are never negative and
\* every thread is at a known place of the call it is in.
TypeOK ==
  /\ RingOK
  /\ handle \in {"null", "open"}
  /\ read_signal \in Nat
  /\ write_signal \in [Level -> Nat]
  /\ pc \in [Threads -> WriterPC \cup ReaderPC]
  /\ lvl \in [Threads -> Level]
  /\ wait \in [Threads -> {"forever", "timed"}]
  /\ posts \in Nat

\* A thread that has yet to look at the rings, or to give the read signal
\* after having looked at them.
WillSignal(t) ==
  pc[t] \in {"wr_give", "wr_sempost", "rd_take", "rd_give", "rd_sempost"}

\* No lost wake-up: while any level holds an element, either the read
\* signal is up or some thread is still going to raise it or to scan the
\* rings; so no reader can sleep for ever in sw_queue_read beside a
\* non-empty queue.  It survives the racy give, the clears and any number
\* of writers and readers.
NoLostWakeup ==
  NonEmpty => read_signal > 0 \/ \E t \in Threads : WillSignal(t)

\* The slot of the j-th oldest element of a level, and what the level holds,
\* oldest first.
SlotOf(l, j) == IF read[l] + j - 1 < QSize[l] THEN read[l] + j - 1
                ELSE read[l] + j - 1 - QSize[l]
Contents(l) == [j \in 1..Num(l) |-> elements[l][SlotOf(l, j)]]

\* A level always holds the most recently posted elements of that level, in
\* the order they were stored, all of them newer than anything read before,
\* whatever covering, overwriting and clearing did: the index updates of post
\* and read never expose a slot that was not written in this lap.
HoldsLatest ==
  \A l \in Level :
    /\ got[l] + Num(l) <= stored[l]
    /\ \A j \in 1..Num(l) :
         elements[l][SlotOf(l, j)] = stored[l] - Num(l) + j

\* A read never returns an element twice or out of order: on each level the
\* stamp a successful read returns is newer than all returned before it.
ReadsInOrder ==
  [][\A r \in Readers :
       pc[r] = "rd_take" /\ pc'[r] \in {"rd_give", "rd_givew"}
         => got'[lvl'[r]] > got[lvl'[r]]]_vars

\* The rings, with their threads, signals and races, implement the abstract
\* priority queue: a post to a covering level keeps the QSize - 1 most recent
\* elements, a read takes the oldest element of the first non-empty level, and
\* the only way to lose elements otherwise is a post beside a full level.
Abstract == INSTANCE PriorityQueue WITH
              Max <- [l \in Level |-> GetMax(l)],
              Cover <- FullCover,
              queue <- [l \in Level |-> Contents(l)]
ImplementsPriorityQueue == Abstract!Spec

\* A reader waiting beside a non-empty queue does not stay there: it gets
\* the read signal, or somebody empties the queue first.
WaitingReaderServed ==
  \A r \in Readers :
    (pc[r] = "rd_wait" /\ NonEmpty) ~> (pc[r] # "rd_wait" \/ ~NonEmpty)

-----------------------------------------------------------------------------
\* What the comments of the code say and the code does not do

\* swqueue.c:217-218: where old elements may not be deleted, a post waits
\* "until one element is free" before it adds its own.  So no post to such a
\* level may find it full.
PostWaitsForRoom ==
  \A w \in Writers :
    pc[w] = "wr_store" /\ lvl[w] \notin FullCover
      => ~IsFull(lvl[w])

\* swqueue.c:240: sw_queue_read "keeps waiting if the queue is empty", so a
\* read without a timeout never comes back empty-handed.
ReadWaitsForElement ==
  [][\A r \in Readers :
       wait[r] = "forever" /\ pc[r] = "rd_take" => pc'[r] # "idle"]_vars

\* swsignal.h:20: maxval "takes the value 1"; the queue's signals are binary.
SignalsBinary == read_signal <= 1 /\ \A l \in Level : write_signal[l] <= 1

\* swqueue.c:217-218 again: once there is room again the waiting post adds
\* its element.  sw_queue_clear makes room.
ClearWakesWriter ==
  \A w \in Writers :
    pc[w] = "wr_wait" /\ ~IsFull(lvl[w]) ~> pc[w] # "wr_wait"
=============================================================================
