------------------------------- MODULE SwThrd -------------------------------
(***************************************************************************)
(* The thread table of swapi (base/swos/swthrd.c): opening, pausing,       *)
(* resuming and closing threads, the loop every thread runs, the reaping   *)
(* of threads that ended by themselves, and the look-up by pid.            *)
(*                                                                         *)
(* A thread is known by its info block, the handle sw_thrd_open returns.   *)
(* Each block is used for one thread, so that a touch of a freed block is  *)
(* visible; what a thread reads from its freed block is arbitrary.  The    *)
(* block's fields are sets of blocks: handlers (handler # NULL), paused    *)
(* (is_pause), exiting (is_exit).                                          *)
(*                                                                         *)
(* m_all is the set of the blocks in the table: which slot a block is in   *)
(* matters to nobody.  Everything done with m_mutex held is one step; what *)
(* a thread, a closing owner or a look-up does without it is not.          *)
(***************************************************************************)
EXTENDS Integers, FiniteSets

CONSTANTS
  Info,        \* the info blocks that may be allocated
  MaxThrd,     \* MAX_THRD_NUM
  Lookups,     \* the blocks looked up by pid or name
  MaxPosts     \* bound: resumes are not called beyond this semaphore count

ASSUME InfoAssumption == IsFiniteSet(Info)
ASSUME MaxAssumption == MaxThrd \in Nat \ {0} /\ MaxPosts \in Nat

VARIABLES
  m_all,       \* blocks in the table
  m_ref,       \* its count, -1 before the first open
  block,       \* "none", "live", "freed", or "leaked" by a failed open
  handlers, paused, exiting, sem,   \* fields of the blocks
  tpc,         \* where the block's thread is
  cancelled,   \* threads with a pthread_cancel pending
  opc,         \* where the block's owner is
  lookup,      \* block the look-up has read from the table, or "idle"
  stopped      \* history: paused during a call and not resumed since

fields == <<handlers, paused, exiting, sem>>
table == <<m_all, m_ref, block>>
vars == <<m_all, m_ref, block, handlers, paused, exiting, sem, tpc, cancelled,
          opc, lookup, stopped>>

Init ==
  /\ m_all = {} /\ m_ref = -1
  /\ block = [i \in Info |-> "none"]
  /\ handlers = {} /\ paused = {} /\ exiting = {}
  /\ sem = [i \in Info |-> 0]
  /\ tpc = [i \in Info |-> "none"]
  /\ cancelled = {}
  /\ opc = [i \in Info |-> "none"]
  /\ lookup = "idle"
  /\ stopped = {}

-----------------------------------------------------------------------------
\* sw_thrd_open: the critical section, entered with the lazy initialisation
\* done.  The first open is not concurrent with another one.

OpenRef == IF m_ref < 0 THEN 0 ELSE m_ref

\* The blocks released when the table is about to fill up: those whose
\* thread has set its handler to NULL.
Reapable ==
  IF OpenRef > MaxThrd - 2 THEN {i \in m_all : i \notin handlers} ELSE {}

RefAfterReap == OpenRef - Cardinality(Reapable)

\* What every open does: release the reapable blocks (zeroed, freed, out of
\* the table), enter the blocks of new.
ReapAndEnter(new) ==
  /\ m_all' = (m_all \ Reapable) \cup new
  /\ m_ref' = RefAfterReap + Cardinality(new)
  /\ exiting' = exiting \ Reapable
  /\ sem' = [j \in Info |-> IF j \in Reapable THEN 0 ELSE sem[j]]

Freed(R) == [j \in Info |-> IF j \in R THEN "freed" ELSE block[j]]

\* The thread limit is reached although self-exited threads were released,
\* or there is no memory for the block.
OpenRefused(i) ==
  /\ block[i] = "none" /\ opc[i] = "none"
  /\ ReapAndEnter({})
  /\ block' = Freed(Reapable)
  /\ paused' = paused \ Reapable
  /\ opc' = [opc EXCEPT ![i] = IF RefAfterReap >= MaxThrd THEN "full" ELSE "failed"]
  /\ UNCHANGED <<handlers, tpc, cancelled, lookup, stopped>>

\* pthread_create (or sem_init) fails: the new block is neither in the table
\* nor freed.
OpenFailed(i) ==
  /\ block[i] = "none" /\ opc[i] = "none"
  /\ RefAfterReap < MaxThrd
  /\ ReapAndEnter({})
  /\ block' = [Freed(Reapable) EXCEPT ![i] = "leaked"]
  /\ paused' = paused \ Reapable
  /\ opc' = [opc EXCEPT ![i] = "failed"]
  /\ UNCHANGED <<handlers, tpc, cancelled, lookup, stopped>>

\* The thread is created, paused, and entered into the table if a slot is
\* free.
Open(i) ==
  /\ block[i] = "none" /\ opc[i] = "none"
  /\ RefAfterReap < MaxThrd
  /\ ReapAndEnter(IF Cardinality(m_all \ Reapable) < MaxThrd THEN {i} ELSE {})
  /\ block' = [Freed(Reapable) EXCEPT ![i] = "live"]
  /\ handlers' = handlers \cup {i}
  /\ paused' = (paused \ Reapable) \cup {i}
  /\ tpc' = [tpc EXCEPT ![i] = "loop"]
  /\ opc' = [opc EXCEPT ![i] = "idle"]
  /\ UNCHANGED <<cancelled, lookup, stopped>>

-----------------------------------------------------------------------------
\* sema_thread_handler: the loop of a thread, one shared access per step

\* A branch on fields of the block, which may go either way once it is freed.
Branch(i, cond, then, else) ==
  \E next \in {then, else} :
    /\ block[i] # "freed" => (next = then <=> cond)
    /\ tpc' = [tpc EXCEPT ![i] = next]

\* while( !info->is_exit )
ThreadLoop(i) ==
  /\ tpc[i] = "loop"
  /\ Branch(i, i \in exiting, "exit", "pause")
  /\ UNCHANGED <<table, fields, cancelled, opc, lookup, stopped>>

\* if( info->is_pause )
ThreadPause(i) ==
  /\ tpc[i] = "pause"
  /\ Branch(i, i \in paused, "wait", "check")
  /\ UNCHANGED <<table, fields, cancelled, opc, lookup, stopped>>

\* sem_wait( &(info->sem) ) returning
ThreadWait(i) ==
  /\ tpc[i] = "wait"
  /\ sem[i] > 0 \/ block[i] = "freed"
  /\ sem' = [sem EXCEPT ![i] = IF @ > 0 THEN @ - 1 ELSE 0]
  /\ tpc' = [tpc EXCEPT ![i] = "check"]
  /\ UNCHANGED <<table, handlers, paused, exiting, cancelled, opc,
                 lookup, stopped>>

\* if( info->handler == NULL || info->is_exit ) break; then the call starts
ThreadCheck(i) ==
  /\ tpc[i] = "check"
  /\ Branch(i, i \notin handlers \/ i \in exiting, "exit", "run")
  /\ UNCHANGED <<table, fields, cancelled, opc, lookup, stopped>>

\* The handler returns true (call again) or false (end the thread).
ThreadRun(i) ==
  /\ tpc[i] = "run"
  /\ \E next \in {"loop", "exit"} : tpc' = [tpc EXCEPT ![i] = next]
  /\ UNCHANGED <<table, fields, cancelled, opc, lookup, stopped>>

\* info->handler = NULL
ThreadExit(i) ==
  /\ tpc[i] = "exit"
  /\ handlers' = handlers \ {i}
  /\ tpc' = [tpc EXCEPT ![i] = "log"]
  /\ UNCHANGED <<table, paused, exiting, sem, cancelled, opc, lookup, stopped>>

\* The last message prints info->name and info->pid.
ThreadLog(i) ==
  /\ tpc[i] = "log"
  /\ tpc' = [tpc EXCEPT ![i] = "gone"]
  /\ UNCHANGED <<table, fields, cancelled, opc, lookup, stopped>>

\* A pending asynchronous cancellation takes effect.
ThreadCancelled(i) ==
  /\ i \in cancelled
  /\ tpc[i] \notin {"none", "gone"}
  /\ tpc' = [tpc EXCEPT ![i] = "gone"]
  /\ UNCHANGED <<table, fields, cancelled, opc, lookup, stopped>>

-----------------------------------------------------------------------------
\* The owner of a handle

\* sw_thrd_pause
Pause(i) ==
  /\ opc[i] = "idle"
  /\ paused' = paused \cup {i}
  /\ stopped' = IF tpc[i] = "run" THEN stopped \cup {i} ELSE stopped
  /\ UNCHANGED <<table, handlers, exiting, sem, tpc, cancelled, opc,
                 lookup>>

\* Mutant of ResumeClear: the semaphore is not posted.
ResumeNoPost(i) ==
  /\ opc[i] = "idle"
  /\ sem[i] < MaxPosts
  /\ paused' = paused \ {i}
  /\ stopped' = stopped \ {i}
  /\ UNCHANGED <<table, handlers, exiting, sem, tpc, cancelled, opc,
                 lookup>>

\* sw_thrd_resume: info->is_pause = 0, then sem_post
ResumeClear(i) ==
  /\ opc[i] = "idle"
  /\ sem[i] < MaxPosts
  /\ paused' = paused \ {i}
  /\ stopped' = stopped \ {i}
  /\ opc' = [opc EXCEPT ![i] = "rs_post"]
  /\ UNCHANGED <<table, handlers, exiting, sem, tpc, cancelled, lookup>>

ResumePost(i) ==
  /\ opc[i] = "rs_post"
  /\ sem' = [sem EXCEPT ![i] = @ + 1]
  /\ opc' = [opc EXCEPT ![i] = "idle"]
  /\ UNCHANGED <<table, handlers, paused, exiting, tpc, cancelled,
                 lookup, stopped>>

\* sw_thrd_close: info->is_exit = 1, then sem_post
CloseSet(i) ==
  /\ opc[i] = "idle"
  /\ exiting' = exiting \cup {i}
  /\ opc' = [opc EXCEPT ![i] = "c_post"]
  /\ UNCHANGED <<table, handlers, paused, sem, tpc, cancelled, lookup,
                 stopped>>

ClosePost(i) ==
  /\ opc[i] = "c_post"
  /\ sem' = [sem EXCEPT ![i] = @ + 1]
  /\ opc' = [opc EXCEPT ![i] = "c_poll"]
  /\ UNCHANGED <<table, handlers, paused, exiting, tpc, cancelled,
                 lookup, stopped>>

\* Mutant of ClosePoll: the loop has no time limit.
ClosePollForever(i) ==
  /\ opc[i] = "c_poll"
  /\ i \notin handlers
  /\ opc' = [opc EXCEPT ![i] = "c_lock"]
  /\ UNCHANGED <<table, fields, tpc, cancelled, lookup, stopped>>

\* The polling loop ends: info->handler is NULL or the ms have run out.
ClosePoll(i) ==
  /\ opc[i] = "c_poll"
  /\ opc' = [opc EXCEPT ![i] = "c_lock"]
  /\ UNCHANGED <<table, fields, tpc, cancelled, lookup, stopped>>

\* Mutant of CloseFree: the thread is not cancelled.
CloseFreeNoCancel(i) ==
  /\ opc[i] = "c_lock"
  /\ i \in m_all
  /\ m_all' = m_all \ {i}
  /\ m_ref' = m_ref - 1
  /\ block' = [block EXCEPT ![i] = "freed"]
  /\ handlers' = handlers \ {i}
  /\ paused' = paused \ {i}
  /\ exiting' = exiting \ {i}
  /\ sem' = [sem EXCEPT ![i] = 0]
  /\ opc' = [opc EXCEPT ![i] = "closed"]
  /\ UNCHANGED <<tpc, cancelled, lookup, stopped>>

\* The critical section, the block being in the table: a thread that has not
\* ended is cancelled (and not waited for), and the block is freed.
CloseFree(i) ==
  /\ opc[i] = "c_lock"
  /\ i \in m_all
  /\ cancelled' = IF i \in handlers THEN cancelled \cup {i} ELSE cancelled
  /\ m_all' = m_all \ {i}
  /\ m_ref' = m_ref - 1
  /\ block' = [block EXCEPT ![i] = "freed"]
  /\ handlers' = handlers \ {i}
  /\ paused' = paused \ {i}
  /\ exiting' = exiting \ {i}
  /\ sem' = [sem EXCEPT ![i] = 0]
  /\ opc' = [opc EXCEPT ![i] = "closed"]
  /\ UNCHANGED <<tpc, lookup, stopped>>

\* Mutant of CloseNotFound: the block is freed although it is not in the table.
CloseFreeAgain(i) ==
  /\ opc[i] = "c_lock"
  /\ i \notin m_all
  /\ m_ref' = m_ref - 1
  /\ block' = [block EXCEPT ![i] = "freed"]
  /\ opc' = [opc EXCEPT ![i] = "closed"]
  /\ UNCHANGED <<m_all, fields, tpc, cancelled, lookup, stopped>>

\* The critical section, the block having been released by an open meanwhile.
CloseNotFound(i) ==
  /\ opc[i] = "c_lock"
  /\ i \notin m_all
  /\ opc' = [opc EXCEPT ![i] = "closed"]
  /\ UNCHANGED <<table, fields, tpc, cancelled, lookup, stopped>>

-----------------------------------------------------------------------------
\* sw_thrd_getname_bypid (and, alike, sw_thrd_find_byname, sw_thrd_getinfo and
\* sw_thrd_print): reads a slot of the table, then the block, without m_mutex.
LookupRead(i) ==
  /\ lookup = "idle"
  /\ i \in m_all \cap Lookups
  /\ lookup' = i
  /\ UNCHANGED <<table, fields, tpc, cancelled, opc, stopped>>

LookupUse ==
  /\ lookup # "idle"
  /\ lookup' = "idle"
  /\ UNCHANGED <<table, fields, tpc, cancelled, opc, stopped>>

-----------------------------------------------------------------------------
\* What a thread does without its handler having to return.
ThreadStep(i) ==
  \/ ThreadLoop(i) \/ ThreadPause(i) \/ ThreadWait(i) \/ ThreadCheck(i)
  \/ ThreadExit(i) \/ ThreadLog(i)

CloseStep(i) ==
  ClosePost(i) \/ ClosePoll(i) \/ CloseFree(i) \/ CloseNotFound(i)

Next ==
  \/ \E i \in Info :
       \/ Open(i) \/ OpenRefused(i) \/ OpenFailed(i)
       \/ ThreadStep(i) \/ ThreadRun(i) \/ ThreadCancelled(i)
       \/ Pause(i) \/ ResumeClear(i) \/ ResumePost(i)
       \/ CloseSet(i) \/ CloseStep(i)
       \/ LookupRead(i)
  \/ LookupUse

Spec == Init /\ [][Next]_vars

\* Threads and closing owners keep running and an asynchronous cancellation is
\* delivered; nobody has to open, pause, resume or close, and a handler need
\* not return.
FairSpec ==
  /\ Spec
  /\ \A i \in Info : /\ WF_vars(ThreadStep(i)) /\ WF_vars(ThreadCancelled(i))
                    /\ WF_vars(CloseStep(i))

-----------------------------------------------------------------------------
\* Properties

\* The types of the thread table, of the blocks' fields and of where the
\* threads and their owners are.
TypeOK ==
  /\ m_all \subseteq Info
  /\ m_ref \in Int
  /\ block \in [Info -> {"none", "live", "freed", "leaked"}]
  /\ handlers \subseteq Info /\ paused \subseteq Info /\ exiting \subseteq Info
  /\ sem \in [Info -> Nat]
  /\ tpc \in [Info -> {"none", "loop", "pause", "wait", "check", "run", "exit",
                       "log", "gone"}]
  /\ cancelled \subseteq Info
  /\ opc \in [Info -> {"none", "idle", "full", "failed", "rs_post",
                       "c_post", "c_poll", "c_lock", "closed"}]
  /\ lookup \in Info \cup {"idle"}
  /\ stopped \subseteq Info

\* The count and the table agree, the table never exceeds its size, and it
\* holds exactly the blocks that are neither freed nor leaked: no block is
\* freed twice, whether by sw_thrd_close or by the reaping in sw_thrd_open.
TableConsistent ==
  /\ m_ref = Cardinality(m_all) \/ (m_ref = -1 /\ m_all = {})
  /\ m_ref <= MaxThrd
  /\ m_all = {i \in Info : block[i] = "live"}

\* A thread sleeping in sem_wait that is no longer paused, or is to exit, has
\* a post waiting for it or its owner is about to post: neither a resume nor
\* a close is lost to a thread that was on its way into the wait.
NoLostResume ==
  \A i \in Info :
    block[i] = "live" /\ tpc[i] = "wait" /\ (i \notin paused \/ i \in exiting)
      => sem[i] > 0 \/ opc[i] \in {"rs_post", "c_post"}

\* A thread that outlives its block has a cancellation pending or is at its
\* last message: sw_thrd_close never frees a block under a thread that may go
\* on calling its handler.
FreedThreadDoomed ==
  \A i \in Info :
    block[i] = "freed" => tpc[i] \in {"log", "gone"} \/ i \in cancelled

\* The reaping in sw_thrd_open releases only threads that have left their
\* loop by themselves: a handle its owner still holds is not pulled away from
\* under a running thread.
ReapedHasEnded ==
  \A i \in Info :
    block[i] = "freed" /\ opc[i] # "closed" => tpc[i] \in {"log", "gone"}

\* sw_thrd_open refuses for lack of slots only when every thread of the table
\* is still in its loop.
FullMeansBusy ==
  [][\A i \in Info : opc[i] = "none" /\ opc'[i] = "full" => m_all' \subseteq handlers']_vars

\* A thread that is being closed ends, even if its handler never returns:
\* either it leaves its loop or it is cancelled.
ClosedThreadEnds == \A i \in Info : opc[i] = "c_post" ~> tpc[i] = "gone"

-----------------------------------------------------------------------------
\* What the comments of the code say and the code does not do

\* swthrd.h:101: sw_thrd_pause pauses the thread; so a thread paused during a
\* call of its handler starts no further call before it is resumed.
PauseHolds ==
  [][\A i \in stopped : ~ (tpc[i] = "check" /\ tpc'[i] = "run")]_vars

\* swthrd.c:805: the name is copied so that a thread ending, and its memory
\* being freed, cannot make the use of m_all[i]->name crash; so the block a
\* look-up is about to read is not freed.
LookupSafe == lookup # "idle" => block[lookup] # "freed"
=============================================================================
