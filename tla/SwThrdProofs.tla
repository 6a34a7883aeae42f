---------------------------- MODULE SwThrdProofs ----------------------------
(***************************************************************************)
(* Proofs about the thread table, for any set of info blocks and any size  *)
(* of the table.                                                           *)
(***************************************************************************)
EXTENDS SwThrd, FiniteSetTheorems, TLAPS

\* The set of reapable blocks is a part of the table, and those blocks have
\* lost their handler.
LEMMA ReapableType ==
  ASSUME TypeOK
  PROVE  /\ Reapable \subseteq m_all
         /\ Reapable \cap handlers = {}
BY DEF Reapable, TypeOK

\* Removing a part of the table from it reduces its count by that of the part.
LEMMA CardinalityOfRest ==
  ASSUME NEW S, IsFiniteSet(S), NEW T \in SUBSET S
  PROVE  Cardinality(S \ T) = Cardinality(S) - Cardinality(T)
<1>1. S \cap T = T
  OBVIOUS
<1> QED BY <1>1, FS_Difference, Zenon

-----------------------------------------------------------------------------
\* Every reachable state of the thread table is well typed.
THEOREM TypeCorrect == Spec => []TypeOK
<1>1. Init => TypeOK
  BY DEF Init, TypeOK
<1>2. TypeOK /\ [Next]_vars => TypeOK'
  <2> SUFFICES ASSUME TypeOK, [Next]_vars PROVE TypeOK'
    OBVIOUS
  <2>0. Reapable \subseteq Info
    BY ReapableType DEF TypeOK
  <2>1. ASSUME NEW i \in Info, Open(i) \/ OpenRefused(i) \/ OpenFailed(i)
        PROVE  TypeOK'
    <3>1. IsFiniteSet(Reapable)
      BY <2>0, FS_Subset, InfoAssumption
    <3>2. m_ref' \in Int
      <4>1. Cardinality(Reapable) \in Nat
        BY <3>1, FS_CardinalityType
      <4>2. Cardinality({}) \in Nat /\ Cardinality({i}) \in Nat
        <5>1. Cardinality({}) = 0 /\ Cardinality({i}) = 1
          BY FS_EmptySet, FS_Singleton, Zenon
        <5> QED BY <5>1
      <4> QED BY <2>1, <4>1, <4>2
             DEF Open, OpenRefused, OpenFailed, ReapAndEnter, RefAfterReap,
                 OpenRef, TypeOK
    <3>3. m_all' \subseteq Info
      BY <2>1 DEF Open, OpenRefused, OpenFailed, ReapAndEnter, TypeOK
    <3>4. block' \in [Info -> {"none", "live", "freed", "leaked"}]
      <4>1. Freed(Reapable) \in [Info -> {"none", "live", "freed", "leaked"}]
        BY DEF Freed, TypeOK
      <4> QED BY <2>1, <4>1 DEF Open, OpenRefused, OpenFailed
    <3>5. sem' \in [Info -> Nat]
      BY <2>1 DEF Open, OpenRefused, OpenFailed, ReapAndEnter, TypeOK
    <3> QED BY <2>1, <3>2, <3>3, <3>4, <3>5
           DEF Open, OpenRefused, OpenFailed, ReapAndEnter, TypeOK
  <2>2. ASSUME NEW i \in Info, ThreadStep(i) \/ ThreadRun(i) \/ ThreadCancelled(i)
        PROVE  TypeOK'
    BY <2>2 DEF ThreadStep, ThreadLoop, ThreadPause, ThreadWait, ThreadCheck,
       ThreadExit, ThreadLog, ThreadRun, ThreadCancelled, Branch, TypeOK,
       table, fields
  <2>3. ASSUME NEW i \in Info, Pause(i) \/ ResumeClear(i) \/ ResumePost(i) \/ CloseSet(i)
        PROVE  TypeOK'
    BY <2>3 DEF Pause, ResumeClear, ResumePost, CloseSet, TypeOK, table, fields
  <2>4. ASSUME NEW i \in Info, CloseStep(i)
        PROVE  TypeOK'
    BY <2>4 DEF CloseStep, ClosePost, ClosePoll, CloseFree, CloseNotFound,
       TypeOK, table, fields
  <2>5. ASSUME NEW i \in Info, LookupRead(i)
        PROVE  TypeOK'
    BY <2>5 DEF LookupRead, TypeOK, table, fields
  <2>6. CASE LookupUse
    BY <2>6 DEF LookupUse, TypeOK, table, fields
  <2>7. CASE UNCHANGED vars
    BY <2>7 DEF vars, TypeOK
  <2> QED BY <2>1, <2>2, <2>3, <2>4, <2>5, <2>6, <2>7 DEF Next
<1> QED BY <1>1, <1>2, PTL DEF Spec

-----------------------------------------------------------------------------
\* The count, the size and the contents of the thread table stay consistent,
\* so that neither sw_thrd_close nor the reaping in sw_thrd_open frees a block
\* twice.
THEOREM TableConsistentHolds == Spec => []TableConsistent
<1>1. Init => TableConsistent
  BY FS_EmptySet, MaxAssumption DEF Init, TableConsistent
<1>2. TypeOK /\ TableConsistent /\ [Next]_vars => TableConsistent'
  <2> SUFFICES ASSUME TypeOK, TableConsistent, [Next]_vars
               PROVE  TableConsistent'
    OBVIOUS
  <2>0. /\ IsFiniteSet(m_all)
        /\ Cardinality(m_all) \in Nat
        /\ m_all = {} => Cardinality(m_all) = 0
    BY FS_Subset, FS_CardinalityType, FS_EmptySet, InfoAssumption DEF TypeOK
  <2>1. ASSUME NEW i \in Info, Open(i) \/ OpenRefused(i) \/ OpenFailed(i)
        PROVE  TableConsistent'
    <3> DEFINE rest == m_all \ Reapable
    <3>1. Reapable \subseteq m_all
      BY ReapableType
    <3>2. /\ IsFiniteSet(rest)
          /\ Cardinality(rest) = Cardinality(m_all) - Cardinality(Reapable)
          /\ Cardinality(rest) \in Nat /\ Cardinality(Reapable) \in Nat
          /\ Cardinality(rest) <= Cardinality(m_all)
      BY <3>1, <2>0, FS_Subset, FS_CardinalityType, CardinalityOfRest
    <3>3. OpenRef = Cardinality(m_all) /\ Cardinality(m_all) <= MaxThrd
      BY <2>0, MaxAssumption DEF OpenRef, TableConsistent, TypeOK
    <3>4. RefAfterReap = Cardinality(rest)
      BY <3>2, <3>3, <2>0 DEF RefAfterReap
    <3>5. i \notin m_all
      BY <2>1 DEF Open, OpenRefused, OpenFailed, TableConsistent
    <3>6. rest = {j \in Info : Freed(Reapable)[j] = "live"}
      BY <3>1 DEF Freed, TableConsistent, TypeOK
    <3>7. Freed(Reapable) \in [Info -> {"none", "live", "freed", "leaked"}]
      BY DEF Freed, TypeOK
    <3> HIDE DEF rest
    <3>8. CASE Open(i)
      <4>1. m_all' = rest \cup {i} /\ m_ref' = RefAfterReap + Cardinality({i})
        BY <3>8, <3>4 DEF Open, ReapAndEnter, rest
      <4>2. i \notin rest
        BY <3>5 DEF rest
      <4>3. Cardinality(m_all') = Cardinality(rest) + 1 /\ Cardinality({i}) = 1
        BY <4>1, <4>2, <3>2, FS_AddElement, FS_Singleton, Zenon
      <4>4. m_all' = {j \in Info : block'[j] = "live"}
        BY <4>1, <3>6, <3>7, <3>8 DEF Open
      <4>5. m_ref' = Cardinality(m_all') /\ m_ref' <= MaxThrd
        BY <4>1, <4>3, <3>2, <3>4, <3>8, MaxAssumption DEF Open
      <4> QED BY <4>4, <4>5 DEF TableConsistent
    <3>9. CASE OpenRefused(i)
      <4>1. m_all' = rest /\ m_ref' = RefAfterReap + Cardinality({})
        BY <3>9 DEF OpenRefused, ReapAndEnter, rest
      <4>2. m_ref' = Cardinality(m_all') /\ m_ref' <= MaxThrd
        BY <4>1, <3>2, <3>3, <3>4, <2>0, FS_EmptySet, MaxAssumption
      <4> QED BY <4>1, <4>2, <3>6, <3>9 DEF TableConsistent, OpenRefused
    <3>10. CASE OpenFailed(i)
      <4>1. m_all' = rest /\ m_ref' = RefAfterReap + Cardinality({})
        BY <3>10 DEF OpenFailed, ReapAndEnter, rest
      <4>2. m_ref' = Cardinality(m_all') /\ m_ref' <= MaxThrd
        BY <4>1, <3>2, <3>3, <3>4, <2>0, FS_EmptySet, MaxAssumption
      <4>3. i \notin rest
        BY <3>5 DEF rest
      <4>4. m_all' = {j \in Info : block'[j] = "live"}
        BY <4>1, <4>3, <3>6, <3>7, <3>10 DEF OpenFailed
      <4> QED BY <4>2, <4>4 DEF TableConsistent
    <3> QED BY <2>1, <3>8, <3>9, <3>10
  <2>2. ASSUME NEW i \in Info, CloseFree(i)
        PROVE  TableConsistent'
    <3>1. m_all' = m_all \ {i} /\ m_ref' = m_ref - 1 /\ i \in m_all
      BY <2>2 DEF CloseFree
    <3>2. Cardinality(m_all') = Cardinality(m_all) - 1
      BY <3>1, <2>0, FS_RemoveElement
    <3>3. m_ref' = Cardinality(m_all') /\ m_ref' <= MaxThrd
      BY <3>1, <3>2, <2>0, MaxAssumption DEF TableConsistent, TypeOK
    <3>4. m_all' = {j \in Info : block'[j] = "live"}
      BY <3>1, <2>2 DEF CloseFree, TableConsistent, TypeOK
    <3> QED BY <3>3, <3>4 DEF TableConsistent
  <2>3. CASE UNCHANGED table
    BY <2>3 DEF table, TableConsistent
  <2> QED
    <3>1. ASSUME NEW i \in Info,
                 \/ ThreadStep(i) \/ ThreadRun(i) \/ ThreadCancelled(i)
                 \/ Pause(i) \/ ResumeClear(i) \/ ResumePost(i)
                 \/ CloseSet(i) \/ LookupRead(i)
          PROVE  UNCHANGED table
      BY <3>1 DEF ThreadStep, ThreadLoop, ThreadPause, ThreadWait, ThreadCheck,
         ThreadExit, ThreadLog, ThreadRun, ThreadCancelled, Pause, ResumeClear,
         ResumePost, CloseSet, LookupRead
    <3>2. ASSUME NEW i \in Info, ClosePost(i) \/ ClosePoll(i) \/ CloseNotFound(i)
          PROVE  UNCHANGED table
      BY <3>2 DEF ClosePost, ClosePoll, CloseNotFound
    <3>3. LookupUse \/ UNCHANGED vars => UNCHANGED table
      BY DEF LookupUse, vars, table
    <3> QED BY <2>1, <2>2, <2>3, <3>1, <3>2, <3>3 DEF Next, CloseStep
<1> QED BY <1>1, <1>2, TypeCorrect, PTL DEF Spec

-----------------------------------------------------------------------------
\* Why no resume or close is lost, an inductive strengthening of NoLostResume:
\* a live thread that waits unpaused has a post coming from its resume, and one
\* that is to exit and has passed the loop's test has one from its close.
PostComing ==
  \A i \in Info :
    block[i] = "live" =>
      /\ tpc[i] = "wait" /\ i \notin paused => sem[i] > 0 \/ opc[i] = "rs_post"
      /\ tpc[i] \in {"pause", "wait"} /\ i \in exiting
           => sem[i] > 0 \/ opc[i] = "c_post"

\* A block leaves the table only with its memory; every open leaves the threads
\* that stay live, and their owners, as they were.
LEMMA OpenKeepsLive ==
  ASSUME TypeOK, NEW i \in Info, Open(i) \/ OpenRefused(i) \/ OpenFailed(i),
         NEW j \in Info, block'[j] = "live", j # i
  PROVE  /\ block[j] = "live" /\ tpc'[j] = tpc[j] /\ opc'[j] = opc[j]
         /\ sem'[j] = sem[j]
         /\ j \in paused' <=> j \in paused
         /\ j \in exiting' <=> j \in exiting
<1>1. Freed(Reapable) \in [Info -> {"none", "live", "freed", "leaked"}]
  BY DEF Freed, TypeOK
<1>2. Freed(Reapable)[j] = "live" => block[j] = "live" /\ j \notin Reapable
  BY DEF Freed
<1>3. block'[j] = Freed(Reapable)[j]
  BY <1>1 DEF Open, OpenRefused, OpenFailed
<1> QED BY <1>2, <1>3
       DEF Open, OpenRefused, OpenFailed, ReapAndEnter, TypeOK

\* Neither sw_thrd_resume nor sw_thrd_close loses the wake-up of a thread that
\* is on its way into sem_wait.
THEOREM NoLostResumeHolds == Spec => []NoLostResume
<1>1. Init => PostComing
  BY DEF Init, PostComing
<1>2. TypeOK /\ PostComing /\ [Next]_vars => PostComing'
  <2> SUFFICES ASSUME TypeOK, PostComing, [Next]_vars,
                      NEW j \in Info, block'[j] = "live"
               PROVE  /\ tpc'[j] = "wait" /\ j \notin paused'
                           => sem'[j] > 0 \/ opc'[j] = "rs_post"
                      /\ tpc'[j] \in {"pause", "wait"} /\ j \in exiting'
                           => sem'[j] > 0 \/ opc'[j] = "c_post"
    BY DEF PostComing
  <2> DEFINE Goal == /\ tpc'[j] = "wait" /\ j \notin paused'
                          => sem'[j] > 0 \/ opc'[j] = "rs_post"
                     /\ tpc'[j] \in {"pause", "wait"} /\ j \in exiting'
                          => sem'[j] > 0 \/ opc'[j] = "c_post"
  <2>1. ASSUME NEW i \in Info, Open(i) \/ OpenRefused(i) \/ OpenFailed(i)
        PROVE  Goal
    <3>1. CASE j # i
      BY <2>1, <3>1, OpenKeepsLive DEF PostComing
    <3>2. CASE j = i
      <4>1. Open(i)
        <5>1. Freed(Reapable) \in [Info -> {"none", "live", "freed", "leaked"}]
          BY DEF Freed, TypeOK
        <5>2. Freed(Reapable)[i] # "live"
          BY <2>1 DEF Freed, Open, OpenRefused, OpenFailed
        <5> QED BY <2>1, <3>2, <5>1, <5>2 DEF OpenRefused, OpenFailed
      <4> QED BY <4>1, <3>2 DEF Open, TypeOK
    <3> QED BY <3>1, <3>2
  <2>2. ASSUME NEW i \in Info, ThreadStep(i) \/ ThreadRun(i) \/ ThreadCancelled(i)
        PROVE  Goal
    <3>1. block[j] = "live" /\ block[j] # "freed"
      BY <2>2 DEF ThreadStep, ThreadLoop, ThreadPause, ThreadWait, ThreadCheck,
         ThreadExit, ThreadLog, ThreadRun, ThreadCancelled, table
    <3>2. CASE ThreadLoop(i) \/ ThreadPause(i) \/ ThreadCheck(i)
      BY <3>1, <3>2 DEF ThreadLoop, ThreadPause, ThreadCheck, Branch,
         PostComing, TypeOK, fields
    <3>3. CASE ThreadWait(i)
      BY <3>1, <3>3 DEF ThreadWait, PostComing, TypeOK
    <3>4. CASE ThreadExit(i) \/ ThreadLog(i) \/ ThreadRun(i) \/ ThreadCancelled(i)
      BY <3>1, <3>4 DEF ThreadExit, ThreadLog, ThreadRun, ThreadCancelled,
         PostComing, TypeOK, fields
    <3> QED BY <2>2, <3>2, <3>3, <3>4 DEF ThreadStep
  <2>3. ASSUME NEW i \in Info, Pause(i) \/ ResumeClear(i) \/ ResumePost(i) \/ CloseSet(i)
        PROVE  Goal
    BY <2>3 DEF Pause, ResumeClear, ResumePost, CloseSet, PostComing, TypeOK,
       table
  <2>4. ASSUME NEW i \in Info, CloseStep(i)
        PROVE  Goal
    BY <2>4 DEF CloseStep, ClosePost, ClosePoll, CloseFree, CloseNotFound,
       PostComing, TypeOK, table, fields
  <2>5. ASSUME NEW i \in Info, LookupRead(i)
        PROVE  Goal
    BY <2>5 DEF LookupRead, PostComing, table, fields
  <2>6. CASE LookupUse \/ UNCHANGED vars
    BY <2>6 DEF LookupUse, vars, PostComing, table, fields
  <2> QED BY <2>1, <2>2, <2>3, <2>4, <2>5, <2>6 DEF Next
<1>3. PostComing => NoLostResume
  BY DEF PostComing, NoLostResume
<1> QED BY <1>1, <1>2, <1>3, TypeCorrect, PTL DEF Spec

-----------------------------------------------------------------------------
\* A live block without a handler is that of a thread that has left its loop,
\* the fact that makes releasing such blocks, and cancelling only threads with
\* a handler, safe.
HandlerMeansRunning ==
  \A i \in Info : block[i] = "live" /\ i \notin handlers => tpc[i] \in {"log", "gone"}

\* The inductive invariant behind the two theorems on freed blocks.
FreedSafely == HandlerMeansRunning /\ FreedThreadDoomed /\ ReapedHasEnded

LEMMA FreedSafelyHolds == Spec => []FreedSafely
<1> USE DEF FreedSafely, HandlerMeansRunning, FreedThreadDoomed, ReapedHasEnded
<1>1. Init => FreedSafely
  BY DEF Init
<1>2. TypeOK /\ TableConsistent /\ FreedSafely /\ [Next]_vars => FreedSafely'
  <2> SUFFICES ASSUME TypeOK, TableConsistent, FreedSafely, [Next]_vars
               PROVE  FreedSafely'
    OBVIOUS
  <2>1. ASSUME NEW i \in Info, Open(i) \/ OpenRefused(i) \/ OpenFailed(i)
        PROVE  FreedSafely'
    <3>1. \A j \in Reapable : j \in Info /\ tpc[j] \in {"log", "gone"} /\ j # i
      BY <2>1, ReapableType DEF TableConsistent, TypeOK, Open, OpenRefused, OpenFailed
    <3>2. \A j \in Info : j # i => block'[j] = Freed(Reapable)[j]
      BY <2>1, Zenon DEF Open, OpenRefused, OpenFailed, Freed
    <3>3. block'[i] # "freed"
      BY <2>1, <3>1 DEF Open, OpenRefused, OpenFailed, Freed, TypeOK
    <3>4. block'[i] = "live" => i \in handlers'
      BY <2>1, <3>1 DEF Open, OpenRefused, OpenFailed, Freed, TypeOK
    <3>5. \A j \in Info : j # i =>
            /\ tpc'[j] = tpc[j] /\ opc'[j] = opc[j]
            /\ j \in handlers' <=> j \in handlers
            /\ j \in cancelled' <=> j \in cancelled
      BY <2>1 DEF Open, OpenRefused, OpenFailed, TypeOK
    <3> QED BY <3>1, <3>2, <3>3, <3>4, <3>5 DEF Freed
  <2>2. ASSUME NEW i \in Info, ThreadStep(i) \/ ThreadRun(i) \/ ThreadCancelled(i)
        PROVE  FreedSafely'
    BY <2>2 DEF ThreadStep, ThreadLoop, ThreadPause, ThreadWait, ThreadCheck,
       ThreadExit, ThreadLog, ThreadRun, ThreadCancelled, Branch, TypeOK,
       table, fields
  <2>3. ASSUME NEW i \in Info, Pause(i) \/ ResumeClear(i) \/ ResumePost(i) \/ CloseSet(i)
        PROVE  FreedSafely'
    BY <2>3 DEF Pause, ResumeClear, ResumePost, CloseSet, TypeOK, table, fields
  <2>4. ASSUME NEW i \in Info, CloseStep(i)
        PROVE  FreedSafely'
    BY <2>4 DEF CloseStep, ClosePost, ClosePoll, CloseFree, CloseNotFound,
       TypeOK, TableConsistent, table, fields
  <2>5. ASSUME NEW i \in Info, LookupRead(i)
        PROVE  FreedSafely'
    BY <2>5 DEF LookupRead, table, fields
  <2>6. CASE LookupUse \/ UNCHANGED vars
    BY <2>6 DEF LookupUse, vars, table, fields
  <2> QED BY <2>1, <2>2, <2>3, <2>4, <2>5, <2>6 DEF Next
<1> HIDE DEF FreedSafely
<1> QED BY <1>1, <1>2, TypeCorrect, TableConsistentHolds, PTL DEF Spec

\* sw_thrd_close frees no block under a thread that could go on for ever.
THEOREM FreedThreadDoomedHolds == Spec => []FreedThreadDoomed
BY FreedSafelyHolds, PTL DEF FreedSafely

\* The reaping of sw_thrd_open only takes the blocks of threads that have left
\* their loop.
THEOREM ReapedHasEndedHolds == Spec => []ReapedHasEnded
BY FreedSafelyHolds, PTL DEF FreedSafely

\* sw_thrd_open reports that the thread limit is reached only when every
\* thread left in the table is in its loop.
THEOREM FullMeansBusyHolds == Spec => FullMeansBusy
<1> DEFINE Refuses == \A i \in Info :
                        opc[i] = "none" /\ opc'[i] = "full" => m_all' \subseteq handlers'
<1>1. TypeOK /\ [Next]_vars => [Refuses]_vars
  <2> SUFFICES ASSUME TypeOK, Next, NEW i \in Info,
                      opc[i] = "none", opc'[i] = "full"
               PROVE  m_all' \subseteq handlers'
    OBVIOUS
  <2>1. PICK j \in Info : OpenRefused(j)
    <3>1. ASSUME NEW j \in Info, Open(j) \/ OpenFailed(j)
          PROVE  FALSE
      BY <3>1 DEF Open, OpenFailed, TypeOK
    <3>2. ASSUME NEW j \in Info, ThreadStep(j) \/ ThreadRun(j) \/ ThreadCancelled(j)
          PROVE  FALSE
      BY <3>2 DEF ThreadStep, ThreadLoop, ThreadPause, ThreadWait, ThreadCheck,
         ThreadExit, ThreadLog, ThreadRun, ThreadCancelled
    <3>3. ASSUME NEW j \in Info,
                 \/ Pause(j) \/ ResumeClear(j) \/ ResumePost(j) \/ CloseSet(j)
                 \/ LookupRead(j)
          PROVE  FALSE
      BY <3>3 DEF Pause, ResumeClear, ResumePost, CloseSet, LookupRead, TypeOK
    <3>4. ASSUME NEW j \in Info, CloseStep(j)
          PROVE  FALSE
      BY <3>4 DEF CloseStep, ClosePost, ClosePoll, CloseFree, CloseNotFound, TypeOK
    <3>5. ~ LookupUse
      BY DEF LookupUse
    <3> QED BY <3>1, <3>2, <3>3, <3>4, <3>5 DEF Next
  <2>2. RefAfterReap >= MaxThrd
    BY <2>1 DEF OpenRefused, TypeOK
  <2>3. Cardinality(Reapable) \in Nat
    BY ReapableType, FS_Subset, FS_CardinalityType, InfoAssumption DEF TypeOK
  <2>4. OpenRef > MaxThrd - 2
    BY <2>2, <2>3, MaxAssumption DEF RefAfterReap, OpenRef, TypeOK
  <2>5. m_all \ Reapable \subseteq handlers
    BY <2>4 DEF Reapable
  <2> QED BY <2>1, <2>5 DEF OpenRefused, ReapAndEnter
<1> QED BY <1>1, TypeCorrect, PTL DEF Spec, FullMeansBusy
=============================================================================
