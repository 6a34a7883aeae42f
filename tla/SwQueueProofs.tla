--------------------------- MODULE SwQueueProofs ---------------------------
(***************************************************************************)
(* Proofs about the swapi queue for any number of levels up to four, any   *)
(* ring sizes, any mix of covering and waiting levels and any set of       *)
(* writers, readers and clearing threads.                                  *)
(***************************************************************************)
EXTENDS SwQueue, Sequences, TLAPS

\* Pointer arithmetic: the slot after a slot of the ring is in the ring.
LEMMA NextSlotInRing ==
  ASSUME NEW l \in Level, NEW i \in 0..(QSize[l] - 1)
  PROVE  NextSlot(l, i) \in 0..(QSize[l] - 1)
  BY SizeAssumption DEF NextSlot

\* A step that leaves the rings alone keeps them well-formed.
LEMMA RingUnchanged ==
  ASSUME RingOK, UNCHANGED qvars PROVE RingOK'
  BY DEF RingOK, qvars

\* The second critical section of a post keeps the rings well-formed.
LEMMA StoreKeepsRing ==
  ASSUME TypeOK, NEW w \in Writers, PostStore(w) PROVE RingOK'
<1> DEFINE l == lvl[w]
<1>1. l \in Level
  BY DEF TypeOK, Threads
<1>2. read[l] \in 0..(QSize[l] - 1) /\ write[l] \in 0..(QSize[l] - 1)
  BY <1>1, SizeAssumption DEF TypeOK, RingOK
<1>3. /\ NextSlot(l, write[l]) \in 0..(QSize[l] - 1)
      /\ NextSlot(l, read[l]) \in 0..(QSize[l] - 1)
  BY <1>1, <1>2, NextSlotInRing
<1>4. ReadAfterPost(l, NextSlot(l, write[l])) \in 0..(QSize[l] - 1)
  BY <1>2, <1>3 DEF ReadAfterPost
<1>5. /\ read' = [read EXCEPT ![l] = ReadAfterPost(l, NextSlot(l, write[l]))]
      /\ write' = [write EXCEPT ![l] = NextSlot(l, write[l])]
      /\ stored' = [stored EXCEPT ![l] = stored[l] + 1]
      /\ got' = got
      /\ elements' = [elements EXCEPT ![l][write[l]] = stored[l] + 1]
  BY DEF PostStore
<1>6. \A k \in Level : QSize[k] \in Nat \ {0}
  BY SizeAssumption
<1>7. /\ read \in [Level -> Nat] /\ write \in [Level -> Nat]
      /\ \A k \in Level : read[k] < QSize[k] /\ write[k] < QSize[k]
      /\ stored \in [Level -> Nat] /\ got \in [Level -> Nat]
  BY DEF TypeOK, RingOK
<1>8. DOMAIN elements = Level
      /\ \A k \in Level : elements[k] \in [0..(QSize[k] - 1) -> Nat]
  BY DEF TypeOK, RingOK
<1> HIDE DEF l
<1>9. \A i : i \in 0..(QSize[l] - 1) => i \in Nat /\ i < QSize[l]
  BY <1>1, <1>6
<1>10. /\ read' \in [Level -> Nat] /\ write' \in [Level -> Nat]
       /\ \A k \in Level : read'[k] < QSize[k] /\ write'[k] < QSize[k]
  BY ONLY <1>1, <1>3, <1>4, <1>5, <1>7, <1>9
<1>11. \A k \in Level : elements'[k] \in [0..(QSize[k] - 1) -> Nat]
  <2> TAKE k \in Level
  <2>1. CASE k = l
    <3>1. elements'[k] = [elements[l] EXCEPT ![write[l]] = stored[l] + 1]
      BY ONLY <1>1, <1>5, <1>8, <2>1
    <3>2. elements[l] \in [0..(QSize[l] - 1) -> Nat] /\ stored[l] + 1 \in Nat
      BY ONLY <1>1, <1>7, <1>8
    <3> QED
      BY ONLY <2>1, <3>1, <3>2, <1>2
  <2>2. CASE k # l
    BY ONLY <1>5, <1>8, <2>2, k \in Level
  <2> QED
    BY <2>1, <2>2
<1>12. DOMAIN elements' = Level
  BY ONLY <1>5, <1>8
<1>13. stored' \in [Level -> Nat] /\ got' \in [Level -> Nat]
  BY ONLY <1>1, <1>5, <1>7
<1> QED
  BY <1>10, <1>11, <1>12, <1>13 DEF RingOK

\* Taking an element keeps the rings well-formed.
LEMMA TakeKeepsRing ==
  ASSUME TypeOK, NEW r \in Readers, NEW l \in Level, TakeFrom(r, l)
  PROVE  RingOK'
<1>1. read[l] \in 0..(QSize[l] - 1)
  BY SizeAssumption DEF TypeOK, RingOK
<1>2. NextSlot(l, read[l]) \in 0..(QSize[l] - 1)
  BY <1>1, NextSlotInRing
<1>3. elements[l][read[l]] \in Nat
  BY <1>1, Zenon DEF TypeOK, RingOK
<1>4. read' = [read EXCEPT ![l] = NextSlot(l, read[l])]
      /\ got' = [got EXCEPT ![l] = elements[l][read[l]]]
      /\ UNCHANGED <<write, elements, stored>>
  BY DEF TakeFrom
<1>5. \A i : i \in 0..(QSize[l] - 1) => i \in Nat /\ i < QSize[l]
  BY SizeAssumption
<1>6. /\ read \in [Level -> Nat] /\ got \in [Level -> Nat]
      /\ \A k \in Level : read[k] < QSize[k]
  BY DEF TypeOK, RingOK
<1>7. /\ read' \in [Level -> Nat] /\ got' \in [Level -> Nat]
      /\ \A k \in Level : read'[k] < QSize[k]
  BY ONLY <1>2, <1>3, <1>4, <1>5, <1>6, l \in Level
<1> QED
  BY <1>4, <1>7, Zenon DEF TypeOK, RingOK

\* Indices, signal counts and program counters stay in range: swqueue.c
\* never moves a pointer out of its ring.
THEOREM TypeCorrect == Spec => []TypeOK
<1>1. Init => TypeOK
  <2> SUFFICES ASSUME Init PROVE TypeOK
    OBVIOUS
  <2>1. 0 \in Level
    BY LevelAssumption DEF Level
  <2>2. RingOK
    BY SizeAssumption DEF Init, RingOK
  <2> QED
    BY <2>1, <2>2 DEF Init, TypeOK, WriterPC
<1>2. TypeOK /\ [Next]_vars => TypeOK'
  <2> SUFFICES ASSUME TypeOK, [Next]_vars PROVE TypeOK'
    OBVIOUS
  <2> USE DEF TypeOK
  <2>1. CASE Create
    <3>1. RingOK'
      BY <2>1, SizeAssumption DEF Create, Fresh, RingOK
    <3> QED
      BY <2>1, <3>1 DEF Create, Fresh
  <2>2. CASE Destroy
    BY <2>2, RingUnchanged DEF Destroy
  <2>3. ASSUME NEW w \in Writers, NEW l \in Level, PostDrain(w, l) PROVE TypeOK'
    BY <2>3, RingUnchanged DEF PostDrain, WriterPC, Threads
  <2>4. ASSUME NEW w \in Writers, PostCheck(w) PROVE TypeOK'
    BY <2>4, RingUnchanged DEF PostCheck, WriterPC, Threads
  <2>5. ASSUME NEW w \in Writers, PostWait(w) PROVE TypeOK'
    BY <2>5, RingUnchanged DEF PostWait, WriterPC, Threads
  <2>6. ASSUME NEW w \in Writers, PostStore(w) PROVE TypeOK'
    BY <2>6, StoreKeepsRing, Zenon DEF PostStore, WriterPC, Threads
  <2>7. ASSUME NEW w \in Writers, PostGive(w) PROVE TypeOK'
    BY <2>7, RingUnchanged DEF PostGive, WriterPC, Threads
  <2>8. ASSUME NEW w \in Writers, PostSemPost(w) PROVE TypeOK'
    BY <2>8, RingUnchanged DEF PostSemPost, WriterPC, Threads
  <2>9. ASSUME NEW r \in Readers, NEW timeout \in {"forever", "timed"},
               ReadCall(r, timeout)
        PROVE TypeOK'
    BY <2>9, RingUnchanged DEF ReadCall, ReaderPC, Threads
  <2>10. ASSUME NEW r \in Readers, ReadWait(r) PROVE TypeOK'
    BY <2>10, RingUnchanged DEF ReadWait, ReaderPC, Threads
  <2>11. ASSUME NEW r \in Readers, ReadTimeout(r) PROVE TypeOK'
    BY <2>11, RingUnchanged DEF ReadTimeout, ReaderPC, Threads
  <2>12. ASSUME NEW r \in Readers, ReadTake(r) PROVE TypeOK'
    <3>1. CASE TakeNothing(r)
      BY <3>1, RingUnchanged DEF TakeNothing, ReaderPC, Threads
    <3>2. ASSUME NEW l \in Level, TakeFrom(r, l) PROVE TypeOK'
      BY <3>2, TakeKeepsRing, Zenon DEF TakeFrom, ReaderPC, Threads
    <3> QED
      BY <2>12, <3>1, <3>2 DEF ReadTake
  <2>13. ASSUME NEW r \in Readers, ReadGive(r) PROVE TypeOK'
    BY <2>13, RingUnchanged DEF ReadGive, ReaderPC, Threads
  <2>14. ASSUME NEW r \in Readers, ReadSemPost(r) PROVE TypeOK'
    BY <2>14, RingUnchanged DEF ReadSemPost, ReaderPC, Threads
  <2>15. ASSUME NEW r \in Readers, ReadGiveWriter(r) PROVE TypeOK'
    BY <2>15, RingUnchanged DEF ReadGiveWriter, ReaderPC, Threads
  <2>16. ASSUME NEW r \in Readers, ReadSemPostWriter(r) PROVE TypeOK'
    BY <2>16, RingUnchanged DEF ReadSemPostWriter, ReaderPC, Threads
  <2>17. ASSUME NEW S \in SUBSET Level, Clear(S) PROVE TypeOK'
    <3>1. RingOK'
      BY <2>17, SizeAssumption DEF Clear, RingOK
    <3> QED
      BY <2>17, <3>1 DEF Clear, ClearGive
  <2>18. CASE UNCHANGED vars
    BY <2>18, RingUnchanged DEF vars, qvars
  <2> QED
    BY <2>1, <2>2, <2>3, <2>4, <2>5, <2>6, <2>7, <2>8, <2>9, <2>10, <2>11,
       <2>12, <2>13, <2>14, <2>15, <2>16, <2>17, <2>18, Zenon
    DEF Next, WriterStep, ReaderStep
<1> QED
  BY <1>1, <1>2, PTL DEF Spec

-----------------------------------------------------------------------------
\* No reader of sw_queue_read can be left asleep beside a non-empty queue.
\* The invariant is inductive given the types: a thread that can lower the
\* read signal (rd_wait) becomes one that scans, a scan that leaves elements
\* goes on to give, and a give is skipped only when the signal is up.
THEOREM NoLostWakeupHolds == Spec => []NoLostWakeup
<1>1. Init => NoLostWakeup
  BY DEF Init, NoLostWakeup, NonEmpty, IsEmpty
<1>2. TypeOK /\ NoLostWakeup /\ [Next]_vars => NoLostWakeup'
  <2> SUFFICES ASSUME TypeOK, NoLostWakeup, [Next]_vars PROVE NoLostWakeup'
    OBVIOUS
  <2>a. /\ pc \in [Threads -> WriterPC \cup ReaderPC]
        /\ read_signal \in Nat
        /\ Writers \subseteq Threads /\ Readers \subseteq Threads
    BY DEF TypeOK, Threads
  <2> USE DEF NoLostWakeup, WillSignal
  \* The steps that leave rings and read signal alone and move a thread
  \* between two places neither of which is going to signal.
  <2>b. ASSUME NEW t \in Threads, NEW to, UNCHANGED <<read, write, read_signal>>,
               pc' = [pc EXCEPT ![t] = to], ~WillSignal(t)
        PROVE  NoLostWakeup'
    BY <2>a, <2>b DEF NonEmpty, IsEmpty
  \* The steps after which the acting thread is going to signal.
  <2>c. ASSUME NEW t \in Threads,
               NEW to \in {"wr_give", "wr_sempost", "rd_take", "rd_give", "rd_sempost"},
               pc' = [pc EXCEPT ![t] = to]
        PROVE  NoLostWakeup'
    BY <2>a, <2>c
  <2>1. CASE Create
    BY <2>1 DEF Create, Fresh, NonEmpty, IsEmpty
  <2>2. CASE Destroy
    BY <2>2 DEF Destroy, qvars, NonEmpty, IsEmpty
  <2>3. ASSUME NEW w \in Writers, NEW l \in Level, PostDrain(w, l)
        PROVE  NoLostWakeup'
    BY <2>3, <2>a, <2>b, Zenon DEF PostDrain, qvars
  <2>4. ASSUME NEW w \in Writers, PostCheck(w) PROVE NoLostWakeup'
    BY <2>4, <2>a, <2>b, Zenon DEF PostCheck, qvars
  <2>5. ASSUME NEW w \in Writers, PostWait(w) PROVE NoLostWakeup'
    BY <2>5, <2>a, <2>b, Zenon DEF PostWait, qvars
  <2>6. ASSUME NEW w \in Writers, PostStore(w) PROVE NoLostWakeup'
    BY <2>6, <2>a, <2>c DEF PostStore
  <2>7. ASSUME NEW w \in Writers, PostGive(w) PROVE NoLostWakeup'
    <3>1. CASE GiveNeeded(read_signal)
      BY <2>7, <3>1, <2>a, <2>c DEF PostGive
    <3>2. CASE ~GiveNeeded(read_signal)
      BY <2>7, <3>2, <2>a DEF PostGive, GiveNeeded
    <3> QED
      BY <3>1, <3>2
  <2>8. ASSUME NEW w \in Writers, PostSemPost(w) PROVE NoLostWakeup'
    BY <2>8, <2>a DEF PostSemPost
  <2>9. ASSUME NEW r \in Readers, NEW timeout \in {"forever", "timed"},
               ReadCall(r, timeout)
        PROVE  NoLostWakeup'
    BY <2>9, <2>a, <2>b, Zenon DEF ReadCall, qvars
  <2>10. ASSUME NEW r \in Readers, ReadWait(r) PROVE NoLostWakeup'
    BY <2>10, <2>a, <2>c DEF ReadWait
  <2>11. ASSUME NEW r \in Readers, ReadTimeout(r) PROVE NoLostWakeup'
    BY <2>11, <2>a, <2>b, Zenon DEF ReadTimeout, qvars
  <2>12. ASSUME NEW r \in Readers, ReadTake(r) PROVE NoLostWakeup'
    <3>1. CASE TakeNothing(r)
      BY <3>1 DEF TakeNothing, qvars, NonEmpty, IsEmpty
    <3>2. ASSUME NEW l \in Level, TakeFrom(r, l) PROVE NoLostWakeup'
      <4>1. CASE \E k \in Level : read'[k] # write[k]
        BY <3>2, <4>1, <2>a, <2>c DEF TakeFrom
      <4>2. CASE ~ \E k \in Level : read'[k] # write[k]
        BY <3>2, <4>2 DEF TakeFrom, NonEmpty, IsEmpty
      <4> QED
        BY <4>1, <4>2
    <3> QED
      BY <2>12, <3>1, <3>2 DEF ReadTake
  <2>13. ASSUME NEW r \in Readers, ReadGive(r) PROVE NoLostWakeup'
    <3>1. CASE GiveNeeded(read_signal)
      BY <2>13, <3>1, <2>a, <2>c DEF ReadGive
    <3>2. CASE ~GiveNeeded(read_signal)
      BY <2>13, <3>2, <2>a DEF ReadGive, GiveNeeded
    <3> QED
      BY <3>1, <3>2
  <2>14. ASSUME NEW r \in Readers, ReadSemPost(r) PROVE NoLostWakeup'
    BY <2>14, <2>a DEF ReadSemPost
  <2>15. ASSUME NEW r \in Readers, ReadGiveWriter(r) PROVE NoLostWakeup'
    BY <2>15, <2>a, <2>b, Zenon DEF ReadGiveWriter, qvars
  <2>16. ASSUME NEW r \in Readers, ReadSemPostWriter(r) PROVE NoLostWakeup'
    BY <2>16, <2>a, <2>b, Zenon DEF ReadSemPostWriter, qvars
  <2>17. ASSUME NEW S \in SUBSET Level, Clear(S) PROVE NoLostWakeup'
    BY <2>17 DEF Clear, ClearGive, NonEmpty, IsEmpty
  <2>18. CASE UNCHANGED vars
    BY <2>18 DEF vars, NonEmpty, IsEmpty
  <2> QED
    BY <2>1, <2>2, <2>3, <2>4, <2>5, <2>6, <2>7, <2>8, <2>9, <2>10, <2>11,
       <2>12, <2>13, <2>14, <2>15, <2>16, <2>17, <2>18, Zenon
    DEF Next, WriterStep, ReaderStep
<1> QED
  BY <1>1, <1>2, TypeCorrect, PTL DEF Spec

-----------------------------------------------------------------------------
\* The ring arithmetic of swqueue.c, for one level.

\* HoldsLatest for one level.
LevelLatest(l) ==
  /\ got[l] + Num(l) <= stored[l]
  /\ \A j \in 1..Num(l) : elements[l][SlotOf(l, j)] = stored[l] - Num(l) + j

\* The state of one level, typed.
LEMMA LevelTypes ==
  ASSUME TypeOK, NEW l \in Level
  PROVE  /\ QSize[l] \in Nat /\ QSize[l] > 0
         /\ read[l] \in 0..(QSize[l] - 1) /\ write[l] \in 0..(QSize[l] - 1)
         /\ stored[l] \in Nat /\ got[l] \in Nat
         /\ elements[l] \in [0..(QSize[l] - 1) -> Nat]
         /\ Num(l) \in 0..(QSize[l] - 1)
<1>1. /\ QSize[l] \in Nat /\ QSize[l] > 0
      /\ read[l] \in 0..(QSize[l] - 1) /\ write[l] \in 0..(QSize[l] - 1)
      /\ stored[l] \in Nat /\ got[l] \in Nat
      /\ elements[l] \in [0..(QSize[l] - 1) -> Nat]
  BY SizeAssumption, SMTT(30) DEF TypeOK, RingOK
<1>2. Num(l) \in 0..(QSize[l] - 1)
  <2> DEFINE q == QSize[l]
             r == read[l]
             w == write[l]
  <2>1. q \in Nat /\ q > 0 /\ r \in 0..(q - 1) /\ w \in 0..(q - 1)
    BY <1>1, Zenon
  <2>2. Num(l) = IF w >= r THEN w - r ELSE w + q - r
    BY Zenon DEF Num
  <2> HIDE DEF q, r, w
  <2>3. Num(l) \in 0..(q - 1)
    BY <2>1, <2>2
  <2> QED
    BY <2>3, Zenon DEF q
<1> QED
  BY <1>1, <1>2, Zenon

\* A level that gives an element away has one less.
LEMMA NumTaken ==
  ASSUME TypeOK, NEW l \in Level, read[l] # write[l],
         read'[l] = NextSlot(l, read[l]), write'[l] = write[l]
  PROVE  Num(l) > 0 /\ Num(l)' = Num(l) - 1
<1>1. /\ QSize[l] \in Nat /\ QSize[l] > 0
      /\ read[l] \in 0..(QSize[l] - 1) /\ write[l] \in 0..(QSize[l] - 1)
  BY LevelTypes, Zenon
<1>2. Num(l) > 0
  BY <1>1 DEF Num
<1>3. Num(l)' = Num(l) - 1
  BY <1>1, SMTT(30) DEF Num, NextSlot
<1> QED
  BY <1>2, <1>3

\* A level that is given an element has one more; a full one as many as before if
\* it covers, and else none.
LEMMA NumStored ==
  ASSUME TypeOK, NEW l \in Level, write'[l] = NextSlot(l, write[l]),
         read'[l] = ReadAfterPost(l, NextSlot(l, write[l]))
  PROVE  /\ Num(l)' = IF Num(l) < QSize[l] - 1 THEN Num(l) + 1
                      ELSE IF l \in FullCover THEN Num(l) ELSE 0
         /\ NextSlot(l, write[l]) = read[l] <=> Num(l) = QSize[l] - 1
<1>1. /\ QSize[l] \in Nat /\ QSize[l] > 0
      /\ read[l] \in 0..(QSize[l] - 1) /\ write[l] \in 0..(QSize[l] - 1)
      /\ Num(l) \in 0..(QSize[l] - 1)
  BY LevelTypes, Zenon
<1>2. NextSlot(l, write[l]) = read[l] <=> Num(l) = QSize[l] - 1
  BY <1>1, SMTT(30) DEF Num, NextSlot
<1>3. CASE Num(l) < QSize[l] - 1
  <2>1. read'[l] = read[l]
    <3>1. Num(l) # QSize[l] - 1
      BY <1>1, <1>3
    <3> QED
      BY <1>2, <3>1, Zenon DEF ReadAfterPost
  <2>2. Num(l)' = Num(l) + 1
    BY <1>1, <1>3, <2>1, SMTT(30) DEF Num, NextSlot
  <2> QED
    BY <1>2, <1>3, <2>2, Zenon
<1>4. CASE Num(l) = QSize[l] - 1 /\ l \in FullCover
  <2>1. read'[l] = NextSlot(l, read[l]) /\ write'[l] = read[l]
    BY <1>2, <1>4, Zenon DEF ReadAfterPost
  <2>2. QSize[l] \in Nat /\ QSize[l] > 0 /\ read[l] \in 0..(QSize[l] - 1)
    BY <1>1, Zenon
  <2>3. Num(l)' = QSize[l] - 1
    BY <2>1, <2>2, SMTT(30) DEF Num, NextSlot
  <2> QED
    BY <1>1, <1>2, <1>4, <2>3
<1>5. CASE Num(l) = QSize[l] - 1 /\ l \notin FullCover
  <2>1. read'[l] = read[l] /\ write'[l] = read[l]
    BY <1>2, <1>5, Zenon DEF ReadAfterPost
  <2>2. Num(l)' = 0
    BY <1>1, <2>1, SMTT(30) DEF Num
  <2> QED
    BY <1>1, <1>2, <1>5, <2>2
<1>6. Num(l) < QSize[l] - 1 \/ Num(l) = QSize[l] - 1
  BY <1>1
<1> QED
  BY <1>2, <1>3, <1>4, <1>5, <1>6, Zenon

\* A level whose part of the state does not change keeps what it holds.
LEMMA LatestUnchanged ==
  ASSUME NEW l \in Level, LevelLatest(l), read'[l] = read[l], write'[l] = write[l],
         elements'[l] = elements[l], stored'[l] = stored[l], got'[l] = got[l]
  PROVE  LevelLatest(l)'
  BY DEF LevelLatest, Num, SlotOf

\* An emptied level holds nothing, and everything ever read was stored.
LEMMA LatestEmptied ==
  ASSUME TypeOK, NEW l \in Level, LevelLatest(l), read'[l] = 0, write'[l] = 0,
         stored'[l] = stored[l], got'[l] = got[l]
  PROVE  LevelLatest(l)'
  BY LevelTypes DEF LevelLatest, Num

\* The slots of the elements are those before the one that is written next.
LEMMA SlotFacts ==
  ASSUME TypeOK, NEW l \in Level
  PROVE  /\ \A j \in 1..Num(l) :
              SlotOf(l, j) \in 0..(QSize[l] - 1) /\ SlotOf(l, j) # write[l]
         /\ SlotOf(l, Num(l) + 1) = write[l]
         /\ SlotOf(l, 1) = read[l]
<1> DEFINE q == QSize[l]
           r == read[l]
           w == write[l]
<1>1. q \in Nat /\ q > 0 /\ r \in 0..(q - 1) /\ w \in 0..(q - 1)
  BY LevelTypes, Zenon
<1>2. /\ Num(l) = IF w >= r THEN w - r ELSE w + q - r
      /\ \A j : SlotOf(l, j) = IF r + j - 1 < q THEN r + j - 1 ELSE r + j - 1 - q
  BY Zenon DEF Num, SlotOf
<1> HIDE DEF q, r, w
<1>3. \A j \in 1..Num(l) : SlotOf(l, j) \in 0..(q - 1) /\ SlotOf(l, j) # w
  <2> SUFFICES ASSUME NEW j \in 1..Num(l) PROVE SlotOf(l, j) \in 0..(q - 1) /\ SlotOf(l, j) # w
    BY Zenon
  <2>1. CASE w >= r
    BY <1>1, <1>2, <2>1
  <2>2. CASE ~ (w >= r)
    BY <1>1, <1>2, <2>2
  <2> QED
    BY <2>1, <2>2, Zenon
<1>4. SlotOf(l, Num(l) + 1) = w
  BY <1>1, <1>2
<1>5. SlotOf(l, 1) = r
  BY <1>1, <1>2
<1> QED
  BY <1>3, <1>4, <1>5, Zenon DEF q, r, w

\* Where the elements are as long as the oldest one stays.
LEMMA SlotsStay ==
  ASSUME NEW l \in Level, read'[l] = read[l]
  PROVE  \A j : SlotOf(l, j)' = SlotOf(l, j)
  BY Zenon DEF SlotOf

\* Where the elements are when the oldest one has gone.
LEMMA SlotsMove ==
  ASSUME TypeOK, NEW l \in Level, read'[l] = NextSlot(l, read[l])
  PROVE  \A j \in 1..(QSize[l] - 1) : SlotOf(l, j)' = SlotOf(l, j + 1)
<1> DEFINE q == QSize[l]
           r == read[l]
           p == read'[l]
<1>1. q \in Nat /\ q > 0 /\ r \in 0..(q - 1)
  BY LevelTypes, Zenon
<1>2. /\ p = IF r < q - 1 THEN r + 1 ELSE 0
      /\ \A j : SlotOf(l, j) = IF r + j - 1 < q THEN r + j - 1 ELSE r + j - 1 - q
      /\ \A j : SlotOf(l, j)' = IF p + j - 1 < q THEN p + j - 1 ELSE p + j - 1 - q
  BY Zenon DEF NextSlot, SlotOf
<1> HIDE DEF q, r, p
<1>3. \A j \in 1..(q - 1) : SlotOf(l, j)' = SlotOf(l, j + 1)
  <2> SUFFICES ASSUME NEW j \in 1..(q - 1) PROVE SlotOf(l, j)' = SlotOf(l, j + 1)
    BY Zenon
  <2>1. CASE r < q - 1
    BY <1>1, <1>2, <2>1
  <2>2. CASE ~ (r < q - 1)
    BY <1>1, <1>2, <2>2
  <2> QED
    BY <2>1, <2>2, Zenon
<1> QED
  BY <1>3, Zenon DEF q

\* Taking the oldest element shifts the rest down by one.
LEMMA LatestTaken ==
  ASSUME TypeOK, NEW l \in Level, LevelLatest(l), read[l] # write[l],
         read'[l] = NextSlot(l, read[l]), got'[l] = elements[l][read[l]],
         write'[l] = write[l], elements'[l] = elements[l], stored'[l] = stored[l]
  PROVE  LevelLatest(l)' /\ got'[l] > got[l]
<1> DEFINE q == QSize[l]
           n == Num(l)
<1>1. /\ q \in Nat /\ n \in 0..(q - 1) /\ stored[l] \in Nat /\ got[l] \in Nat
  BY LevelTypes, Zenon
<1>2. n > 0 /\ Num(l)' = n - 1
  BY NumTaken, Zenon
<1>3. got[l] + n <= stored[l]
  BY Zenon DEF LevelLatest
<1>4. \A j \in 1..n : elements[l][SlotOf(l, j)] = stored[l] - n + j
  BY Zenon DEF LevelLatest
<1>5. \A j \in 1..(q - 1) : SlotOf(l, j)' = SlotOf(l, j + 1)
  BY SlotsMove, Zenon
<1>6. SlotOf(l, 1) = read[l]
  BY SlotFacts, Zenon
<1> HIDE DEF n, q
<1>7. got'[l] = stored[l] - n + 1
  <2>1. 1 \in 1..n
    BY <1>1, <1>2
  <2> QED
    BY <1>4, <1>6, <2>1, Zenon
<1>8. \A j \in 1..(n - 1) : elements'[l][SlotOf(l, j)'] = stored'[l] - (n - 1) + j
  <2> SUFFICES ASSUME NEW j \in 1..(n - 1)
               PROVE  elements'[l][SlotOf(l, j)'] = stored'[l] - (n - 1) + j
    BY Zenon
  <2>1. j + 1 \in 1..n /\ j \in 1..(q - 1) /\ stored[l] - n + (j + 1) = stored[l] - (n - 1) + j
    BY <1>1
  <2>2. elements[l][SlotOf(l, j + 1)] = stored[l] - n + (j + 1)
    BY <1>4, <2>1, Zenon
  <2> QED
    BY <1>5, <2>1, <2>2, Zenon
<1>9. got'[l] + (n - 1) <= stored'[l] /\ got'[l] > got[l]
  BY <1>1, <1>2, <1>3, <1>7
<1> QED
  BY <1>2, <1>8, <1>9, Zenon DEF LevelLatest

\* Storing an element: it becomes the newest; a full covering level loses its
\* oldest element, a full waiting level (which a stale signal makes possible)
\* becomes empty.
LEMMA LatestStored ==
  ASSUME TypeOK, NEW l \in Level, LevelLatest(l), got'[l] = got[l],
         stored'[l] = stored[l] + 1,
         elements'[l] = [elements[l] EXCEPT ![write[l]] = stored[l] + 1],
         write'[l] = NextSlot(l, write[l]),
         read'[l] = ReadAfterPost(l, NextSlot(l, write[l]))
  PROVE  LevelLatest(l)'
<1> DEFINE q == QSize[l]
           n == Num(l)
           m == Num(l)'
           s == stored[l]
<1>1. q \in Nat /\ q > 0 /\ n \in 0..(q - 1) /\ s \in Nat /\ got[l] \in Nat
  BY LevelTypes, Zenon
<1>2. elements[l] \in [0..(q - 1) -> Nat] /\ write[l] \in 0..(q - 1)
  BY LevelTypes, Zenon
<1>3. /\ got[l] + n <= s
      /\ \A j \in 1..n : elements[l][SlotOf(l, j)] = s - n + j
  BY Zenon DEF LevelLatest
<1>4. /\ \A j \in 1..n : SlotOf(l, j) \in 0..(q - 1) /\ SlotOf(l, j) # write[l]
      /\ SlotOf(l, n + 1) = write[l]
  BY SlotFacts, Zenon
<1>5. \A i \in 0..(q - 1) :
        elements'[l][i] = IF i = write[l] THEN s + 1 ELSE elements[l][i]
  BY <1>2, ZenonT(60)
<1>6. /\ m = IF n < q - 1 THEN n + 1 ELSE IF l \in FullCover THEN n ELSE 0
      /\ NextSlot(l, write[l]) = read[l] <=> n = q - 1
  BY NumStored, Zenon
<1>7. n < q - 1 => read'[l] = read[l]
  <2>1. n < q - 1 => n # q - 1
    BY <1>1
  <2> QED
    BY <1>6, <2>1, Zenon DEF ReadAfterPost
<1>8. n = q - 1 /\ l \in FullCover => read'[l] = NextSlot(l, read[l])
  BY <1>6, Zenon DEF ReadAfterPost
<1> HIDE DEF q, n, m, s
<1>9. \A j \in 1..n : elements'[l][SlotOf(l, j)] = s - n + j
  BY <1>3, <1>4, <1>5, Zenon
<1>10. elements'[l][SlotOf(l, n + 1)] = s + 1
  BY <1>2, <1>4, <1>5, Zenon
<1>11. \A j \in 1..(n + 1) : elements'[l][SlotOf(l, j)] = s - n + j
  <2> SUFFICES ASSUME NEW j \in 1..(n + 1)
               PROVE  elements'[l][SlotOf(l, j)] = s - n + j
    BY Zenon
  <2>1. j \in 1..n \/ (j = n + 1 /\ s - n + j = s + 1)
    BY <1>1
  <2> QED
    BY <1>9, <1>10, <2>1, Zenon
<1>12. CASE n < q - 1
  <2>1. m = n + 1 /\ \A j : SlotOf(l, j)' = SlotOf(l, j)
    BY <1>6, <1>7, <1>12, SlotsStay, Zenon
  <2>2. \A j \in 1..m : elements'[l][SlotOf(l, j)'] = (s + 1) - m + j
    <3> SUFFICES ASSUME NEW j \in 1..m
                 PROVE  elements'[l][SlotOf(l, j)'] = (s + 1) - m + j
      BY Zenon
    <3>1. j \in 1..(n + 1) /\ (s + 1) - m + j = s - n + j
      BY <1>1, <2>1
    <3> QED
      BY <1>11, <2>1, <3>1, Zenon
  <2>3. got[l] + m <= s + 1
    BY <1>1, <1>3, <2>1
  <2> QED
    BY <2>2, <2>3, Zenon DEF LevelLatest, m, s
<1>13. CASE n = q - 1 /\ l \in FullCover
  <2>1. m = n /\ \A j \in 1..(q - 1) : SlotOf(l, j)' = SlotOf(l, j + 1)
    <3>1. ~ (n < q - 1)
      BY <1>1, <1>13
    <3>2. m = n
      BY <1>6, <1>13, <3>1, Zenon
    <3>3. \A j \in 1..(q - 1) : SlotOf(l, j)' = SlotOf(l, j + 1)
      BY <1>8, <1>13, SlotsMove, Zenon DEF q
    <3> QED
      BY <3>2, <3>3, Zenon
  <2>2. \A j \in 1..m : elements'[l][SlotOf(l, j)'] = (s + 1) - m + j
    <3> SUFFICES ASSUME NEW j \in 1..m
                 PROVE  elements'[l][SlotOf(l, j)'] = (s + 1) - m + j
      BY Zenon
    <3>1. /\ j \in 1..(q - 1) /\ j + 1 \in 1..(n + 1)
          /\ (s + 1) - m + j = s - n + (j + 1)
      BY <1>1, <1>13, <2>1
    <3> QED
      BY <1>11, <2>1, <3>1, Zenon
  <2>3. got[l] + m <= s + 1
    BY <1>1, <1>3, <2>1
  <2> QED
    BY <2>2, <2>3, Zenon DEF LevelLatest, m, s
<1>14. CASE n = q - 1 /\ l \notin FullCover
  <2>1. m = 0
    BY <1>1, <1>6, <1>14
  <2>2. \A j \in 1..m : elements'[l][SlotOf(l, j)'] = (s + 1) - m + j
    BY <2>1
  <2>3. got[l] + m <= s + 1
    BY <1>1, <1>3, <2>1
  <2> QED
    BY <2>2, <2>3, Zenon DEF LevelLatest, m, s
<1> QED
  BY <1>1, <1>12, <1>13, <1>14

\* A step that leaves the rings alone leaves every level alone.
LEMMA AllUnchanged ==
  ASSUME HoldsLatest, UNCHANGED qvars PROVE HoldsLatest'
  BY DEF HoldsLatest, qvars, Num, SlotOf

\* Every step keeps HoldsLatest, and a read that takes an element takes one
\* newer than the last it took from that level.
LEMMA LatestStep ==
  ASSUME TypeOK, HoldsLatest, [Next]_vars
  PROVE  HoldsLatest'
<1>a. \A l \in Level : LevelLatest(l)
  BY DEF HoldsLatest, LevelLatest
<1>b. ASSUME \A l \in Level : LevelLatest(l)' PROVE HoldsLatest'
  BY <1>b DEF HoldsLatest, LevelLatest
<1>1. CASE Create
  <2>1. \A l \in Level : Num(l)' = 0 /\ got'[l] = 0 /\ stored'[l] = 0
    BY <1>1 DEF Create, Fresh, Num
  <2> QED
    BY <2>1, <1>b DEF LevelLatest
<1>2. ASSUME NEW w \in Writers, PostStore(w) PROVE HoldsLatest'
  <2>1. PICK l \in Level : l = lvl[w]
    BY DEF TypeOK, Threads
  <2>2. LevelLatest(l)'
    <3>1. /\ got'[l] = got[l] /\ stored'[l] = stored[l] + 1
          /\ elements'[l] = [elements[l] EXCEPT ![write[l]] = stored[l] + 1]
          /\ write'[l] = NextSlot(l, write[l])
          /\ read'[l] = ReadAfterPost(l, NextSlot(l, write[l]))
      BY <1>2, <2>1, ZenonT(60) DEF PostStore, TypeOK, RingOK
    <3> QED
      BY <1>a, <3>1, LatestStored
  <2>3. ASSUME NEW k \in Level, k # l PROVE LevelLatest(k)'
    <3>1. /\ read'[k] = read[k] /\ write'[k] = write[k]
          /\ elements'[k] = elements[k] /\ stored'[k] = stored[k]
          /\ got'[k] = got[k]
      BY <1>2, <2>1, <2>3, SMTT(30) DEF PostStore, TypeOK, RingOK
    <3> QED
      BY <1>a, <3>1, LatestUnchanged
  <2> QED
    BY <2>2, <2>3, <1>b
<1>3. ASSUME NEW r \in Readers, NEW l \in Level, TakeFrom(r, l) PROVE HoldsLatest'
  <2>1. LevelLatest(l)'
    <3>1. /\ read[l] # write[l] /\ read'[l] = NextSlot(l, read[l])
          /\ got'[l] = elements[l][read[l]] /\ write'[l] = write[l]
          /\ elements'[l] = elements[l] /\ stored'[l] = stored[l]
      BY <1>3 DEF TakeFrom, IsEmpty, TypeOK, RingOK
    <3> QED
      BY <1>a, <3>1, LatestTaken, ZenonT(60)
  <2>2. ASSUME NEW k \in Level, k # l PROVE LevelLatest(k)'
    <3>1. /\ read'[k] = read[k] /\ write'[k] = write[k]
          /\ elements'[k] = elements[k] /\ stored'[k] = stored[k]
          /\ got'[k] = got[k]
      BY <1>3, <2>2 DEF TakeFrom, TypeOK, RingOK
    <3> QED
      BY <1>a, <3>1, LatestUnchanged
  <2> QED
    BY <2>1, <2>2, <1>b
<1>4. ASSUME NEW S \in SUBSET Level, Clear(S) PROVE HoldsLatest'
  <2>1. ASSUME NEW k \in S PROVE LevelLatest(k)'
    BY <1>4, <2>1, <1>a, LatestEmptied DEF Clear
  <2>2. ASSUME NEW k \in Level \ S PROVE LevelLatest(k)'
    BY <1>4, <2>2, <1>a, LatestUnchanged DEF Clear
  <2> QED
    BY <2>1, <2>2, <1>b
<1>5. CASE UNCHANGED qvars
  BY <1>5, AllUnchanged
<1>6. \/ Create \/ (\E w \in Writers : PostStore(w))
      \/ (\E r \in Readers, l \in Level : TakeFrom(r, l))
      \/ (\E S \in SUBSET Level : Clear(S)) \/ UNCHANGED qvars
  BY ZenonT(60) DEF Next, WriterStep, ReaderStep, Destroy, PostDrain, PostCheck, PostWait,
     PostGive, PostSemPost, ReadCall, ReadWait, ReadTimeout, ReadTake,
     TakeNothing, ReadGive, ReadSemPost, ReadGiveWriter, ReadSemPostWriter,
     vars, qvars
<1> QED
  BY <1>1, <1>2, <1>3, <1>4, <1>5, <1>6

\* Every level of the queue holds the latest elements stored in it, in order,
\* for any ring sizes and any number of threads; also after a stale write
\* signal has let a post overrun a full ring.
THEOREM HoldsLatestHolds == Spec => []HoldsLatest
<1>1. Init => HoldsLatest
  BY DEF Init, HoldsLatest, Num
<1> QED
  BY <1>1, LatestStep, TypeCorrect, PTL DEF Spec

\* No read returns an element twice or out of order.
THEOREM ReadsInOrderHolds == Spec => ReadsInOrder
<1> DEFINE InOrder ==
      \A r \in Readers :
        pc[r] = "rd_take" /\ pc'[r] \in {"rd_give", "rd_givew"}
          => got'[lvl'[r]] > got[lvl'[r]]
<1>1. ASSUME TypeOK, HoldsLatest, [Next]_vars PROVE [InOrder]_vars
  <2> SUFFICES ASSUME NEW r \in Readers, pc[r] = "rd_take",
                      pc'[r] \in {"rd_give", "rd_givew"}
               PROVE  got'[lvl'[r]] > got[lvl'[r]]
    OBVIOUS
  <2>1. pc \in [Threads -> WriterPC \cup ReaderPC]
        /\ Readers \subseteq Threads /\ Writers \subseteq Threads
        /\ lvl \in [Threads -> Level]
    BY <1>1 DEF TypeOK, Threads
  \* Only the take of r itself moves r from rd_take.
  <2>2. PICK l \in Level : TakeFrom(r, l)
    <3>1. ASSUME NEW t \in Threads, NEW to, pc' = [pc EXCEPT ![t] = to],
                 pc[t] # "rd_take"
          PROVE  FALSE
      BY <2>1, <3>1, SMTT(30)
    <3>2. ASSUME NEW t \in Readers, ReadTake(t) PROVE \E l \in Level : TakeFrom(r, l)
      <4>1. CASE t = r
        BY <2>1, <3>2, <4>1 DEF ReadTake, TakeNothing
      <4>2. CASE t # r
        BY <2>1, <3>2, <4>2 DEF ReadTake, TakeNothing, TakeFrom
      <4> QED
        BY <4>1, <4>2
    <3>3. pc' # pc
      BY <2>1
    <3>4. ASSUME NEW t \in Writers,
                 WriterStep(t) \/ \E l \in Level : PostDrain(t, l)
          PROVE  FALSE
      BY <2>1, <3>1, <3>4 DEF WriterStep, PostCheck, PostWait, PostStore,
         PostGive, PostSemPost, PostDrain
    <3>5. ASSUME NEW t \in Readers,
                 \/ ReadWait(t) \/ ReadTimeout(t) \/ ReadGive(t) \/ ReadSemPost(t)
                 \/ ReadGiveWriter(t) \/ ReadSemPostWriter(t)
                 \/ \E timeout \in {"forever", "timed"} : ReadCall(t, timeout)
          PROVE  FALSE
      BY <2>1, <3>1, <3>5, SMTT(30) DEF ReadWait, ReadTimeout, ReadGive, ReadSemPost,
         ReadGiveWriter, ReadSemPostWriter, ReadCall
    <3> QED
      BY <1>1, <3>2, <3>3, <3>4, <3>5 DEF Next, ReaderStep, Create, Destroy, Clear, vars
  <2>3. /\ read[l] # write[l] /\ read'[l] = NextSlot(l, read[l])
        /\ got'[l] = elements[l][read[l]] /\ write'[l] = write[l]
        /\ elements'[l] = elements[l] /\ stored'[l] = stored[l]
        /\ lvl'[r] = l
    BY <1>1, <2>1, <2>2, ZenonT(60) DEF TakeFrom, IsEmpty, TypeOK, RingOK
  <2>4. LevelLatest(l)
    BY <1>1 DEF HoldsLatest, LevelLatest
  <2> QED
    BY <1>1, <2>3, <2>4, LatestTaken, ZenonT(60)
<1> QED
  BY <1>1, TypeCorrect, HoldsLatestHolds, PTL DEF Spec, ReadsInOrder

-----------------------------------------------------------------------------
\* The refinement: what a level holds is a run of stamps, and the steps of
\* the rings are steps of the sequences of PriorityQueue.

\* The empty sequence is the only one without elements.
LEMMA SeqEmpty ==
  ASSUME NEW S
  PROVE  /\ << >> \in Seq(S) /\ Len(<< >>) = 0
         /\ \A seq \in Seq(S) : seq # << >> => Len(seq) \in Nat \ {0}
OBVIOUS

\* An element behind a sequence.
LEMMA SeqAppend ==
  ASSUME NEW S, NEW seq \in Seq(S), NEW e \in S
  PROVE  /\ Append(seq, e) \in Seq(S) /\ Len(Append(seq, e)) = Len(seq) + 1
         /\ \A i \in 1..Len(seq) : Append(seq, e)[i] = seq[i]
         /\ Append(seq, e)[Len(seq) + 1] = e
OBVIOUS

\* A sequence without its first element.
LEMMA SeqTail ==
  ASSUME NEW S, NEW seq \in Seq(S), seq # << >>
  PROVE  /\ Tail(seq) \in Seq(S) /\ Len(Tail(seq)) = Len(seq) - 1
         /\ \A i \in 1..Len(seq) - 1 : Tail(seq)[i] = seq[i + 1]
OBVIOUS

\* Sequences with the same elements are the same.
LEMMA SeqSame ==
  ASSUME NEW S, NEW s \in Seq(S), NEW t \in Seq(S),
         Len(s) = Len(t), \A i \in 1..Len(s) : s[i] = t[i]
  PROVE  s = t
OBVIOUS

\* The n latest of the stamps 1 to s, oldest first.
Run(s, n) == [j \in 1..n |-> s - n + j]

\* A run is a sequence; no stamps are the empty one.
LEMMA RunIsSeq ==
  ASSUME NEW s \in Int, NEW n \in Nat
  PROVE  /\ Run(s, n) \in Seq(Int) /\ Len(Run(s, n)) = n
         /\ \A j \in 1..n : Run(s, n)[j] = s - n + j
         /\ n = 0 <=> Run(s, n) = << >>
<1>1. Run(s, n) \in Seq(Int) /\ Len(Run(s, n)) = n
  BY DEF Run
<1>2. \A j \in 1..n : Run(s, n)[j] = s - n + j
  BY DEF Run
<1> QED
  BY <1>1, <1>2, SeqEmpty

\* The next stamp behind a run makes it longer.
LEMMA RunAppend ==
  ASSUME NEW s \in Int, NEW n \in Nat
  PROVE  Append(Run(s, n), s + 1) = Run(s + 1, n + 1)
<1> DEFINE a == Append(Run(s, n), s + 1)
           b == Run(s + 1, n + 1)
<1>0. /\ Run(s, n) \in Seq(Int) /\ Len(Run(s, n)) = n /\ s + 1 \in Int
      /\ \A i \in 1..n : Run(s, n)[i] = s - n + i
  BY RunIsSeq
<1>1. /\ a \in Seq(Int) /\ Len(a) = n + 1 /\ a[n + 1] = s + 1
      /\ \A i \in 1..n : a[i] = Run(s, n)[i]
  BY <1>0, SeqAppend
<1>2. b \in Seq(Int) /\ Len(b) = n + 1
  BY RunIsSeq
<1>3. \A j \in 1..n + 1 : b[j] = (s + 1) - (n + 1) + j
  BY RunIsSeq
<1> HIDE DEF a, b
<1>4. \A j \in 1..n + 1 : a[j] = b[j]
  <2> SUFFICES ASSUME NEW j \in 1..n + 1 PROVE a[j] = b[j]
    BY Zenon
  <2>1. CASE j = n + 1
    BY <1>1, <1>3, <2>1
  <2>2. CASE j \in 1..n
    BY <1>0, <1>1, <1>3, <2>2
  <2> QED
    BY <2>1, <2>2
<1>5. a = b
  BY <1>1, <1>2, <1>4, SeqSame
<1> QED
  BY <1>5 DEF a, b

\* The oldest stamp of a run, and the run without it.
LEMMA RunHeadTail ==
  ASSUME NEW s \in Int, NEW n \in Nat, n > 0
  PROVE  Head(Run(s, n)) = s - n + 1 /\ Tail(Run(s, n)) = Run(s, n - 1)
<1> DEFINE a == Run(s, n)
           t == Tail(a)
           b == Run(s, n - 1)
<1>1. a \in Seq(Int) /\ Len(a) = n /\ a # << >>
      /\ \A j \in 1..n : a[j] = s - n + j
  BY RunIsSeq
<1>2. n - 1 \in Nat
  OBVIOUS
<1>3. b \in Seq(Int) /\ Len(b) = n - 1 /\ \A j \in 1..n - 1 : b[j] = s - (n - 1) + j
  BY <1>2, RunIsSeq, Zenon
<1> HIDE DEF a, b
<1>4. Head(a) = s - n + 1
  BY <1>1
<1>5. t \in Seq(Int) /\ Len(t) = n - 1 /\ \A j \in 1..n - 1 : t[j] = a[j + 1]
  BY <1>1, SeqTail
<1> HIDE DEF t
<1>6. \A j \in 1..n - 1 : t[j] = b[j]
  <2> SUFFICES ASSUME NEW j \in 1..n - 1 PROVE t[j] = b[j]
    OBVIOUS
  <2>1. j + 1 \in 1..n
    OBVIOUS
  <2> QED
    BY <1>1, <1>3, <1>5, <2>1
<1>7. t = b
  BY <1>3, <1>5, <1>6, SeqSame
<1> QED
  BY <1>4, <1>7 DEF a, b, t

\* What a level holds, by HoldsLatest.
LEMMA ContentsAreRun ==
  ASSUME TypeOK, HoldsLatest, NEW l \in Level
  PROVE  Contents(l) = Run(stored[l], Num(l))
  BY DEF HoldsLatest, Contents, Run

\* The same after a step.
LEMMA ContentsAreRunNext ==
  ASSUME TypeOK', HoldsLatest', NEW l \in Level
  PROVE  Contents(l)' = Run(stored'[l], Num(l)')
  BY DEF HoldsLatest, Contents, Run

\* A level of which nothing is stored is empty.
LEMMA NoRun ==
  ASSUME NEW s \in Int PROVE Run(s, 0) = << >>
<1>1. 0 \in Nat
  OBVIOUS
<1> QED
  BY <1>1, RunIsSeq, Zenon

\* A level whose part of the state does not change holds the same.
LEMMA ContentsUnchanged ==
  ASSUME NEW l \in Level, read'[l] = read[l], write'[l] = write[l],
         elements'[l] = elements[l]
  PROVE  Contents(l)' = Contents(l)
  BY DEF Contents, Num, SlotOf

\* The second critical section of a post is a Post of PriorityQueue.
LEMMA StoreRefines ==
  ASSUME TypeOK, HoldsLatest, TypeOK', HoldsLatest', NEW w \in Writers, PostStore(w)
  PROVE  Abstract!Post(lvl[w])
<1>1. PICK l \in Level : l = lvl[w]
  BY DEF TypeOK, Threads
<1> DEFINE s == stored[l]
           n == Num(l)
           q == Append(Contents(l), s + 1)
<1>2. /\ QSize[l] \in Nat /\ QSize[l] > 0
      /\ read[l] \in 0..(QSize[l] - 1) /\ write[l] \in 0..(QSize[l] - 1)
      /\ s \in Nat /\ n \in 0..(QSize[l] - 1)
  BY <1>1, LevelTypes, SMTT(30)
<1>3. /\ read'[l] = ReadAfterPost(l, NextSlot(l, write[l]))
      /\ write'[l] = NextSlot(l, write[l])
      /\ stored' = [stored EXCEPT ![l] = @ + 1] /\ stored'[l] = s + 1
      /\ got' = got
  BY <1>1 DEF PostStore, TypeOK, RingOK
<1>4. Num(l)' = IF n < QSize[l] - 1 THEN n + 1 ELSE IF l \in FullCover THEN n ELSE 0
  BY <1>3, NumStored, Zenon
<1>5. Contents(l) = Run(s, n) /\ Contents(l)' = Run(stored'[l], Num(l)')
  BY <1>1, ContentsAreRun, ContentsAreRunNext, Zenon
<1>6. q = Run(s + 1, n + 1) /\ Len(q) = n + 1
  <2>1. s \in Int /\ s + 1 \in Int /\ n \in Nat /\ n + 1 \in Nat
    BY <1>2
  <2>2. q = Run(s + 1, n + 1)
    BY <1>5, <2>1, RunAppend, Zenon
  <2> HIDE DEF q, n, s
  <2> QED
    BY <2>1, <2>2, RunIsSeq
<1>7. Contents(l)' = IF Len(q) <= GetMax(l) THEN q
                     ELSE IF l \in FullCover THEN Tail(q) ELSE << >>
  <2>1. Tail(q) = Run(s + 1, n)
    <3>1. s + 1 \in Int /\ n + 1 \in Nat /\ n + 1 > 0 /\ (n + 1) - 1 = n
      BY <1>2
    <3> QED
      BY <3>1, <1>6, RunHeadTail, Zenon
  <2>2. Run(s + 1, 0) = << >>
    <3>1. s + 1 \in Int
      BY <1>2
    <3> QED
      BY <3>1, NoRun
  <2> HIDE DEF s, n, q
  <2>3. CASE n < QSize[l] - 1
    BY <1>2, <1>3, <1>4, <1>5, <1>6, <2>3 DEF GetMax
  <2>4. CASE n = QSize[l] - 1
    <3>1. ~ (Len(q) <= GetMax(l))
      BY <1>2, <1>6, <2>4 DEF GetMax
    <3>2. Num(l)' = IF l \in FullCover THEN n ELSE 0
      BY <1>2, <1>4, <2>4
    <3> QED
      BY <1>3, <1>5, <2>1, <2>2, <3>1, <3>2, Zenon
  <2> QED
    BY <1>2, <2>3, <2>4
<1>8. \A k \in Level : k # l => Contents(k)' = Contents(k)
  <2> SUFFICES ASSUME NEW k \in Level, k # l PROVE Contents(k)' = Contents(k)
    OBVIOUS
  <2>1. read'[k] = read[k] /\ write'[k] = write[k] /\ elements'[k] = elements[k]
    BY <1>1 DEF PostStore, TypeOK, RingOK
  <2> QED
    BY <2>1, ContentsUnchanged
<1> HIDE DEF q
<1>9. [k \in Level |-> Contents(k)'] =
        [[k \in Level |-> Contents(k)] EXCEPT ![l] =
           IF Len(q) <= GetMax(l) THEN q ELSE IF l \in FullCover THEN Tail(q) ELSE << >>]
  BY <1>1, <1>7, <1>8, Zenon
<1> QED
  BY <1>1, <1>3, <1>9, Zenon DEF Abstract!Post, q, s

\* A critical section that takes an element is a Read of PriorityQueue.
LEMMA TakeRefines ==
  ASSUME TypeOK, HoldsLatest, TypeOK', HoldsLatest', NEW r \in Readers,
         NEW l \in Level, TakeFrom(r, l)
  PROVE  Abstract!Read(l)
<1> DEFINE s == stored[l]
           n == Num(l)
<1>1. /\ QSize[l] \in Nat /\ QSize[l] > 0
      /\ read[l] \in 0..(QSize[l] - 1) /\ write[l] \in 0..(QSize[l] - 1)
      /\ s \in Nat /\ n \in 0..(QSize[l] - 1)
  BY LevelTypes, SMTT(30)
<1>2. /\ read[l] # write[l] /\ read'[l] = NextSlot(l, read[l])
      /\ write'[l] = write[l] /\ stored' = stored
      /\ got' = [got EXCEPT ![l] = elements[l][read[l]]]
  BY ZenonT(60) DEF TakeFrom, IsEmpty, TypeOK, RingOK
<1>3. n > 0 /\ Num(l)' = n - 1
  BY <1>2, NumTaken, Zenon
<1>4. Contents(l) = Run(s, n) /\ Contents(l)' = Run(s, n - 1)
  BY <1>2, <1>3, ContentsAreRun, ContentsAreRunNext, Zenon
<1>5. Contents(l) # << >> /\ Contents(l)' = Tail(Contents(l))
      /\ Head(Contents(l)) = s - n + 1
  <2>1. s \in Int /\ n \in Nat /\ n # 0
    BY <1>1, <1>3
  <2> HIDE DEF s, n
  <2>2. Run(s, n) # << >>
    BY <2>1, RunIsSeq
  <2>3. Head(Run(s, n)) = s - n + 1 /\ Tail(Run(s, n)) = Run(s, n - 1)
    BY <1>3, <2>1, RunHeadTail, ZenonT(60)
  <2> QED
    BY <1>3, <1>4, <2>1, <2>2, <2>3, Zenon
<1>6. elements[l][read[l]] = s - n + 1
  <2>1. SlotOf(l, 1) = read[l] /\ 1 \in 1..n
    <3>1. QSize[l] \in Nat /\ n \in 0..(QSize[l] - 1) /\ n > 0
      BY <1>1, <1>3, Zenon
    <3> HIDE DEF n
    <3>2. 1 \in 1..n
      BY <3>1
    <3> QED
      BY <3>2, SlotFacts, Zenon
  <2> QED
    BY <2>1, ZenonT(30) DEF HoldsLatest
<1>7. \A k \in Level : k < l => Contents(k) = << >>
  <2> SUFFICES ASSUME NEW k \in Level, k < l PROVE Contents(k) = << >>
    OBVIOUS
  <2>1. Num(k) = 0
    <3>1. read[k] = write[k]
      BY Zenon DEF TakeFrom, IsEmpty
    <3>2. write[k] \in 0..(QSize[k] - 1) /\ QSize[k] \in Nat
      BY LevelTypes, Zenon
    <3> QED
      BY <3>1, <3>2 DEF Num
  <2>2. stored[k] \in Int
    <3>1. stored[k] \in Nat
      BY LevelTypes, Zenon
    <3> QED
      BY <3>1
  <2> QED
    BY <2>1, <2>2, ContentsAreRun, NoRun, Zenon
<1>8. \A k \in Level : k # l => Contents(k)' = Contents(k)
  <2> SUFFICES ASSUME NEW k \in Level, k # l PROVE Contents(k)' = Contents(k)
    BY Zenon
  <2>1. read'[k] = read[k] /\ write'[k] = write[k] /\ elements'[k] = elements[k]
    BY Zenon DEF TakeFrom, TypeOK, RingOK
  <2> QED
    BY <2>1, ContentsUnchanged
<1>9. [k \in Level |-> Contents(k)'] =
        [[k \in Level |-> Contents(k)] EXCEPT ![l] = Tail(Contents(l))]
  BY <1>5, <1>8, Zenon
<1> QED
  BY <1>2, <1>5, <1>6, <1>7, <1>9, Zenon DEF Abstract!Read, Abstract!Level, Level

\* Clearing levels is a Clear of PriorityQueue.
LEMMA ClearRefines ==
  ASSUME TypeOK, HoldsLatest, TypeOK', HoldsLatest', NEW S \in SUBSET Level, Clear(S)
  PROVE  Abstract!Clear(S)
<1>1. ASSUME NEW k \in S PROVE Contents(k)' = << >>
  <2>1. k \in Level /\ stored' = stored /\ read'[k] = 0 /\ write'[k] = 0
    BY <1>1 DEF Clear
  <2>2. Num(k)' = 0
    BY <2>1 DEF Num
  <2>3. stored[k] \in Int
    BY <2>1, LevelTypes
  <2>4. Contents(k)' = Run(stored'[k], Num(k)')
    BY <2>1, ContentsAreRunNext
  <2> QED
    BY <2>1, <2>2, <2>3, <2>4, NoRun
<1>2. ASSUME NEW k \in Level \ S PROVE Contents(k)' = Contents(k)
  BY <1>2, ContentsUnchanged, Zenon DEF Clear
<1>3. [k \in Level |-> Contents(k)'] =
        [k \in Level |-> IF k \in S THEN << >> ELSE [j \in Level |-> Contents(j)][k]]
  BY <1>1, <1>2
<1> QED
  BY <1>3, SMTT(30) DEF Abstract!Clear, Abstract!Level, Level, Clear

\* A created queue is an empty one.
LEMMA CreateRefines ==
  ASSUME TypeOK', HoldsLatest', Create PROVE Abstract!Create
<1>1. ASSUME NEW k \in Level PROVE Contents(k)' = << >>
  <2>1. Num(k)' = 0 /\ stored'[k] = 0 /\ 0 \in Int
    BY <1>1 DEF Create, Fresh, Num
  <2> QED
    BY <2>1, ContentsAreRunNext, NoRun, Zenon
<1>2. [k \in Level |-> Contents(k)'] = [k \in Level |-> << >>]
  BY <1>1
<1> QED
  BY <1>2 DEF Create, Fresh, Abstract!Create, Abstract!Level, Level

\* The rings of swqueue.c, with their threads, signals and races, implement
\* PriorityQueue, for any ring sizes and any number of threads: a post, a read
\* and a clear are single steps of the sequences, and everything else the
\* threads do is a stutter.
THEOREM QueueRefines == Spec => ImplementsPriorityQueue
<1>1. Init => Abstract!Init
  <2> SUFFICES ASSUME Init PROVE Abstract!Init
    OBVIOUS
  <2>1. \A k \in Level : Contents(k) = << >>
    BY SeqEmpty DEF Init, Contents, Num
  <2> QED
    BY <2>1 DEF Init, Abstract!Init, Abstract!Level, Level
<1>2. ASSUME TypeOK, HoldsLatest, TypeOK', HoldsLatest', [Next]_vars
      PROVE  [Abstract!Next]_(Abstract!vars)
  <2>1. CASE Create
    BY <1>2, <2>1, CreateRefines DEF Abstract!Next
  <2>2. ASSUME NEW w \in Writers, PostStore(w) PROVE Abstract!Next
    <3>1. lvl[w] \in Level
      BY <1>2 DEF TypeOK, Threads
    <3> QED
      BY <1>2, <2>2, <3>1, StoreRefines DEF Abstract!Next, Abstract!Level, Level
  <2>3. ASSUME NEW r \in Readers, NEW l \in Level, TakeFrom(r, l) PROVE Abstract!Next
    BY <1>2, <2>3, TakeRefines DEF Abstract!Next, Abstract!Level, Level
  <2>4. ASSUME Clear(Level) PROVE Abstract!Next
    BY <1>2, <2>4, ClearRefines, Zenon DEF Abstract!Next, Abstract!Level, Level
  <2>5. ASSUME NEW l \in Level, Clear({l}) PROVE Abstract!Next
    BY <1>2, <2>5, ClearRefines, Zenon DEF Abstract!Next, Abstract!Level, Level
  <2>6. ASSUME UNCHANGED qvars PROVE UNCHANGED Abstract!vars
    <3>1. \A k \in Level : Contents(k)' = Contents(k)
      BY <2>6, ContentsUnchanged DEF qvars
    <3> QED
      BY <2>6, <3>1 DEF qvars, Abstract!vars
  <2>7. \/ Create \/ (\E w \in Writers : PostStore(w))
        \/ (\E r \in Readers, l \in Level : TakeFrom(r, l))
        \/ Clear(Level) \/ (\E l \in Level : Clear({l})) \/ UNCHANGED qvars
    BY <1>2, ZenonT(60) DEF Next, WriterStep, ReaderStep, Destroy, PostDrain, PostCheck, PostWait,
       PostGive, PostSemPost, ReadCall, ReadWait, ReadTimeout, ReadTake,
       TakeNothing, ReadGive, ReadSemPost, ReadGiveWriter, ReadSemPostWriter,
       vars, qvars
  <2> QED
    BY <2>1, <2>2, <2>3, <2>4, <2>5, <2>6, <2>7, Zenon
<1> QED
  BY <1>1, <1>2, TypeCorrect, HoldsLatestHolds, PTL
  DEF Spec, ImplementsPriorityQueue, Abstract!Spec
=============================================================================
