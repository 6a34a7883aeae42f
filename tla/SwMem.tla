------------------------------- MODULE SwMem -------------------------------
(***************************************************************************)
(* The memory pool of swapi (common/swutil/swmem.c): a buffer cut into     *)
(* blocks, each a header followed by its bytes and MEM_CHECK_SIZE guard    *)
(* bytes, kept in a list in which allocation looks for the first gap that  *)
(* is large enough, starting at the hint first.                            *)
(*                                                                         *)
(* Addresses are offsets from xm->buf.  A block is [at, size], size being  *)
(* node->size, guard bytes included.  What a function does under the mutex *)
(* is one step.  The guard bytes are written after the mutex is given up,  *)
(* and sw_mem_realloc, when it has to move a block, takes it three times.  *)
(***************************************************************************)
EXTENDS Integers, Sequences

CONSTANTS
  Size,        \* xm->size
  Align,       \* xm->align
  Hdr,         \* sizeof(smemnode_t)
  Guard,       \* MEM_CHECK_SIZE
  Requests,    \* sizes asked for
  Thread,      \* threads that use the pool
  ResetBound   \* sw_mem_reset is called while alloc_size is below this

ASSUME SizeAssumption ==
  /\ Size \in Nat /\ Align \in Nat \ {0} /\ Hdr \in Nat \ {0}
  /\ Requests \subseteq Nat \ {0}
  /\ ResetBound \in Nat
\* The pools of the repository are aligned to 4 or 8 bytes.
ASSUME GuardAssumption == Guard \in Nat /\ Guard % Align = 0

VARIABLES
  list,        \* the blocks in the order of the list
  first, tail, \* addresses of nodes, or NULL
  alloc_size, maxpos,
  alarm,       \* whether sw_mem_check_ex has found guard bytes overwritten
  job,         \* per thread: what it still has to do
  shrunk       \* history: whether a block of the list was made smaller

vars == <<list, first, tail, alloc_size, maxpos, alarm, job, shrunk>>

NULL == -1

\* todo: "guard", write the guard bytes of the block new; "alloc", find a new
\* place of size bytes for the block at; "move", write the guard bytes of new
\* and copy at to it; "free", free at.
NoJob == [todo |-> "none", at |-> NULL, new |-> NULL, size |-> 0]

\* ALIGN_SIZE, ALIGN_PTR
Up(n) == ((n + Align - 1) \div Align) * Align

Data(at) == Up(at + Hdr)
End(b) == Data(b.at) + Up(b.size)

\* The room for a further block between block i and the next one, and between
\* the start of the buffer and the first block.
Gap(i) == list[i + 1].at - Up(End(list[i]) + Hdr)
HeadGap == list[1].at - Up(Hdr)

\* A gap of at most this many bytes is not worth starting from.
TooSmall(n) == n <= Align - 1 + Guard

IndexOf(at) == CHOOSE i \in DOMAIN list : list[i].at = at
Least(S) == CHOOSE i \in S : \A j \in S : i <= j

\* INSERT_AFTER and REMOVE_NODE, of the node at place i of the list
InsertAfter(i, b) == SubSeq(list, 1, i) \o <<b>> \o SubSeq(list, i + 1, Len(list))
RemoveNode(i) == SubSeq(list, 1, i - 1) \o SubSeq(list, i + 1, Len(list))

-----------------------------------------------------------------------------
\* malloc_old

ScanFrom == IF first = NULL THEN 1 ELSE IndexOf(first)

HeadFits(size) == list # <<>> /\ first = NULL /\ size <= HeadGap

\* Mutant of Fits: the header of the new block is forgotten.
FitsNoHeader(size) ==
  IF list = <<>> THEN {}
  ELSE {i \in ScanFrom..Len(list) - 1 : size <= list[i + 1].at - End(list[i])}

\* The blocks after which there is room
Fits(size) ==
  IF list = <<>> THEN {}
  ELSE {i \in ScanFrom..Len(list) - 1 : size <= Gap(i)}

\* Mutant of FirstAfter: the hint moves on with the scan.
FirstAfterLast(last) == IF last < ScanFrom THEN first ELSE list[last].at

\* first after the loop has visited the blocks up to last: it moves on to the
\* first block with a gap worth starting from.
FirstAfter(last) ==
  IF last < ScanFrom \/ (first = NULL /\ ~ TooSmall(HeadGap)) THEN first
  ELSE LET big == {i \in ScanFrom..last : ~ TooSmall(Gap(i))}
       IN  list[IF big = {} THEN last ELSE Least(big)].at

-----------------------------------------------------------------------------
\* sw_mem_alloc of size bytes, guard bytes included

\* Where a block behind the last one would start
TailEnd == IF list = <<>> THEN 0 ELSE End(list[IndexOf(tail)])

NothingFits(size) == ~ HeadFits(size) /\ Fits(size) = {}

EndFits(size) == Data(TailEnd) + size <= Size

\* The address of the new node
NewAt(size) ==
  IF HeadFits(size) THEN 0
  ELSE IF Fits(size) # {} THEN End(list[Least(Fits(size))])
  ELSE TailEnd

FirstAfterScan == IF list = <<>> THEN first ELSE FirstAfter(Len(list) - 1)

AllocSome(size) ==
  LET new == [at |-> NewAt(size), size |-> size]
      end == Data(new.at) + size
  IN
  /\ \/ /\ HeadFits(size)
        /\ list' = <<new>> \o list
        /\ first' = new.at
        /\ UNCHANGED tail
     \/ /\ ~ HeadFits(size) /\ Fits(size) # {}
        /\ list' = InsertAfter(Least(Fits(size)), new)
        /\ first' = FirstAfter(Least(Fits(size)))
        /\ UNCHANGED tail
     \/ /\ NothingFits(size) /\ EndFits(size)
        /\ list' = Append(list, new)
        /\ first' = FirstAfterScan
        /\ tail' = new.at
  /\ maxpos' = IF maxpos < end THEN end ELSE maxpos
  /\ alloc_size' = alloc_size + size + Hdr
  /\ UNCHANGED <<alarm, shrunk>>

\* Blocks that are on the list without their guard bytes
Bare == {job[t].new : t \in {u \in Thread : job[u].todo \in {"guard", "move"}}}

\* There is no room: sw_mem_check_ex looks at every block.
AllocNone(size) ==
  /\ NothingFits(size) /\ ~ EndFits(size)
  /\ first' = FirstAfterScan
  /\ alarm' = IF Bare = {} THEN alarm ELSE "raised"
  /\ UNCHANGED <<list, tail, alloc_size, maxpos, shrunk>>

Alloc(t) ==
  /\ job[t] = NoJob
  /\ \E n \in Requests :
       \/ /\ AllocSome(n + Guard)
          /\ job' = [job EXCEPT ![t].todo = "guard", ![t].new = NewAt(n + Guard)]
       \/ AllocNone(n + Guard) /\ UNCHANGED job

\* The memcpy behind the unlock
WriteGuard(t) ==
  /\ job[t].todo = "guard"
  /\ job' = [job EXCEPT ![t] = NoJob]
  /\ UNCHANGED <<list, first, tail, alloc_size, maxpos, alarm, shrunk>>

-----------------------------------------------------------------------------
\* sw_mem_free of the block at address at
PrevOf(at) == IF IndexOf(at) = 1 THEN NULL ELSE list[IndexOf(at) - 1].at

FirstAfterFree(at) == IF first >= at THEN PrevOf(at) ELSE first

Release(at) ==
  /\ list' = RemoveNode(IndexOf(at))
  /\ first' = FirstAfterFree(at)
  /\ tail' = IF tail = at THEN PrevOf(at) ELSE tail
  /\ alloc_size' = alloc_size - (list[IndexOf(at)].size + Hdr)
  /\ UNCHANGED <<maxpos, alarm, shrunk>>

Addresses == {list[i].at : i \in DOMAIN list}

\* The blocks no call is working on: a block is passed to one call at a time.
Own == Addresses \ UNION {{job[t].at, job[t].new} : t \in Thread}

Free(t) ==
  /\ job[t] = NoJob
  /\ \E at \in Own : Release(at)
  /\ UNCHANGED job

-----------------------------------------------------------------------------
\* sw_mem_realloc: in place if the block is large enough or can grow into what
\* follows it; otherwise a new block is allocated, and the old one is freed.
InPlace(i, size) ==
  \/ size <= list[i].size
  \/ Data(list[i].at) + size <= IF i < Len(list) THEN list[i + 1].at ELSE Size

Resized(i, size) ==
  /\ list' = [list EXCEPT ![i].size = size]
  /\ alloc_size' = alloc_size - list[i].size + size

ReallocInPlace(t) ==
  /\ job[t] = NoJob
  /\ \E at \in Own, n \in Requests :
       LET i == IndexOf(at) IN
       /\ InPlace(i, n + Guard)
       /\ shrunk' = IF n + Guard < list[i].size THEN "yes" ELSE shrunk
       /\ Resized(i, n + Guard)
       /\ job' = [job EXCEPT ![t].todo = "guard", ![t].new = at]
  /\ UNCHANGED <<first, tail, maxpos, alarm>>

ReallocMove(t) ==
  /\ job[t] = NoJob
  /\ \E at \in Own, n \in Requests :
       /\ ~ InPlace(IndexOf(at), n + Guard)
       /\ job' = [job EXCEPT ![t] = [todo |-> "alloc", at |-> at, new |-> NULL, size |-> n]]
  /\ UNCHANGED <<list, first, tail, alloc_size, maxpos, alarm, shrunk>>

ReallocAlloc(t) ==
  /\ job[t].todo = "alloc"
  /\ LET size == job[t].size + Guard IN
     \/ /\ AllocSome(size)
        /\ job' = [job EXCEPT ![t].todo = "move", ![t].new = NewAt(size)]
     \/ /\ AllocNone(size)
        /\ job' = [job EXCEPT ![t] = NoJob]

\* Mutant of CopyLen: as many bytes as were asked for.
CopyLenAll(old, n) == n

\* The number of bytes copied to the new block from one of node->size old
CopyLen(old, n) == IF old < n /\ old - Guard >= 0 THEN old - Guard ELSE n

ReallocCopy(t) ==
  /\ job[t].todo = "move"
  /\ job' = [job EXCEPT ![t].todo = "free"]
  /\ UNCHANGED <<list, first, tail, alloc_size, maxpos, alarm, shrunk>>

ReallocFree(t) ==
  /\ job[t].todo = "free"
  /\ Release(job[t].at)
  /\ job' = [job EXCEPT ![t] = NoJob]

-----------------------------------------------------------------------------
\* sw_mem_reset, called when no other call is under way
Reset ==
  /\ alloc_size < ResetBound
  /\ \A t \in Thread : job[t] = NoJob
  /\ list' = <<>> /\ first' = NULL /\ tail' = NULL /\ shrunk' = "no"
  /\ UNCHANGED <<alloc_size, maxpos, alarm, job>>

\* sw_mem_init
Init ==
  /\ list = <<>> /\ first = NULL /\ tail = NULL
  /\ alloc_size = 0 /\ maxpos = 0 /\ alarm = "none" /\ shrunk = "no"
  /\ job = [t \in Thread |-> NoJob]

Next ==
  \/ \E t \in Thread :
       \/ Alloc(t) \/ WriteGuard(t) \/ Free(t)
       \/ ReallocInPlace(t) \/ ReallocMove(t) \/ ReallocAlloc(t)
       \/ ReallocCopy(t) \/ ReallocFree(t)
  \/ Reset

Spec == Init /\ [][Next]_vars

-----------------------------------------------------------------------------
\* The variables have their types, and what the threads work on is on the list.
TypeOK ==
  /\ list \in Seq([at : 0..Size, size : 0..Size])
  /\ {first, tail} \subseteq Addresses \union {NULL}
  /\ alloc_size \in Int /\ maxpos \in 0..Size /\ alarm \in {"none", "raised"}
  /\ \A t \in Thread :
       /\ job[t].todo \in {"none", "guard", "alloc", "move", "free"}
       /\ {job[t].at, job[t].new} \subseteq Addresses \union {NULL}

\* Whatever is allocated, freed and resized, the list is in the order of the
\* addresses, no block reaches into the header of the next one or behind the
\* buffer, every node is aligned, so that sw_mem_free finds the node of a
\* pointer by rounding down, and tail is the last node.
BlocksApart ==
  /\ TypeOK
  /\ \A i \in DOMAIN list :
       /\ list[i].at % Align = 0
       /\ Data(list[i].at) + list[i].size <= Size
       /\ i < Len(list) => End(list[i]) <= list[i + 1].at
  /\ tail = IF list = <<>> THEN NULL ELSE list[Len(list)].at

NoRoom(size) ==
  list # <<>> => size > HeadGap /\ \A i \in 1..Len(list) - 1 : size > Gap(i)

\* malloc_old, which starts at the hint first, misses no gap as long as no block
\* has been made smaller in place: when it finds nothing, no gap of the whole
\* list has room for the request.
NoGapMissed ==
  shrunk = "no" => \A n \in Requests : NothingFits(n + Guard) => NoRoom(n + Guard)

\* The memory that the blocks on the list take
Taken ==
  LET upTo[i \in 0..Len(list)] == IF i = 0 THEN 0 ELSE upTo[i - 1] + list[i].size + Hdr
  IN  upTo[Len(list)]

\* A move copies all the bytes the caller had in the old block, or as many as
\* fit in the new one, and reads no byte behind the old block.
CopyExact ==
  \A t \in Thread : job[t].todo = "move" =>
    LET old == list[IndexOf(job[t].at)].size
        len == CopyLen(old, job[t].size)
    IN  len <= old /\ len <= job[t].size /\ (len >= old - Guard \/ len = job[t].size)

-----------------------------------------------------------------------------
\* What the comments of the code say and the code does not do

\* swmem.c:67: first is the frontmost node with free space behind it, so the
\* search from there misses no gap.
FirstIsFrontmost ==
  \A n \in Requests : NothingFits(n + Guard) => NoRoom(n + Guard)

\* swmem.c:754: sw_mem_get_alloc_size returns the size of what is allocated.
AllocSizeExact == alloc_size = Taken

\* swmem.c:201: sw_mem_get_max_size returns the largest size ever allocated, so
\* it is no less than what is allocated now.
MaxCovers == \A i \in DOMAIN list : Data(list[i].at) + list[i].size <= maxpos

\* swmem.c:249: sw_mem_check_ex looks for errors; it finds guard bytes
\* overwritten only where someone has written over them, which nobody does.
NoFalseAlarm == alarm = "none"
=============================================================================
