--------------------------- MODULE SwTimerProofs ---------------------------
(***************************************************************************)
(* Theorems about the timers of swapi, over the invariant of SwTimerInv:   *)
(* the list is always a list of the allocated timers, and the thread does  *)
(* not sleep past a timer that is due.                                     *)
(***************************************************************************)
EXTENDS SwTimerInv, WellFoundedInduction

-----------------------------------------------------------------------------
(* Least elements                                                          *)

\* A non-empty set of natural numbers has a least element: the stand-in for
\* an induction.
LEMMA LeastNatural ==
  ASSUME NEW S \in SUBSET Nat, S # {}
  PROVE  \E m \in S : \A k \in S : m <= k
<1> DEFINE R == OpToRel(<, Nat)
<1>1. IsWellFoundedOn(R, Nat)
  BY NatLessThanWellFounded, Zenon
<1>2. \A a, b \in Nat : <<a, b>> \in R <=> a < b
  BY DEF OpToRel
<1> HIDE DEF R
<1>3. PICK m \in S : \A k \in S : <<k, m>> \notin R
  BY <1>1, WFMin, Zenon
<1>4. ASSUME NEW k \in S PROVE m <= k
  <2>1. k \in Nat /\ m \in Nat /\ ~ (k < m)
    BY <1>2, <1>3, Zenon
  <2> QED
    BY <2>1
<1> QED
  BY <1>4, Zenon

-----------------------------------------------------------------------------
(* The listed cells                                                        *)

\* The cells that are listed are those of the chain: the chain is a set closed
\* under next, and the first of its cells outside another closed set cannot exist.
LEMMA ListedIsChain ==
  ASSUME NEW n \in Nat, NEW w \in [1..n -> Cell], Chain(n, w)
  PROVE  Listed = Cells(n, w)
<1> DEFINE Closed(S) == /\ head # NULL => head \in S
                        /\ \A y \in S : node[y].next # NULL => node[y].next \in S
<1>1. Listed = {x \in Cell : \A S \in SUBSET Cell : Closed(S) => x \in S}
  BY Zenon DEF Listed
<1>2. Cells(n, w) \in SUBSET Cell
  BY DEF Cells
<1>3. Closed(Cells(n, w))
  <2>1. head # NULL => head \in Cells(n, w)
    BY DEF Chain, Cells
  <2>2. ASSUME NEW i \in 1..n, node[w[i]].next # NULL
        PROVE  node[w[i]].next \in Cells(n, w)
    <3>1. i # n /\ node[w[i]].next = w[i + 1] /\ i + 1 \in 1..n
      BY <2>2 DEF Chain
    <3> QED
      BY <3>1 DEF Cells
  <2> QED
    BY <2>1, <2>2, Zenon DEF Cells
<1>4. ASSUME NEW S \in SUBSET Cell, Closed(S), NEW i \in 1..n
      PROVE  w[i] \in S
  <2> DEFINE Out == {j \in 1..n : w[j] \notin S}
  <2> SUFFICES ASSUME i \in Out PROVE FALSE
    OBVIOUS
  <2>1. PICK j \in Out : \A k \in Out : j <= k
    <3>1. Out \in SUBSET Nat /\ Out # {}
      OBVIOUS
    <3> QED
      BY <3>1, LeastNatural, Zenon
  <2>2. j # 1
    <3>1. head = w[1] /\ w[1] # NULL
      BY CellAssumption DEF Chain
    <3> QED
      BY <1>4, <3>1, <2>1
  <2>3. j - 1 \in 1..n /\ j - 1 # n /\ j - 1 + 1 = j /\ j - 1 \notin Out
    BY <2>1, <2>2
  <2>4. w[j - 1] \in S /\ node[w[j - 1]].next = w[j] /\ w[j] # NULL
    BY <2>3, CellAssumption DEF Chain
  <2> QED
    BY <1>4, <2>1, <2>4, Zenon
<1> HIDE DEF Closed
<1>5. \A x \in Cells(n, w) : \E i \in 1..n : x = w[i]
  BY DEF Cells
<1> QED
  BY <1>1, <1>2, <1>3, <1>4, <1>5, Zenon

\* The chain is what ListOK says of the list.
LEMMA InvList == IInv => ListOK
<1> SUFFICES ASSUME IInv PROVE ListOK
  OBVIOUS
<1>1. PICK n \in Nat : \E w \in [1..n -> Cell] : Chain(n, w) /\ Members(Cells(n, w))
  BY DEF IInv, ListInv
<1>2. PICK w \in [1..n -> Cell] : Chain(n, w) /\ Members(Cells(n, w))
  BY <1>1
<1>3. Listed = Cells(n, w)
  BY <1>2, ListedIsChain, Zenon
<1>4. TypeOK
  <2>1. \A x \in Cell :
          /\ node[x].next \in Pointer /\ node[x].prev \in Pointer
          /\ node[x].due \in Int /\ node[x].store \in Int
          /\ node[x].times \in Times \cup Nat \cup {-1}
    <3> SUFFICES ASSUME NEW x \in Cell
          PROVE  /\ node[x].next \in Pointer /\ node[x].prev \in Pointer
                 /\ node[x].due \in Int /\ node[x].store \in Int
                 /\ node[x].times \in Times \cup Nat \cup {-1}
      BY Zenon
    <3>1. node[x] \in NodeType
      BY DEF IInv, Types
    <3> QED
      BY <3>1, NodeFields DEF Count
  <2> QED
    BY <2>1, Zenon DEF IInv, Types, TypeOK
<1>5. \A i \in 1..n : w[i] \in Cell /\ w[i] # NULL
  BY CellAssumption
<1>6. n # 0 => 1 \in 1..n /\ n \in 1..n
  OBVIOUS
<1>7. /\ head = IF n = 0 THEN NULL ELSE w[1]
      /\ tail = IF n = 0 THEN NULL ELSE w[n]
      /\ \A i \in 1..n :
           /\ node[w[i]].next = IF i = n THEN NULL ELSE w[i + 1]
           /\ node[w[i]].prev = IF i = 1 THEN NULL ELSE w[i - 1]
  BY <1>2 DEF Chain
<1>8. (head = NULL) <=> (tail = NULL)
  BY <1>5, <1>6, <1>7, SMTT(30)
<1>9. head # NULL => node[head].prev = NULL
  BY <1>6, <1>7, SMTT(30)
<1>10. tail # NULL => tail \in Listed /\ node[tail].next = NULL
  BY <1>3, <1>6, <1>7, SMTT(30) DEF Cells
<1>11. ASSUME NEW x \in Listed, node[x].next # NULL PROVE node[node[x].next].prev = x
  <2>1. PICK i \in 1..n : x = w[i]
    BY <1>3, SMTT(30) DEF Cells
  <2>2. i # n /\ node[x].next = w[i + 1] /\ i + 1 \in 1..n /\ i + 1 # 1 /\ i + 1 - 1 = i
    BY <1>7, <1>11, <2>1
  <2> QED
    BY <1>7, <2>1, <2>2
<1>12. alloc = Listed \cup {call[c].cell : c \in
                {c \in Client : call[c].op = "create" /\ call[c].at \in {"lock", "in"}}}
  BY <1>2, <1>3, Zenon DEF Members, AddedCells, Adding
<1>13. tpc = "handler" => cur \in Listed
  BY <1>2, <1>3 DEF Members, Walking
<1> QED
  BY <1>3, <1>4, <1>8, <1>9, <1>10, <1>11, <1>12, <1>13, Zenon DEF ListOK

\* The doubly linked list stays one for any number of cells and clients, and its
\* cells are the allocated ones, through creation, destruction, sweep and exit:
\* no step of add_timer, delete_timer, on_tick or release_queue breaks it, and no
\* handler runs for a timer that has been destroyed.
THEOREM ListOKHolds ==
  ASSUME ~ Preempt
  PROVE  Spec => []ListOK
<1>1. IInv /\ [Next]_vars => IInv'
  BY InvStep, ListedIsChain DEF WalkFollows
<1> QED
  BY <1>1, InvInit, InvList, PTL DEF Spec

-----------------------------------------------------------------------------
(* The calls and the watch of the thread                                   *)

\* The steps of the thread that write no cell.
LEMMA ThreadWatches ==
  ASSUME IInv, WatchInv,
         \/ Start \/ ScanRead \/ ScanLock \/ ScanNode \/ ScanEnd \/ Sleep \/ Wake
         \/ Check \/ TickLock \/ TickNode \/ TickEnd \/ SweepEnd
  PROVE  WatchInv'
<1>0. node' = node /\ alloc' = alloc /\ call' = call
  BY DEF Start, ScanRead, ScanLock, ScanNode, ScanEnd, Sleep, Wake, Check, TickLock,
         TickNode, TickEnd, SweepEnd, list
<1>1. Timers' = Timers
  BY <1>0 DEF Timers, AddedCells, Adding
<1>2. Dues'
  <2>1. tpc' = "handler" => cur' \in Cell /\ Due(cur')
    <3>1. CASE TickNode
      BY <3>1, SMTT(30) DEF TickNode, IInv, Types, Pointer
    <3>2. CASE ~ TickNode
      BY <3>2 DEF Start, ScanRead, ScanLock, ScanNode, ScanEnd, Sleep, Wake, Check, TickLock,
         TickEnd, SweepEnd, At
    <3> QED
      BY <3>1, <3>2, SMTT(30)
  <2>2. \A x \in Cell : SameTimer(node'[x], node[x])
    BY <1>0 DEF SameTimer
  <2>3. alloc' \subseteq alloc /\ alloc \subseteq Cell
    BY <1>0 DEF IInv, Types
  <2> QED
    BY <2>1, <2>2, <2>3, DuesCarry, Zenon DEF WatchInv
<1>3. CASE ScanLock
  <2>1. Scanned' /\ tpc' = "scan"
    BY <1>3, ScanStarts, SMTT(30) DEF ScanLock
  <2> QED
    BY <1>2, <2>1, SMTT(30) DEF WatchInv, Watch
<1>4. CASE ScanNode
  <2>1. tpc = "scan" /\ tpc' = "scan" /\ signal' = signal
    BY <1>4, SMTT(30) DEF ScanNode, At
  <2>2. Alerted => Alerted'
    BY <1>0, <2>1 DEF Alerted
  <2>3. ~ Alerted => Scanned'
    BY <1>4, <2>1, ScanGoesOn, SMTT(30) DEF WatchInv, Watch
  <2> QED
    BY <1>2, <2>1, <2>2, <2>3, SMTT(30) DEF WatchInv, Watch
<1>5. CASE ScanEnd
  <2>1. tpc = "scan" /\ tpc' = "sleep" /\ signal' = signal /\ cur = NULL /\ timeout' = min
    BY <1>5, SMTT(30) DEF ScanEnd, At
  <2>2. Alerted => Alerted'
    BY <1>0, <2>1 DEF Alerted
  <2>3. ~ Alerted => Covers({}, min)
    BY <2>1, ScanEnds, SMTT(30) DEF WatchInv, Watch
  <2>4. ~ Alerted' => Covers({}, timeout)'
    BY <1>0, <1>1, <2>1, <2>2, <2>3, SMTT(30) DEF Covers, Live
  <2> QED
    BY <1>2, <2>1, <2>4, SMTT(30) DEF WatchInv, Watch
<1>6. CASE Sleep
  <2>1. tpc = "sleep" /\ tpc' = "wait" /\ signal' = signal
        /\ left' = IF Negative(timeout) THEN Forever ELSE timeout
    BY <1>6 DEF Sleep, At
  <2>2. Alerted => Alerted'
    BY <1>0, <2>1, SMTT(30) DEF Alerted
  <2>3. ASSUME ~ Alerted, NEW x \in Timers, Live(x) PROVE left' <= node[x].due
    <3>1. timeout <= node[x].due
      BY <2>1, <2>3, SMTT(30) DEF WatchInv, Watch, Covers
    <3>2. x \in Cell /\ node[x].due \in Int /\ timeout \in Int /\ Word \in Nat
      BY TimersType, NodeFields, ConstantTypes, SMTT(30) DEF IInv, Types, Forever
    <3>3. 2 * node[x].due < Word
      BY <3>2 DEF WatchInv, Dues, Short
    <3>4. ~ Negative(timeout)
      BY <3>1, <3>2, <3>3 DEF Negative
    <3> QED
      BY <2>1, <3>1, <3>4, SMTT(30)
  <2>4. ~ Alerted' => Covers({}, left)'
    BY <1>0, <1>1, <2>2, <2>3, Zenon DEF Covers, Live
  <2> QED
    BY <1>2, <2>1, <2>4, SMTT(30) DEF WatchInv, Watch
<1>7. CASE ~ (ScanLock \/ ScanNode \/ ScanEnd \/ Sleep)
  <2>1. tpc' \notin {"scan", "sleep", "wait"}
    BY <1>7 DEF Start, ScanRead, Wake, Check, TickLock, TickNode, TickEnd, SweepEnd
  <2> QED
    BY <1>2, <2>1, SMTT(30) DEF WatchInv, Watch
<1> QED
  BY <1>3, <1>4, <1>5, <1>6, <1>7, SMTT(30)

-----------------------------------------------------------------------------
(* The other steps keep the watch                                          *)

\* A place at which the thread knows nothing.
LEMMA ElsewhereWatches ==
  ASSUME tpc' \notin {"scan", "sleep", "wait"}
  PROVE  Watch'
BY DEF Watch

\* A firing moves the due time by the interval of the timer.
LEMMA HandlerWatches ==
  ASSUME IInv, WatchInv, HandlerReturns
  PROVE  WatchInv'
<1>1. tpc = "handler" /\ tpc' = "tick" /\ Due(cur) /\ alloc' = alloc
      /\ node' = [node EXCEPT ![cur] = Fired(node[cur])]
  BY SMTT(30) DEF WatchInv, Dues, HandlerReturns, At, list
<1>2. cur \in Cell /\ node \in [Cell -> NodeType] /\ node[cur] \in NodeType
  BY <1>1 DEF IInv, ListInv, Members, Types, Pointer
<1>3. \A x \in Cell : x # cur => node'[x] = node[x]
  BY <1>1, <1>2, SMTT(30)
<1> DEFINE n == node[cur]
           f == node'[cur]
<1>4. /\ n.times \in Int /\ n.due \in Int /\ n.interval \in Nat /\ n.store \in Int
      /\ n.interval \in Intervals \cup {0} /\ n.times \in Count
  BY <1>2, NodeFields, SMTT(30)
<1>5. /\ f.status = n.status /\ f.store = n.store
      /\ f.times = IF n.times > 0 THEN n.times - 1 ELSE n.times
      /\ f.due = IF n.times > 0 /\ ~ n.times > 1 THEN n.due ELSE n.due + n.interval
  <2>1. f = Fired(n)
    BY <1>1, <1>2
  <2> QED
    BY <1>2, <2>1, FiredFields
<1>6. n.due <= 0 /\ n.status = "enable" /\ n.times # 0
  BY <1>1, SMTT(30) DEF Due
<1>7. 2 * n.interval < Word /\ 0 < Word /\ Word \in Nat
  <2>1. MaxLate \in Nat /\ Word \in Nat /\ Word > 0 /\ \A i \in Intervals : i \in Nat
    BY ConstantTypes
  <2>2. \A i \in Intervals : 2 * (i + MaxLate) < Word
    BY TimeAssumption
  <2>3. CASE n.interval = 0
    BY <2>1, <2>3, SMTT(30)
  <2>4. CASE n.interval \in Intervals
    BY <1>4, <2>1, <2>2, <2>4, SMTT(30)
  <2> QED
    BY <1>4, <2>1, <2>3, <2>4, SMTT(30)
<1> HIDE DEF n, f
<1>8. Short(f.due) /\ Short(f.store)
  <2>1. Short(n.store)
    BY <1>2, SMTT(30) DEF WatchInv, Dues, n
  <2> QED
    BY <1>4, <1>5, <1>6, <1>7, <2>1, SMTT(30) DEF Short
<1>9. cur \in alloc /\ n.due >= 0
  <2>1. cur \in alloc
    BY <1>1, <1>2, CellAssumption, SMTT(30) DEF IInv, ListInv, Members, Walking
  <2> QED
    BY <1>6, <2>1, SMTT(30) DEF WatchInv, Dues, n
<1>10. f.times # 0 => f.due >= 0
  BY <1>4, <1>5, <1>6, <1>9, SMTT(30) DEF Count
<1>11. Dues'
  <2>1. \A x \in Cell : Short(node'[x].due) /\ Short(node'[x].store)
    BY <1>3, <1>8 DEF WatchInv, Dues, f
  <2>2. \A x \in alloc' : node'[x].times # 0 =>
          IF node'[x].status = "enable" THEN node'[x].due >= 0 ELSE node'[x].store >= 0
    <3>1. f.status = "enable" /\ alloc \subseteq Cell
      BY <1>5, <1>6 DEF IInv, Types
    <3> QED
      BY <1>1, <1>3, <1>10, <3>1, SMTT(30) DEF WatchInv, Dues, f
  <2> QED
    BY <1>1, <2>1, <2>2, SMTT(30) DEF Dues, Short
<1> QED
  BY <1>1, <1>11, ElsewhereWatches, SMTT(30) DEF WatchInv

\* The sweep frees timers only.
LEMMA SweepWatches ==
  ASSUME IInv, WatchInv, SweepNode
  PROVE  WatchInv'
<1>1. tpc = "sweep" /\ tpc' = "sweep" /\ cur # NULL
  BY DEF SweepNode, At
<1>2. alloc' \subseteq alloc /\ \A x \in Cell : SameTimer(node'[x], node[x])
  <2>1. CASE node[cur].times = 0
    <3>1. PICK n \in Nat : \E w \in [1..n -> Cell] : Chain(n, w) /\ Members(Cells(n, w))
      BY DEF IInv, ListInv
    <3>2. PICK w \in [1..n -> Cell] : Chain(n, w) /\ Members(Cells(n, w))
      BY <3>1, SMTT(30)
    <3>3. PICK i \in 1..n : cur = w[i]
      BY <1>1, <3>2, SMTT(30) DEF Members, Cells, Walking
    <3>4. delete_timer(w[i]) /\ node \in [Cell -> NodeType]
      BY <2>1, <3>3 DEF SweepNode, IInv, Types
    <3>5. \A x \in Cell : SameTimer(node'[x], node[x])
      BY <3>2, <3>4, ChainDelete, Zenon
    <3> QED
      BY <3>4, <3>5, Zenon DEF delete_timer
  <2>2. CASE node[cur].times # 0
    <3>1. node' = node /\ alloc' = alloc
      BY <2>2, Zenon DEF SweepNode, list
    <3> QED
      BY <3>1, Zenon DEF SameTimer
  <2> QED
    BY <2>1, <2>2
<1>3. Dues'
  <2>1. tpc' # "handler" /\ alloc \subseteq Cell
    BY <1>1 DEF IInv, Types
  <2> QED
    BY <1>2, <2>1, DuesCarry, Zenon DEF WatchInv
<1> QED
  BY <1>1, <1>3, ElsewhereWatches, SMTT(30) DEF WatchInv

\* A new timer is due after its interval; it is not on the list yet.
LEMMA CreateWatches ==
  ASSUME IInv, WatchInv, NEW c \in Client, CallCreate(c)
  PROVE  WatchInv'
<1>1. PICK x \in Cell \ alloc, i \in Intervals, t \in Times :
       /\ alloc' = alloc \cup {x}
       /\ node' = [node EXCEPT ![x] = New(node[x], i, t)]
       /\ call' = [call EXCEPT ![c] = [op |-> "create", at |-> "lock",
                                       cell |-> x, interval |-> i, times |-> t]]
  BY Zenon DEF CallCreate
<1>2. /\ node \in [Cell -> NodeType] /\ call \in [Client -> CallType] /\ x \in Cell
      /\ alloc \subseteq Cell
  BY SMTT(30) DEF IInv, Types
<1>3. /\ call'[c].op = "create" /\ call'[c].at = "lock" /\ call'[c].cell = x
      /\ \A d \in Client : d # c => call'[d] = call[d]
  BY <1>1, <1>2, SMTT(30)
<1>4. /\ node'[x].status = "enable" /\ node'[x].due = i
      /\ node'[x].store = node[x].store /\ node'[x].next = node[x].next
      /\ \A y \in Cell : y # x => node'[y] = node[y]
  <2>1. node'[x] = New(node[x], i, t) /\ \A y \in Cell : y # x => node'[y] = node[y]
    BY <1>1, <1>2, SMTT(30)
  <2> QED
    BY <1>2, <2>1, NewFields, SMTT(30) DEF SameLinks
<1>5. /\ tpc' = tpc /\ cur' = cur /\ min' = min /\ left' = left /\ timeout' = timeout
      /\ signal' = signal /\ call[c] = Idle
  BY SMTT(30) DEF CallCreate, thread
<1>6. Timers' = Timers /\ x \notin Timers
  <2>1. ~ Adding(c) /\ Adding(c)' /\ \A d \in Client : d # c => (Adding(d)' <=> Adding(d))
    BY <1>3, <1>5, IdleType DEF Adding
  <2>2. AddedCells' = AddedCells \cup {x}
    BY <1>3, <2>1, Zenon DEF AddedCells
  <2> QED
    BY <1>1, <2>2, SMTT(30) DEF Timers
<1>7. Dues'
  <2>1. i \in Nat /\ 2 * i < Word
    <3>1. i \in Nat /\ MaxLate \in Nat /\ Word \in Nat
      BY ConstantTypes
    <3>2. 2 * (i + MaxLate) < Word
      BY TimeAssumption, SMTT(30)
    <3> QED
      BY <3>1, <3>2
  <2>2. \A y \in Cell : Short(node'[y].due) /\ Short(node'[y].store)
    BY <1>4, <2>1, SMTT(30) DEF WatchInv, Dues, Short
  <2>3. \A y \in alloc' : node'[y].times # 0 =>
          IF node'[y].status = "enable" THEN node'[y].due >= 0 ELSE node'[y].store >= 0
    BY <1>1, <1>2, <1>4, <2>1 DEF WatchInv, Dues
  <2>4. tpc' = "handler" => Due(cur)'
    <3> SUFFICES ASSUME tpc = "handler" PROVE Due(cur)'
      BY <1>5, SMTT(30)
    <3>1. Due(cur) /\ cur \in alloc
      BY CellAssumption DEF WatchInv, Dues, IInv, ListInv, Members, Walking
    <3>2. node'[cur] = node[cur]
      BY <1>2, <1>4, <3>1
    <3> QED
      BY <1>5, <3>1, <3>2 DEF Due
  <2> QED
    BY <2>2, <2>3, <2>4, SMTT(30) DEF Dues, Short
<1>8. \A y \in Timers' : Live(y)' => Live(y) /\ node'[y].due = node[y].due
  <2>1. \A y \in Timers : node'[y] = node[y]
    BY <1>4, <1>6, TimersType, SMTT(30)
  <2> QED
    BY <1>6, <2>1, Zenon DEF Live
<1>9. Alerted => Alerted'
  BY <1>3, <1>5, IdleType, SMTT(30) DEF Alerted
<1>10. \A y \in Cell : node'[y].next = node[y].next
  BY <1>4
<1>11. ~ Alerted /\ tpc = "scan" => Scanned'
  <2>1. ~ Alerted /\ tpc = "scan" => Scanned
    BY DEF WatchInv, Watch
  <2> QED
    BY <1>5, <1>6, <1>8, <1>10, <2>1, ScanCarry, Zenon
<1>12. Watch'
  BY <1>5, <1>6, <1>8, <1>9, <1>11, WatchCarry, Zenon DEF WatchInv
<1> QED
  BY <1>7, <1>12 DEF WatchInv

\* A step that leaves the timers and the thread as they are.
LEMMA QuietWatches ==
  ASSUME IInv, WatchInv, node' = node, alloc' = alloc, AddedCells' = AddedCells,
         tpc' = tpc, cur' = cur, min' = min, left' = left, timeout' = timeout,
         Alerted => Alerted'
  PROVE  WatchInv'
<1>1. Timers' = Timers
  BY SMTT(30) DEF Timers
<1>2. \A x \in Timers' : Live(x)' => Live(x) /\ node'[x].due = node[x].due
  BY DEF Live
<1>3. Dues'
  BY Zenon DEF WatchInv, Dues, Due, Short
<1>4. ~ Alerted /\ tpc = "scan" => Scanned'
  <2>1. ~ Alerted /\ tpc = "scan" => Scanned
    BY DEF WatchInv, Watch
  <2>2. \A x \in Cell : node'[x].next = node[x].next
    OBVIOUS
  <2> QED
    BY <1>1, <1>2, <2>1, <2>2, ScanCarry, Zenon
<1>5. Watch'
  BY <1>1, <1>2, <1>4, WatchCarry, Zenon DEF WatchInv
<1> QED
  BY <1>3, <1>5 DEF WatchInv

\* A call before its critical section, and the signal after it.
LEMMA OutsideWatches ==
  ASSUME IInv, WatchInv, NEW c \in Client, CallOther(c) \/ Lock(c) \/ Give(c)
  PROVE  WatchInv'
<1>0. call \in [Client -> CallType]
  BY DEF IInv, Types
<1>1. /\ node' = node /\ alloc' = alloc /\ tpc' = tpc /\ cur' = cur /\ min' = min
      /\ left' = left /\ timeout' = timeout
  BY SMTT(30) DEF CallOther, Lock, Give, list, thread
<1>2. /\ \A d \in Client : d # c => call'[d] = call[d]
      /\ Adding(c)' <=> Adding(c)
      /\ Adding(c) => call'[c].cell = call[c].cell
      /\ signal' = 1 \/ (signal' = signal /\ call[c].at # "give")
  <2>1. CASE CallOther(c)
    <3>1. PICK op \in Ops \ {"create"}, x \in Cell :
            \E i \in IF op = "interval" THEN Intervals ELSE {0},
               t \in IF op = "interval" THEN Times ELSE {0} :
            call' = [call EXCEPT ![c] = [op |-> op, at |-> "lock", cell |-> x,
                                         interval |-> i, times |-> t]]
      BY <2>1, Zenon DEF CallOther
    <3>3. call'[c].op # "create" /\ \A d \in Client : d # c => call'[d] = call[d]
      BY <1>0, <3>1, SMTT(30)
    <3>2. signal' = signal /\ call[c] = Idle
      BY <2>1 DEF CallOther
    <3> QED
      BY <3>2, <3>3, IdleType DEF Adding
  <2>2. CASE Lock(c)
    <3>1. /\ call' = [call EXCEPT ![c] = [call[c] EXCEPT !.at = "in"]] /\ signal' = signal
          /\ call[c].at = "lock"
      BY <2>2, Zenon DEF Lock
    <3>2. call'[c] = [call[c] EXCEPT !.at = "in"] /\ call[c] \in CallType
      BY <1>0, <3>1
    <3>3. call'[c].op = call[c].op /\ call'[c].cell = call[c].cell /\ call'[c].at = "in"
      BY <3>2, SMTT(30) DEF CallType
    <3> QED
      BY <1>0, <3>1, <3>3 DEF Adding
  <2>3. CASE Give(c)
    <3>1. call' = [call EXCEPT ![c] = Idle] /\ call[c].at = "give" /\ signal' = 1
      BY <2>3, Zenon DEF Give
    <3> QED
      BY <1>0, <3>1, IdleType DEF Adding
  <2> QED
    BY <2>1, <2>2, <2>3
<1>3. AddedCells' = AddedCells
  <2>1. \A d \in Client : /\ Adding(d)' <=> Adding(d)
                          /\ Adding(d) => call'[d].cell = call[d].cell
    BY <1>2 DEF Adding
  <2> QED
    BY <2>1, Zenon DEF AddedCells
<1>4. Alerted => Alerted'
  BY <1>2 DEF Alerted
<1> QED
  BY <1>1, <1>3, <1>4, QuietWatches, Zenon

\* A new timer on the list comes with a signal.
LEMMA AddWatches ==
  ASSUME IInv, WatchInv, NEW c \in Client, add_timer(c)
  PROVE  WatchInv'
<1>1. /\ call[c].at = "in" /\ Append(call[c].cell) /\ Leave(c, TRUE) /\ Adding(c)
      /\ alloc' = alloc /\ exit' = exit /\ tpc' = tpc /\ cur' = cur
  BY Zenon DEF add_timer, thread, Adding
<1>2. tpc' # "handler" /\ call[c].cell \in Cell
  BY <1>1, Inside DEF Walking
<1>3. \A x \in Cell : SameTimer(node'[x], node[x])
  <2>1. call[c].cell # tail
    <3>1. PICK n \in Nat : \E w \in [1..n -> Cell] : Chain(n, w) /\ Members(Cells(n, w))
      BY DEF IInv, ListInv
    <3>2. PICK w \in [1..n -> Cell] : Chain(n, w) /\ Members(Cells(n, w))
      BY <3>1
    <3>3. n # 0 => n \in 1..n
      OBVIOUS
    <3>4. tail \in Cells(n, w) \cup {NULL} /\ call[c].cell \notin Cells(n, w)
      BY <1>1, <3>2, <3>3 DEF Chain, Cells, Members
    <3> QED
      BY <1>2, <3>4, CellAssumption, SMTT(30)
  <2>2. node \in [Cell -> NodeType] /\ tail \in Pointer
    BY DEF IInv, Types
  <2> QED
    BY <1>1, <1>2, <2>1, <2>2, AppendFields, Zenon
<1>4. Dues'
  <2>1. alloc' \subseteq alloc /\ alloc \subseteq Cell
    BY <1>1, SMTT(30) DEF IInv, Types
  <2> QED
    BY <1>2, <1>3, <2>1, DuesCarry, Zenon DEF WatchInv
<1>5. Alerted'
  <2>1. call'[c].at = "give"
    BY <1>1, Leaves, Zenon
  <2> QED
    BY <2>1 DEF Alerted
<1> QED
  BY <1>4, <1>5 DEF WatchInv, Watch

\* The cells on the list are the timers of the invariant.
LEMMA ListedTimers == IInv => Listed = Timers
<1> SUFFICES ASSUME IInv PROVE Listed = Timers
  OBVIOUS
<1>1. PICK n \in Nat : \E w \in [1..n -> Cell] :
          Chain(n, w) /\ Members(Cells(n, w)) /\ Cells(n, w) = Timers
  BY TimersChain
<1> QED
  BY <1>1, ListedIsChain, Zenon

\* A timer deleted during the scan: if the cell before it is still ahead of the scan,
\* so is the deleted one, and the path skips it; else the path stays.
LEMMA PathDelete ==
  ASSUME node \in [Cell -> NodeType], NEW n \in Nat, NEW w \in [1..n -> Cell], Chain(n, w),
         NEW i \in 1..n, delete_timer(w[i]), cur' = cur,
         NEW m \in Nat, NEW u \in [1..m -> Cell], Path(m, u)
  PROVE  \E k \in Nat : \E v \in [1..k -> Cell] :
           Path(k, v)' /\ \A x \in Cells(m, u) : x = w[i] \/ x \in Cells(k, v)
<1>1. \A y \in Cell : node'[y].next = IF i # 1 /\ y = w[i - 1] THEN node[w[i]].next
                                      ELSE node[y].next
  BY ChainDelete, SMTT(30)
<1>2. /\ \A j, k \in 1..m : u[j] = u[k] => j = k
      /\ cur = IF m = 0 THEN NULL ELSE u[1]
      /\ \A j \in 1..m : node[u[j]].next = IF j = m THEN NULL ELSE u[j + 1]
      /\ \A j \in 1..m : u[j] \in Cell
  BY DEF Path
<1>3. CASE i # 1 /\ \E k \in 1..m : u[k] = w[i - 1]
  <2>1. PICK k \in 1..m : u[k] = w[i - 1]
    BY <1>3, SMTT(30)
  <2>2. node[w[i - 1]].next = w[i] /\ w[i] \in Cell /\ w[i] # NULL
    <3>1. i - 1 \in 1..n /\ i - 1 # n /\ i - 1 + 1 = i
      BY <1>3
    <3> QED
      BY <3>1, CellAssumption DEF Chain
  <2>3. k # m /\ u[k + 1] = w[i] /\ k + 1 \in 1..m /\ m - 1 \in Nat /\ m - 1 # 0
    <3>1. k # m /\ u[k + 1] = w[i]
      BY <1>2, <2>1, <2>2
    <3> QED
      BY <3>1
  <2>a. PICK q \in 1..m : q = k + 1
    BY <2>3, SMTT(30)
  <2> DEFINE v == Shorter(m, u, q)
  <2>4. /\ v \in [1..m - 1 -> Cell]
        /\ \A j \in 1..m - 1 : v[j] = IF j < k + 1 THEN u[j] ELSE u[j + 1]
        /\ \A j, l \in 1..m - 1 : v[j] = v[l] => j = l
        /\ Cells(m - 1, v) = Cells(m, u) \ {u[k + 1]}
    <3>1. \A j, l \in 1..m : u[j] = u[l] => j = l
      BY <1>2, SMTT(30)
    <3>2. /\ v \in [1..m - 1 -> Cell]
          /\ \A j \in 1..m - 1 : v[j] = IF j < q THEN u[j] ELSE u[j + 1]
          /\ \A j, l \in 1..m - 1 : v[j] = v[l] => j = l
          /\ Cells(m - 1, v) = Cells(m, u) \ {u[q]}
      BY <3>1, ShorterFacts, SMTT(30)
    <3> HIDE DEF v
    <3> QED
      BY <2>a, <3>2, SMTT(30)
  <2> HIDE DEF v
  <2>5. cur' = v[1]
    BY <1>2, <2>3, <2>4
  <2>6. ASSUME NEW j \in 1..m - 1
        PROVE  node'[v[j]].next = IF j = m - 1 THEN NULL ELSE v[j + 1]
    <3>0. j \in 1..m /\ j + 1 \in 1..m
      BY <2>3, SMTT(30)
    <3>1. j # m - 1 => v[j + 1] = IF j + 1 < k + 1 THEN u[j + 1] ELSE u[j + 1 + 1]
      BY <2>4, SMTT(30)
    <3>2. CASE j < k
      <4>1. v[j] = u[j] /\ u[j] # w[i - 1] /\ u[j] \in Cell
        BY <1>2, <2>1, <2>4, <3>0, <3>2, SMTT(30)
      <4>2. node'[v[j]].next = u[j + 1]
        BY <1>1, <1>2, <3>0, <3>2, <4>1, SMTT(30)
      <4> QED
        BY <2>3, <3>1, <3>2, <4>2, SMTT(30)
    <3>3. CASE j = k
      <4>1. v[j] = w[i - 1] /\ w[i - 1] \in Cell
        BY <1>2, <2>1, <2>4, <3>3, SMTT(30)
      <4>2. node'[v[j]].next = node[u[k + 1]].next
        BY <1>1, <1>3, <2>3, <4>1, SMTT(30)
      <4>3. node[u[k + 1]].next = IF k + 1 = m THEN NULL ELSE u[k + 1 + 1]
        BY <1>2, <2>3, SMTT(30)
      <4> QED
        BY <3>1, <3>3, <4>2, <4>3, SMTT(30)
    <3>4. CASE j > k
      <4>1. v[j] = u[j + 1] /\ u[j + 1] \in Cell
        BY <1>2, <2>4, <3>0, <3>4, SMTT(30)
      <4>2. u[j + 1] # w[i - 1]
        <5>1. u[j + 1] = u[k] => j + 1 = k
          BY <1>2, <3>0, Zenon
        <5> QED
          BY <2>1, <3>4, <5>1
      <4>3. node'[v[j]].next = IF j + 1 = m THEN NULL ELSE u[j + 1 + 1]
        BY <1>1, <1>2, <3>0, <4>1, <4>2, ZenonT(60)
      <4> QED
        <5>1. ~ (j + 1 < k + 1) /\ (j = m - 1 <=> j + 1 = m)
          BY <3>4
        <5> QED
          BY <3>1, <4>3, <5>1, Zenon
    <3> QED
      BY <3>2, <3>3, <3>4
  <2>7. Path(m - 1, v)'
    BY <2>3, <2>4, <2>5, <2>6, SMTT(30) DEF Path
  <2>8. \A x \in Cells(m, u) : x = w[i] \/ x \in Cells(m - 1, v)
    BY <2>3, <2>4
  <2> QED
    BY <2>3, <2>4, <2>7, <2>8, Zenon
<1>4. CASE ~ (i # 1 /\ \E k \in 1..m : u[k] = w[i - 1])
  <2>1. \A j \in 1..m : node'[u[j]].next = node[u[j]].next
    BY <1>1, <1>2, <1>4, SMTT(30)
  <2>2. Path(m, u)'
    BY <1>2, <2>1 DEF Path
  <2> QED
    BY <2>2, Zenon
<1> QED
  BY <1>3, <1>4, SMTT(30)

\* sw_timer_destroy keeps the watch, also in the middle of a scan.
LEMMA DestroyWatches ==
  ASSUME IInv, WatchInv, NEW c \in Client, Destroy(c)
  PROVE  WatchInv'
<1>0. /\ call[c].op = "destroy" /\ call[c].at = "in" /\ call[c].cell \in Listed
      /\ delete_timer(call[c].cell) /\ Leave(c, FALSE)
      /\ signal' = signal /\ timeout' = timeout /\ exit' = exit /\ tpc' = tpc /\ cur' = cur
      /\ min' = min /\ left' = left /\ ~ Adding(c)
  BY Zenon DEF Destroy, thread, Adding
<1>1. /\ \A d \in Client : d # c => call'[d] = call[d]
      /\ ~ Adding(c)'
  BY <1>0, Leaves, Zenon
<1>2. tpc' # "handler"
  BY <1>0, Inside DEF Walking
<1>3. PICK n \in Nat : \E w \in [1..n -> Cell] : Chain(n, w) /\ Cells(n, w) = Timers
  BY TimersChain
<1>4. PICK w \in [1..n -> Cell] : Chain(n, w) /\ Cells(n, w) = Timers
  BY <1>3, SMTT(30)
<1>5. PICK i \in 1..n : call[c].cell = w[i]
  BY <1>0, <1>4, ListedTimers DEF Cells
<1>6. /\ delete_timer(w[i]) /\ node \in [Cell -> NodeType] /\ alloc \subseteq Cell
      /\ alloc' = alloc \ {w[i]}
  BY <1>0, <1>5, Zenon DEF IInv, Types, delete_timer
<1>7. \A x \in Cell : SameTimer(node'[x], node[x])
  BY <1>4, <1>6, ChainDelete, Zenon
<1>8. Timers' = Timers \ {w[i]}
  <2>1. \A d \in Client : /\ Adding(d)' <=> Adding(d)
                          /\ Adding(d) => call'[d].cell = call[d].cell
    BY <1>0, <1>1, OthersAdd, Zenon
  <2>2. AddedCells' = AddedCells
    BY <2>1, Zenon DEF AddedCells
  <2> QED
    BY <1>6, <2>2 DEF Timers
<1>9. Dues'
  <2>1. alloc' \subseteq alloc
    BY <1>6, SMTT(30)
  <2> QED
    BY <1>2, <1>6, <1>7, <2>1, DuesCarry, Zenon DEF WatchInv
<1>10. \A x \in Timers' : Live(x)' => Live(x) /\ node'[x].due = node[x].due
  BY <1>7, <1>8, TimersType, SMTT(30) DEF Live, SameTimer
<1>11. Alerted => Alerted'
  BY <1>0, <1>1 DEF Alerted
<1>12. ASSUME ~ Alerted, tpc = "scan" PROVE Scanned'
  <2>1. Scanned
    BY <1>12, SMTT(30) DEF WatchInv, Watch
  <2>2. PICK m \in Nat : \E u \in [1..m -> Cell] : Path(m, u) /\ Covers(Cells(m, u), min)
    BY <2>1, SMTT(30) DEF Scanned
  <2>3. PICK u \in [1..m -> Cell] : Path(m, u) /\ Covers(Cells(m, u), min)
    BY <2>2, SMTT(30)
  <2>4. PICK k \in Nat : \E v \in [1..k -> Cell] :
           Path(k, v)' /\ \A x \in Cells(m, u) : x = w[i] \/ x \in Cells(k, v)
    <3>1. /\ node \in [Cell -> NodeType] /\ Chain(n, w) /\ delete_timer(w[i]) /\ cur' = cur
          /\ Path(m, u)
      BY <1>0, <1>4, <1>6, <2>3, Zenon
    <3> QED
      BY <3>1, PathDelete, SMTT(30)
  <2>5. PICK v \in [1..k -> Cell] :
           Path(k, v)' /\ \A x \in Cells(m, u) : x = w[i] \/ x \in Cells(k, v)
    BY <2>4
  <2>6. Cells(k, v)' = Cells(k, v)
    BY SMTT(30) DEF Cells
  <2>7. Covers(Cells(k, v), min)'
    BY <1>0, <1>8, <1>10, <2>3, <2>5, <2>6, ZenonT(60) DEF Covers
  <2> QED
    BY <2>5, <2>7, Zenon DEF Scanned
<1>13. Watch'
  <2>1. Timers' \subseteq Timers
    BY <1>8, SMTT(30)
  <2> QED
    BY <1>0, <1>10, <1>11, <1>12, <2>1, WatchCarry, Zenon DEF WatchInv
<1> QED
  BY <1>9, <1>13 DEF WatchInv

\* What enabling and disabling make of a timer; no other call that does not set
\* the time changes what the thread looks at.
LEMMA ChangedTimes ==
  ASSUME NEW n \in NodeType, NEW r \in CallType, r.op \notin {"reset", "interval"}
  PROVE  /\ Changed(n, r).times = n.times
         /\ \/ /\ n.status = "enable" /\ Changed(n, r).status = "disable"
               /\ Changed(n, r).store = n.due /\ Changed(n, r).due = n.due
            \/ /\ r.op = "enable" /\ n.status = "disable" /\ Changed(n, r).status = "enable"
               /\ Changed(n, r).store = n.store /\ Changed(n, r).due = n.store
            \/ /\ Changed(n, r).status = n.status
               /\ Changed(n, r).store = n.store /\ Changed(n, r).due = n.due
<1>1. CASE r.op = "disable" /\ n.status = "enable"
  <2>1. Changed(n, r) = [n EXCEPT !.store = n.due, !.status = "disable"]
    BY <1>1 DEF Changed
  <2> QED
    BY <1>1, <2>1 DEF NodeType
<1>2. CASE r.op = "enable" /\ n.status = "disable"
  <2>1. Changed(n, r) = [n EXCEPT !.due = n.store, !.status = "enable"]
    BY <1>2 DEF Changed
  <2> QED
    BY <1>2, <2>1 DEF NodeType
<1>3. CASE r.op = "handler"
  <2>1. Changed(n, r) = [n EXCEPT !.param = "given"]
    BY <1>3, SMTT(30) DEF Changed
  <2> QED
    BY <1>3, <2>1 DEF NodeType
<1>4. CASE /\ r.op # "handler"
           /\ ~ (r.op = "disable" /\ n.status = "enable")
           /\ ~ (r.op = "enable" /\ n.status = "disable")
  <2>1. Changed(n, r) = n
    BY <1>4, SMTT(30) DEF Changed
  <2> QED
    BY <2>1
<1> QED
  BY <1>1, <1>2, <1>3, <1>4, Zenon

\* A call that enables or disables a timer, or sets its handler: enabling comes with
\* a signal, and the others start no timer.
LEMMA ChangeWatches ==
  ASSUME Prompt, IInv, WatchInv, NEW c \in Client, Change(c)
  PROVE  WatchInv'
<1> DEFINE x == call[c].cell
           g == call[c].op = "enable" /\ node[x].status = "disable"
<1>0. /\ call[c].op \notin {"create", "destroy"} /\ call[c].at = "in" /\ x \in Listed
      /\ node' = [node EXCEPT ![x] = Changed(node[x], call[c])]
      /\ Leave(c, g) /\ ~ Adding(c) /\ alloc' = alloc
      /\ signal' = signal /\ timeout' = timeout /\ exit' = exit /\ tpc' = tpc /\ cur' = cur
      /\ min' = min /\ left' = left
  BY Zenon DEF Change, list, thread, Adding
<1>1. /\ \A d \in Client : d # c => call'[d] = call[d]
      /\ call'[c].at = (IF g THEN "give" ELSE "idle") /\ ~ Adding(c)'
  <2>1. g \in BOOLEAN
    BY Zenon
  <2> HIDE DEF g
  <2> QED
    BY <1>0, <2>1, Leaves, Zenon
<1>2. /\ tpc' # "handler" /\ call[c] \in CallType /\ x \in Cell
      /\ node \in [Cell -> NodeType] /\ alloc \subseteq Cell
  BY <1>0, Inside DEF Walking, IInv, Types
<1>3. call[c].op \notin {"reset", "interval"}
  <2>1. call[c].op \in Ops \cup {"idle"}
    BY <1>2, Zenon DEF CallType
  <2> QED
    BY <2>1 DEF Prompt
<1>4. x \in Timers /\ x \in alloc
  BY <1>0, ListedTimers, TimersType, ZenonT(60)
<1>5. Timers' = Timers
  <2>1. \A d \in Client : /\ Adding(d)' <=> Adding(d)
                          /\ Adding(d) => call'[d].cell = call[d].cell
    BY <1>0, <1>1, OthersAdd, Zenon
  <2>2. AddedCells' = AddedCells
    BY <2>1, Zenon DEF AddedCells
  <2> QED
    BY <1>0, <2>2, Zenon DEF Timers
<1>6. node'[x] = Changed(node[x], call[c]) /\ \A y \in Cell : y # x => node'[y] = node[y]
  BY <1>0, <1>2, ZenonT(60)
<1>7. /\ node'[x].times = node[x].times
      /\ \/ /\ node[x].status = "enable" /\ node'[x].status = "disable"
            /\ node'[x].store = node[x].due /\ node'[x].due = node[x].due
         \/ /\ g /\ node'[x].status = "enable"
            /\ node'[x].store = node[x].store /\ node'[x].due = node[x].store
         \/ /\ node'[x].status = node[x].status
            /\ node'[x].store = node[x].store /\ node'[x].due = node[x].due
  <2>1. node[x] \in NodeType
    BY <1>2
  <2>2. PICK n \in NodeType : n = node[x]
    BY <2>1, Zenon
  <2>3. PICK r \in CallType : r = call[c]
    BY <1>2, Zenon
  <2>4. r.op \notin {"reset", "interval"} /\ node'[x] = Changed(n, r)
    BY <1>3, <1>6, <2>2, <2>3, Zenon
  <2>5. /\ Changed(n, r).times = n.times
        /\ \/ /\ n.status = "enable" /\ Changed(n, r).status = "disable"
              /\ Changed(n, r).store = n.due /\ Changed(n, r).due = n.due
           \/ /\ r.op = "enable" /\ n.status = "disable" /\ Changed(n, r).status = "enable"
              /\ Changed(n, r).store = n.store /\ Changed(n, r).due = n.store
           \/ /\ Changed(n, r).status = n.status
              /\ Changed(n, r).store = n.store /\ Changed(n, r).due = n.due
    BY <2>4, ChangedTimes, ZenonT(60)
  <2> QED
    BY <2>2, <2>3, <2>4, <2>5, Zenon
<1>8. \A y \in Cell : node'[y].next = node[y].next
  <2>1. node'[x].next = node[x].next
    BY <1>2, <1>6, ChangedFields DEF SameLinks
  <2> QED
    BY <1>6, <2>1
<1>9. Dues'
  <2>1. \A y \in Cell : Short(node'[y].due) /\ Short(node'[y].store)
    BY <1>2, <1>6, <1>7, ZenonT(60) DEF WatchInv, Dues
  <2>2. node[x].times # 0 =>
          IF node[x].status = "enable" THEN node[x].due >= 0 ELSE node[x].store >= 0
    BY <1>4, SMTT(30) DEF WatchInv, Dues
  <2>3. node'[x].times # 0 =>
          IF node'[x].status = "enable" THEN node'[x].due >= 0 ELSE node'[x].store >= 0
    BY <1>7, <2>2, Zenon
  <2>4. \A y \in alloc : y # x => (node'[y].times # 0 =>
          IF node'[y].status = "enable" THEN node'[y].due >= 0 ELSE node'[y].store >= 0)
    BY <1>2, <1>6 DEF WatchInv, Dues
  <2>5. \A y \in alloc' : node'[y].times # 0 =>
          IF node'[y].status = "enable" THEN node'[y].due >= 0 ELSE node'[y].store >= 0
    BY <1>0, <2>3, <2>4, Zenon
  <2> QED
    BY <1>2, <2>1, <2>5, Zenon DEF Dues, Short
<1>10. CASE g
  <2>1. Alerted'
    BY <1>1, <1>10 DEF Alerted
  <2> QED
    BY <1>9, <2>1 DEF WatchInv, Watch
<1>11. CASE ~ g
  <2>1. \A y \in Timers' : Live(y)' => Live(y) /\ node'[y].due = node[y].due
    <3> SUFFICES ASSUME NEW y \in Timers, Live(y)' PROVE Live(y) /\ node'[y].due = node[y].due
      BY <1>5, Zenon
    <3>1. CASE y = x
      BY <1>7, <1>11, <3>1, Zenon DEF Live
    <3>2. CASE y # x
      <4>1. node'[y] = node[y]
        BY <1>6, <3>2, TimersType, SMTT(30)
      <4> QED
        BY <4>1 DEF Live
    <3> QED
      BY <3>1, <3>2
  <2>2. Alerted => Alerted'
    BY <1>0, <1>1, Zenon DEF Alerted
  <2>3. ~ Alerted /\ tpc = "scan" => Scanned'
    <3>1. ~ Alerted /\ tpc = "scan" => Scanned
      BY DEF WatchInv, Watch
    <3>2. Timers' \subseteq Timers
      BY <1>5
    <3> HIDE DEF g, x
    <3> QED
      BY <1>0, <1>8, <2>1, <3>1, <3>2, ScanCarry, Zenon
  <2>4. Watch'
    <3>1. Timers' \subseteq Timers
      BY <1>5
    <3> HIDE DEF g, x
    <3> QED
      BY <1>0, <2>1, <2>2, <2>3, <3>1, WatchCarry, Zenon DEF WatchInv
  <2> QED
    BY <1>9, <2>4 DEF WatchInv
<1> QED
  BY <1>10, <1>11

\* A call whose timer is not on the list changes nothing.
LEMMA NotFoundWatches ==
  ASSUME IInv, WatchInv, NEW c \in Client, NotFound(c)
  PROVE  WatchInv'
<1>0. /\ call[c].op # "create" /\ call[c].at = "in" /\ Leave(c, FALSE) /\ ~ Adding(c)
      /\ node' = node /\ alloc' = alloc /\ signal' = signal /\ timeout' = timeout
      /\ exit' = exit /\ tpc' = tpc /\ cur' = cur /\ min' = min /\ left' = left
  BY Zenon DEF NotFound, list, thread, Adding
<1>1. (\A d \in Client : d # c => call'[d] = call[d]) /\ ~ Adding(c)'
  BY <1>0, Leaves, Zenon
<1>2. \A d \in Client : /\ Adding(d)' <=> Adding(d)
                        /\ Adding(d) => call'[d].cell = call[d].cell
  BY <1>0, <1>1, OthersAdd, Zenon
<1>3. AddedCells' = AddedCells
  BY <1>2, Zenon DEF AddedCells
<1>4. Alerted => Alerted'
  BY <1>0, <1>1, Zenon DEF Alerted
<1> QED
  BY <1>0, <1>3, <1>4, QuietWatches, Zenon

\* The rest of sw_timer_exit changes no timer.
LEMMA ExitWatches ==
  ASSUME IInv, WatchInv, ExitStep
  PROVE  WatchInv'
<1>0. /\ node' = node /\ alloc' = alloc /\ timeout' = timeout /\ call' = call
      /\ tpc' = tpc /\ cur' = cur /\ min' = min /\ left' = left
      /\ signal' \in {signal, 1}
  BY DEF ExitStep, ExitFlag, ExitGive, ExitClose, list, thread
<1>1. AddedCells' = AddedCells
  BY <1>0 DEF AddedCells, Adding
<1>2. Alerted => Alerted'
  BY <1>0 DEF Alerted
<1> QED
  BY <1>0, <1>1, <1>2, QuietWatches, Zenon

\* release_queue: no timer is left to watch.
LEMMA ReleaseWatches ==
  ASSUME IInv, WatchInv, ExitRelease
  PROVE  WatchInv'
<1>0. /\ mutex = "free" /\ signal' = signal /\ timeout' = timeout /\ tpc' = tpc /\ cur' = cur
      /\ min' = min /\ left' = left /\ call' = call /\ alloc' = alloc \ Listed
      /\ \A c \in Client : call[c] = Idle
  BY Zenon DEF ExitRelease, thread
<1>1. node \in [Cell -> NodeType] /\ alloc \subseteq Cell
  BY DEF IInv, Types
<1>2. \A x \in Cell : /\ node'[x].due = node[x].due /\ node'[x].store = node[x].store
                      /\ node'[x].next = node[x].next
  <2> SUFFICES ASSUME NEW x \in Cell
        PROVE  /\ node'[x].due = node[x].due /\ node'[x].store = node[x].store
               /\ node'[x].next = node[x].next
    BY Zenon
  <2>1. \/ node'[x] = node[x]
        \/ node'[x] = [node[x] EXCEPT !.status = "disable", !.prev = NULL]
    BY Zenon DEF ExitRelease
  <2>2. node[x] \in NodeType
    BY <1>1
  <2> QED
    BY <2>1, <2>2, Zenon DEF NodeType
<1>3. AddedCells = {} /\ AddedCells' = {}
  BY <1>0, IdleType DEF AddedCells, Adding
<1>4. alloc' = {} /\ Timers' = {}
  <2>1. Listed = alloc
    BY <1>3, ListedTimers DEF Timers
  <2> QED
    BY <1>0, <1>3, <2>1 DEF Timers
<1>5. Dues'
  <2>1. \A x \in Cell : Short(node'[x].due) /\ Short(node'[x].store)
    BY <1>2 DEF WatchInv, Dues
  <2>2. tpc' # "handler"
    BY <1>0 DEF IInv, Locks, Walking
  <2> QED
    BY <1>4, <2>1, <2>2, SMTT(30) DEF Dues, Short
<1>6. Alerted => Alerted'
  BY <1>0 DEF Alerted
<1>7. ~ Alerted /\ tpc = "scan" => Scanned'
  <2>1. ~ Alerted /\ tpc = "scan" => Scanned
    BY DEF WatchInv, Watch
  <2>2. /\ \A x \in Cell : node'[x].next = node[x].next
        /\ Timers' \subseteq Timers
        /\ \A x \in Timers' : Live(x)' => Live(x) /\ node'[x].due = node[x].due
    BY <1>2, <1>4
  <2> QED
    BY <1>0, <2>1, <2>2, ScanCarry, Zenon
<1>8. Watch'
  <2>1. /\ Timers' \subseteq Timers
        /\ \A x \in Timers' : Live(x)' => Live(x) /\ node'[x].due = node[x].due
    BY <1>4
  <2> QED
    BY <1>0, <1>6, <1>7, <2>1, WatchCarry, Zenon DEF WatchInv
<1> QED
  BY <1>5, <1>8 DEF WatchInv

\* A tick: the thread sleeps without a signal, so that every timer that is going to
\* fire has at least the time left to sleep.
LEMMA TickWatches ==
  ASSUME Prompt, IInv, WatchInv, Tick
  PROVE  WatchInv'
<1>0. /\ alloc' = alloc /\ tpc' = tpc /\ cur' = cur /\ call' = call /\ signal' = signal
      /\ tpc = "wait" /\ signal = 0 /\ left # 0
      /\ left' = IF left # Forever THEN left - 1 ELSE left
      /\ \A c \in Client : call[c] = Idle
  BY DEF Tick, list, Prompt
<1>1. node \in [Cell -> NodeType] /\ alloc \subseteq Cell
  BY DEF IInv, Types
<1>2. AddedCells = {} /\ AddedCells' = {}
  BY <1>0, IdleType DEF AddedCells, Adding
<1>3. Timers = alloc /\ Timers' = alloc /\ Listed = alloc
  BY <1>0, <1>2, ListedTimers DEF Timers
<1>4. ~ Alerted
  BY <1>0, IdleType, SMTT(30) DEF Alerted
<1>5. \A x \in alloc : Live(x) => left <= node[x].due
  BY <1>0, <1>3, <1>4, SMTT(30) DEF WatchInv, Watch, Covers
<1>6. left \in Nat /\ left > 0 /\ Word \in Nat /\ Word > 0 /\ left <= Word - 1
  BY <1>0, ConstantTypes DEF IInv, Types, Forever
<1>7. ASSUME NEW x \in Cell
      PROVE  /\ node[x].due \in Int /\ node[x].store \in Int
             /\ node'[x].store = node[x].store
             /\ node'[x].status = node[x].status /\ node'[x].times = node[x].times
             /\ node'[x].due = IF x \in alloc /\ node[x].status = "enable"
                               THEN node[x].due - 1 ELSE node[x].due
  <2>1. node[x] \in NodeType
    BY <1>1
  <2>2. node'[x] = IF x \in alloc /\ node[x].status = "enable"
                   THEN [node[x] EXCEPT !.due = node[x].due - 1] ELSE node[x]
    BY <1>3, Zenon DEF Tick, Running
  <2>3. node[x].due \in Int /\ node[x].store \in Int
    BY <2>1, NodeFields, SMTT(30)
  <2> QED
    BY <2>1, <2>2, <2>3 DEF NodeType
<1>8. Dues'
  <2>1. ASSUME NEW x \in Cell PROVE 2 * node'[x].due < Word /\ 2 * node'[x].store < Word
    <3>1. 2 * node[x].due < Word /\ 2 * node[x].store < Word
      BY DEF WatchInv, Dues, Short
    <3> QED
      BY <1>6, <1>7, <3>1
  <2>2. ASSUME NEW x \in alloc, node'[x].times # 0
        PROVE  IF node'[x].status = "enable" THEN node'[x].due >= 0 ELSE node'[x].store >= 0
    <3>1. x \in Cell
      BY <1>1
    <3>2. CASE node[x].status = "enable"
      <4>1. left <= node[x].due
        BY <1>5, <1>7, <2>2, <3>1, <3>2, SMTT(30) DEF Live
      <4> QED
        BY <1>6, <1>7, <3>1, <3>2, <4>1, SMTT(30)
    <3>3. CASE node[x].status # "enable"
      BY <1>7, <2>2, <3>1, <3>3, SMTT(30) DEF WatchInv, Dues
    <3> QED
      BY <3>2, <3>3
  <2> QED
    BY <1>0, <2>1, <2>2, SMTT(30) DEF Dues, Short
<1>9. ASSUME NEW x \in alloc, Live(x)' PROVE left' <= node'[x].due
  <2>1. x \in Cell /\ Live(x) /\ node'[x].due = node[x].due - 1
    BY <1>1, <1>7, <1>9, SMTT(30) DEF Live
  <2>2. left <= node[x].due /\ node[x].due \in Int /\ 2 * node[x].due < Word
    BY <1>5, <1>7, <2>1 DEF WatchInv, Dues, Short
  <2>3. left # Forever
    BY <1>6, <2>2 DEF Forever
  <2> QED
    BY <1>0, <1>6, <2>1, <2>2, <2>3, SMTT(30)
<1>10. Covers({}, left)'
  BY <1>3, <1>9, SMTT(30) DEF Covers
<1> QED
  BY <1>0, <1>8, <1>10 DEF WatchInv, Watch

-----------------------------------------------------------------------------
(* The thread is punctual                                                  *)

\* Before the first call there is no timer.
LEMMA WatchInit == Init => WatchInv
<1> SUFFICES ASSUME Init PROVE WatchInv
  OBVIOUS
<1>1. Word \in Nat /\ Word > 0
  BY ConstantTypes
<1>2. \A x \in Cell : node[x].due = 0 /\ node[x].store = 0
  BY Zenon DEF Init, Blank
<1>3. alloc = {} /\ tpc = "start"
  BY DEF Init
<1> QED
  BY <1>1, <1>2, <1>3 DEF WatchInv, Watch, Dues, Short

\* Every step keeps the watch.
LEMMA WatchStep ==
  ASSUME Prompt, IInv, WatchInv, [Next]_vars
  PROVE  WatchInv'
<1>1. CASE ThreadStep
  <2>1. CASE HandlerReturns
    BY <2>1, HandlerWatches
  <2>2. CASE SweepNode
    BY <2>2, SweepWatches
  <2>3. CASE ~ HandlerReturns /\ ~ SweepNode
    <3>1. \/ Start \/ ScanRead \/ ScanLock \/ ScanNode \/ ScanEnd \/ Sleep \/ Wake
          \/ Check \/ TickLock \/ TickNode \/ TickEnd \/ SweepEnd
      BY <1>1, <2>3, Zenon DEF ThreadStep
    <3> QED
      BY <3>1, ThreadWatches, Zenon
  <2> QED
    BY <2>1, <2>2, <2>3
<1>2. ASSUME NEW c \in Client, CallCreate(c) \/ CallOther(c) \/ CallStep(c)
      PROVE  WatchInv'
  <2>1. CASE CallCreate(c)
    BY <2>1, CreateWatches
  <2>2. CASE CallOther(c) \/ Lock(c) \/ Give(c)
    BY <2>2, OutsideWatches, Zenon
  <2>3. CASE add_timer(c)
    BY <2>3, AddWatches
  <2>4. CASE Destroy(c)
    BY <2>4, DestroyWatches
  <2>5. CASE Change(c)
    BY <2>5, ChangeWatches, SMTT(30)
  <2>6. CASE NotFound(c)
    BY <2>6, NotFoundWatches
  <2> QED
    BY <1>2, <2>1, <2>2, <2>3, <2>4, <2>5, <2>6, Zenon DEF CallStep
<1>3. CASE ExitRelease
  BY <1>3, ReleaseWatches
<1>4. CASE ExitStep
  BY <1>4, ExitWatches
<1>5. CASE Tick
  BY <1>5, TickWatches
<1>6. CASE UNCHANGED vars
  <2>1. /\ node' = node /\ alloc' = alloc /\ timeout' = timeout /\ call' = call
        /\ tpc' = tpc /\ cur' = cur /\ min' = min /\ left' = left /\ signal' = signal
    BY <1>6 DEF vars
  <2>2. AddedCells' = AddedCells /\ (Alerted => Alerted')
    BY <2>1 DEF AddedCells, Adding, Alerted
  <2> QED
    BY <2>1, <2>2, QuietWatches, Zenon
<1> QED
  BY <1>1, <1>2, <1>3, <1>4, <1>5, <1>6, Zenon DEF Next, Exited

\* The watch is what Punctual says.
LEMMA WatchPunctual == IInv /\ WatchInv => Punctual
<1> SUFFICES ASSUME IInv, WatchInv, tpc = "wait", NEW x \in Listed,
                    node[x].status = "enable", node[x].times # 0
             PROVE  \/ signal > 0 \/ \E c \in Client : call[c].at = "give"
                    \/ left = 0 \/ (left <= node[x].due)
  BY DEF Punctual
<1>1. x \in Timers
  BY ListedTimers
<1> QED
  BY <1>1 DEF WatchInv, Watch, Alerted, Covers, Live

\* As long as handlers take no time and no call sets the time of a timer on the list,
\* a sleeping timer thread wakes no later than the first running timer is due, or has
\* a signal to wake it: what find_min_timeout computed stays right while timers are
\* created, destroyed, enabled and disabled, also in the middle of its walk.
THEOREM PunctualHolds ==
  ASSUME Prompt
  PROVE  Spec => []Punctual
<1>1. ~ Preempt
  BY DEF Prompt
<1>2. IInv /\ [Next]_vars => IInv'
  BY <1>1, InvStep, ListedIsChain DEF WalkFollows
<1>3. IInv /\ WatchInv /\ [Next]_vars => WatchInv'
  BY WatchStep
<1> QED
  BY <1>2, <1>3, InvInit, WatchInit, WatchPunctual, PTL DEF Spec
=============================================================================
