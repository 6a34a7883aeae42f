----------------------------- MODULE SwTimerInv -----------------------------
(***************************************************************************)
(* The inductive invariant of the timers of swapi, for any pool of cells,  *)
(* any clients, calls, intervals and words, and that every step keeps it;  *)
(* and the invariant about the thread's sleep, with lemmas about its scan. *)
(* A client is not preempted in its critical section (~ Preempt), as in    *)
(* the runs: find_min_timeout releases a mutex it may no longer hold.      *)
(***************************************************************************)
EXTENDS SwTimer, TLAPS

-----------------------------------------------------------------------------
(* The invariant                                                           *)

Place == {"start", "read", "lock", "scan", "sleep", "wait", "check", "lock2", "tick",
          "handler", "sweep", "ended"}
Walking == {"tick", "handler", "sweep"}
Count == Nat \cup {-1}
Status == {"enable", "disable"}

\* What a cell and a call hold.
NodeType ==
  [interval : Intervals \cup {0}, times : Count, orig : Count, due : Int, store : Int,
   status : Status, param : {"junk", "given"}, next : Pointer, prev : Pointer]
CallType ==
  [op : Ops \cup {"idle"}, at : {"idle", "lock", "in", "give"}, cell : Pointer,
   interval : Intervals \cup {0}, times : Count]

\* The variables have their types, and a call that is under way has a cell.
Types ==
  /\ node \in [Cell -> NodeType]
  /\ alloc \subseteq Cell /\ head \in Pointer /\ tail \in Pointer
  /\ mutex \in {"free", "locked"} /\ signal \in 0..1
  /\ timeout \in 0..Forever /\ min \in 0..Forever /\ left \in 0..Forever
  /\ exit \in {"no", "released", "flag", "give", "done"}
  /\ tpc \in Place /\ cur \in Pointer
  /\ call \in [Client -> CallType]
  /\ \A c \in Client : call[c].at \in {"lock", "in"} => call[c].cell \in Cell

\* Who is in a critical section: at most one client, or the thread where it
\* walks over the list; and from sw_timer_exit on no client at all.
Locks ==
  /\ \A c \in Client : call[c].at = "in" => mutex = "locked" /\ tpc \notin Walking
  /\ \A c, d \in Client : call[c].at = "in" /\ call[d].at = "in" => c = d
  /\ tpc \in Walking => mutex = "locked"
  /\ exit # "no" => \A c \in Client : call[c].at = "idle"

\* The list has the n cells of w, in this order.
Chain(n, w) ==
  /\ \A i, j \in 1..n : w[i] = w[j] => i = j
  /\ head = IF n = 0 THEN NULL ELSE w[1]
  /\ tail = IF n = 0 THEN NULL ELSE w[n]
  /\ \A i \in 1..n :
       /\ node[w[i]].next = IF i = n THEN NULL ELSE w[i + 1]
       /\ node[w[i]].prev = IF i = 1 THEN NULL ELSE w[i - 1]

Cells(n, w) == {w[i] : i \in 1..n}

\* The call c is going to add its cell to the list.
Adding(c) == call[c].op = "create" /\ call[c].at \in {"lock", "in"}
AddedCells == {call[c].cell : c \in {d \in Client : Adding(d)}}

\* The allocated cells are those on the list, L, and those to be added, each by one
\* call; the thread walks over cells of the list.
Members(L) ==
  /\ alloc = L \cup AddedCells
  /\ \A c \in Client : Adding(c) => call[c].cell \notin L
  /\ \A c, d \in Client : Adding(c) /\ Adding(d) /\ call[c].cell = call[d].cell => c = d
  /\ tpc \in Walking => cur \in L \cup {NULL}
  /\ tpc = "handler" => cur # NULL

ListInv == \E n \in Nat : \E w \in [1..n -> Cell] : Chain(n, w) /\ Members(Cells(n, w))

IInv == Types /\ Locks /\ ListInv

\* Following next from the head leads over the chain; SwTimerProofs shows it.
WalkFollows ==
  \A n \in Nat : \A w \in [1..n -> Cell] :
    Chain(n, w) => Listed = Cells(n, w)

-----------------------------------------------------------------------------
(* What the steps write into the cells                                     *)

\* Two contents of a cell that differ in the links only.
SameTimer(n, m) ==
  /\ n.interval = m.interval /\ n.times = m.times /\ n.orig = m.orig /\ n.due = m.due
  /\ n.store = m.store /\ n.status = m.status /\ n.param = m.param
SameLinks(n, m) == n.next = m.next /\ n.prev = m.prev

\* The constants as the proofs use them.
LEMMA ConstantTypes ==
  /\ \A i \in Intervals \cup {0} : i \in Nat
  /\ \A t \in Times : t \in Count
  /\ Word \in Nat /\ Word > 0 /\ MaxLate \in Nat
BY TimeAssumption DEF Count

\* What the fields of a cell hold.
LEMMA NodeFields ==
  ASSUME NEW n \in NodeType
  PROVE  /\ n.interval \in Nat /\ n.times \in Count /\ n.times \in Int
         /\ n.due \in Int /\ n.store \in Int /\ n.status \in Status
         /\ n.next \in Pointer /\ n.prev \in Pointer /\ n.interval \in Intervals \cup {0}
<1>1. /\ n.interval \in Intervals \cup {0} /\ n.times \in Count /\ n.due \in Int
      /\ n.store \in Int /\ n.status \in Status /\ n.next \in Pointer /\ n.prev \in Pointer
  BY Zenon DEF NodeType
<1>2. n.times \in Int
  BY <1>1 DEF Count
<1> QED
  BY <1>1, <1>2, ConstantTypes, Zenon

\* A firing keeps the links and the status of its timer.
LEMMA FiredFields ==
  ASSUME NEW n \in NodeType
  PROVE  /\ Fired(n) \in NodeType /\ SameLinks(Fired(n), n)
         /\ Fired(n).status = n.status /\ Fired(n).store = n.store
         /\ Fired(n).times = IF n.times > 0 THEN n.times - 1 ELSE n.times
         /\ Fired(n).due = IF n.times > 0 /\ ~ n.times > 1 THEN n.due ELSE n.due + n.interval
<1>1. /\ n.times \in Count /\ n.times \in Int /\ n.due \in Int /\ n.interval \in Nat
      /\ n.due + n.interval \in Int
  BY NodeFields
<1>2. CASE n.times > 0
  <2>1. n.times - 1 \in Count
    BY <1>1, <1>2 DEF Count
  <2>2. CASE n.times > 1
    <3>1. Fired(n) = [n EXCEPT !.times = n.times - 1, !.due = n.due + n.interval]
      BY <1>2, <2>2, Zenon DEF Fired
    <3> QED
      BY <1>1, <1>2, <2>1, <2>2, <3>1, Zenon DEF NodeType, SameLinks
  <2>3. CASE ~ n.times > 1
    <3>1. Fired(n) = [n EXCEPT !.times = n.times - 1, !.due = n.due]
      BY <1>2, <2>3, Zenon DEF Fired
    <3> QED
      BY <1>1, <1>2, <2>1, <2>3, <3>1, Zenon DEF NodeType, SameLinks
  <2> QED
    BY <2>2, <2>3
<1>3. CASE ~ n.times > 0
  <2>1. ~ n.times > 1
    BY <1>1, <1>3 DEF Count
  <2> QED
    BY <1>1, <1>3, <2>1 DEF Fired, NodeType, SameLinks
<1> QED
  BY <1>2, <1>3

\* Creating a timer in a cell keeps what its links hold.
LEMMA NewFields ==
  ASSUME NEW n \in NodeType, NEW i \in Intervals, NEW t \in Times
  PROVE  /\ New(n, i, t) \in NodeType /\ SameLinks(New(n, i, t), n)
         /\ New(n, i, t).status = "enable" /\ New(n, i, t).due = i
         /\ New(n, i, t).store = n.store /\ New(n, i, t).times = t
<1>1. i \in Int /\ t \in Count
  BY ConstantTypes
<1> QED
  BY <1>1, Zenon DEF New, NodeType, SameLinks, Status

\* So do the calls that change a timer.
LEMMA ChangedFields ==
  ASSUME NEW n \in NodeType, NEW r \in CallType
  PROVE  Changed(n, r) \in NodeType /\ SameLinks(Changed(n, r), n)
<1>0. r.times \in Count /\ r.interval \in Intervals \cup {0}
  BY Zenon DEF CallType
<1>1. r.interval \in Int /\ r.times \in Count /\ r.interval \in Intervals \cup {0}
  BY <1>0, ConstantTypes
<1>2. n.interval \in Int
  BY NodeFields
<1>3. CASE r.op = "reset"
  BY <1>2, <1>3, Zenon DEF Changed, NodeType, SameLinks, Status
<1>4. CASE r.op = "interval"
  BY <1>1, <1>4, Zenon DEF Changed, NodeType, SameLinks, Status
<1>5. CASE r.op = "disable" /\ n.status = "enable"
  BY <1>5, Zenon DEF Changed, NodeType, SameLinks, Status
<1>6. CASE r.op = "enable" /\ n.status = "disable"
  BY <1>6, Zenon DEF Changed, NodeType, SameLinks, Status
<1>7. CASE r.op = "handler"
  BY <1>7 DEF Changed, NodeType, SameLinks, Status
<1>8. CASE /\ r.op \notin {"reset", "interval", "handler"}
           /\ ~ (r.op = "disable" /\ n.status = "enable")
           /\ ~ (r.op = "enable" /\ n.status = "disable")
  BY <1>8 DEF Changed, SameLinks
<1> QED
  BY <1>3, <1>4, <1>5, <1>6, <1>7, <1>8

\* Append writes the links of the new cell and of the last one only.
LEMMA AppendFields ==
  ASSUME node \in [Cell -> NodeType], tail \in Pointer, NEW x \in Cell, x # tail,
         Append(x)
  PROVE  /\ node' \in [Cell -> NodeType]
         /\ \A y \in Cell :
              /\ SameTimer(node'[y], node[y])
              /\ node'[y].next = IF y = x THEN NULL ELSE IF y = tail THEN x ELSE node[y].next
              /\ node'[y].prev = IF y = x THEN tail ELSE node[y].prev
<1>1. x \in Pointer /\ NULL \in Pointer
  BY DEF Pointer
<1>2. node' = [y \in Cell |->
       CASE y = x -> [node[y] EXCEPT !.prev = tail, !.next = NULL]
         [] y = tail -> [node[y] EXCEPT !.next = x]
         [] OTHER -> node[y]]
  BY Zenon DEF Append
<1>3. ASSUME NEW y \in Cell
      PROVE  /\ node'[y] \in NodeType
             /\ SameTimer(node'[y], node[y])
             /\ node'[y].next = IF y = x THEN NULL ELSE IF y = tail THEN x ELSE node[y].next
             /\ node'[y].prev = IF y = x THEN tail ELSE node[y].prev
  <2>0. node[y] \in NodeType
    OBVIOUS
  <2>1. CASE y = x
    <3>1. node'[y] = [node[y] EXCEPT !.prev = tail, !.next = NULL]
      BY <1>2, <2>1, Zenon
    <3> QED
      BY <1>1, <2>0, <2>1, <3>1, Zenon DEF NodeType, SameTimer
  <2>2. CASE y # x /\ y = tail
    <3>1. node'[y] = [node[y] EXCEPT !.next = x]
      BY <1>2, <2>2, Zenon
    <3> QED
      BY <1>1, <2>0, <2>2, <3>1 DEF NodeType, SameTimer
  <2>3. CASE y # x /\ y # tail
    <3>1. node'[y] = node[y]
      BY <1>2, <2>3, Zenon
    <3> QED
      BY <2>0, <2>3, <3>1 DEF SameTimer
  <2> QED
    BY <2>1, <2>2, <2>3
<1> QED
  BY <1>2, <1>3, Zenon

\* delete_timer writes the links of the neighbours of the deleted cell only.
LEMMA DeleteFields ==
  ASSUME node \in [Cell -> NodeType], NEW x \in Cell, delete_timer(x),
         x # head /\ x # tail => node[x].prev # node[x].next
  PROVE  /\ node' \in [Cell -> NodeType]
         /\ \A y \in Cell :
              /\ SameTimer(node'[y], node[y])
              /\ node'[y].next = IF x # head /\ y = node[x].prev THEN node[x].next
                                 ELSE node[y].next
              /\ node'[y].prev = IF x # tail /\ y = node[x].next
                                 THEN (IF x = head THEN NULL ELSE node[x].prev)
                                 ELSE node[y].prev
<1>1. node[x].next \in Pointer /\ node[x].prev \in Pointer /\ NULL \in Pointer
  BY DEF Pointer, NodeType
<1>2. node' = [y \in Cell |->
     CASE x # head /\ y = node[x].prev -> [node[y] EXCEPT !.next = node[x].next]
       [] x # tail /\ y = node[x].next ->
            [node[y] EXCEPT !.prev = IF x = head THEN NULL ELSE node[x].prev]
       [] OTHER -> node[y]]
  BY DEF delete_timer, Relinked
<1>3. ASSUME NEW y \in Cell
      PROVE  /\ node'[y] \in NodeType
             /\ SameTimer(node'[y], node[y])
             /\ node'[y].next = IF x # head /\ y = node[x].prev THEN node[x].next
                                ELSE node[y].next
             /\ node'[y].prev = IF x # tail /\ y = node[x].next
                                THEN (IF x = head THEN NULL ELSE node[x].prev)
                                ELSE node[y].prev
  <2>0. node[y] \in NodeType
    OBVIOUS
  <2>1. CASE x # head /\ y = node[x].prev
    <3>1. node'[y] = [node[y] EXCEPT !.next = node[x].next]
      BY <1>2, <2>1
    <3>2. ~ (x # tail /\ y = node[x].next)
      BY <2>1
    <3> QED
      BY <1>1, <2>0, <2>1, <3>1, <3>2 DEF NodeType, SameTimer
  <2>2. CASE ~ (x # head /\ y = node[x].prev) /\ x # tail /\ y = node[x].next
    <3>1. node'[y] = [node[y] EXCEPT !.prev = IF x = head THEN NULL ELSE node[x].prev]
      BY <1>2, <2>2
    <3> QED
      BY <1>1, <2>0, <2>2, <3>1 DEF NodeType, SameTimer
  <2>3. CASE ~ (x # head /\ y = node[x].prev) /\ ~ (x # tail /\ y = node[x].next)
    <3>1. node'[y] = node[y]
      BY <1>2, <2>3
    <3> QED
      BY <2>0, <2>3, <3>1 DEF SameTimer
  <2> QED
    BY <2>1, <2>2, <2>3
<1> QED
  BY <1>2, <1>3

-----------------------------------------------------------------------------
(* What the steps make of the list                                         *)

\* A step that writes no link keeps the chain.
LEMMA ChainSame ==
  ASSUME NEW n \in Nat, NEW w \in [1..n -> Cell], Chain(n, w),
         head' = head, tail' = tail, \A y \in Cell : SameLinks(node'[y], node[y])
  PROVE  Chain(n, w)'
<1>1. \A i \in 1..n : w[i] \in Cell
  OBVIOUS
<1> QED
  BY <1>1 DEF Chain, SameLinks

\* The chain w with the cell x behind it.
Longer(n, w, x) == [i \in 1..n + 1 |-> IF i = n + 1 THEN x ELSE w[i]]

\* Append makes a chain that is longer by the new cell.
LEMMA ChainAppend ==
  ASSUME node \in [Cell -> NodeType], NEW n \in Nat, NEW w \in [1..n -> Cell], Chain(n, w),
         NEW x \in Cell, x \notin Cells(n, w), Append(x)
  PROVE  /\ Longer(n, w, x) \in [1..n + 1 -> Cell]
         /\ Chain(n + 1, Longer(n, w, x))'
         /\ Cells(n + 1, Longer(n, w, x)) = Cells(n, w) \cup {x}
<1> DEFINE v == Longer(n, w, x)
<1>1. v \in [1..n + 1 -> Cell] /\ v[n + 1] = x /\ \A i \in 1..n : v[i] = w[i] /\ w[i] \in Cell
  BY DEF Longer
<1> HIDE DEF v
<1>2. \A i \in 1..n : w[i] # x
  BY DEF Cells
<1>3. /\ head = IF n = 0 THEN NULL ELSE w[1]
      /\ tail = IF n = 0 THEN NULL ELSE w[n]
      /\ \A i, j \in 1..n : w[i] = w[j] => i = j
  BY DEF Chain
<1>4. /\ tail \in Pointer /\ x # tail
      /\ head = NULL <=> n = 0
  BY <1>1, <1>2, <1>3, CellAssumption DEF Pointer
<1>5. \A y \in Cell :
        /\ node'[y].next = IF y = x THEN NULL ELSE IF y = tail THEN x ELSE node[y].next
        /\ node'[y].prev = IF y = x THEN tail ELSE node[y].prev
  BY <1>4, AppendFields, ZenonT(60)
<1>6. head' = v[1] /\ tail' = v[n + 1]
  <2>1. head' = (IF n = 0 THEN x ELSE head) /\ tail' = x
    BY <1>4, Zenon DEF Append
  <2>2. v[1] = IF n = 0 THEN x ELSE w[1]
    BY <1>1
  <2> QED
    BY <1>1, <1>3, <2>1, <2>2
<1>7. \A i, j \in 1..n + 1 : v[i] = v[j] => i = j
  BY <1>1, <1>2, <1>3
<1>8. ASSUME NEW i \in 1..n + 1
      PROVE  /\ node'[v[i]].next = IF i = n + 1 THEN NULL ELSE v[i + 1]
             /\ node'[v[i]].prev = IF i = 1 THEN NULL ELSE v[i - 1]
  <2>1. CASE i = n + 1
    <3>1. node'[v[i]].next = NULL /\ node'[v[i]].prev = tail
      BY <1>1, <1>5, <2>1
    <3>2. i # 1 => n \in 1..n /\ i - 1 = n
      BY <2>1
    <3> QED
      BY <1>1, <1>3, <2>1, <3>1, <3>2
  <2>2. CASE i # n + 1
    <3>1. i \in 1..n /\ v[i] = w[i] /\ w[i] \in Cell /\ w[i] # x
      BY <1>1, <1>2, <2>2
    <3>2. /\ node[w[i]].next = IF i = n THEN NULL ELSE w[i + 1]
          /\ node[w[i]].prev = IF i = 1 THEN NULL ELSE w[i - 1]
      BY <3>1 DEF Chain
    <3>3. node'[v[i]].prev = node[w[i]].prev
      BY <1>5, <3>1
    <3>4. i # 1 => i - 1 \in 1..n
      BY <3>1
    <3>5. CASE i = n
      <4>1. w[i] = tail
        BY <1>3, <3>1, <3>5
      <4>2. node'[v[i]].next = x
        BY <1>5, <3>1, <4>1
      <4> QED
        BY <1>1, <3>1, <3>2, <3>3, <3>4, <3>5, <4>2
    <3>6. CASE i # n
      <4>1. i + 1 \in 1..n /\ n \in 1..n /\ n # 0
        BY <3>1, <3>6
      <4>2. w[i] # tail
        BY <1>3, <3>1, <3>6, <4>1
      <4>3. node'[v[i]].next = node[w[i]].next
        BY <1>5, <3>1, <4>2
      <4> QED
        BY <1>1, <3>1, <3>2, <3>3, <3>4, <3>6, <4>1, <4>3
    <3> QED
      BY <3>5, <3>6
  <2> QED
    BY <2>1, <2>2
<1>9. Chain(n + 1, v)'
  BY <1>6, <1>7, <1>8 DEF Chain
<1>10. Cells(n + 1, v) = Cells(n, w) \cup {x}
  <2>1. \A y \in Cells(n + 1, v) : y \in Cells(n, w) \cup {x}
    BY <1>1 DEF Cells
  <2>2. \A y \in Cells(n, w) \cup {x} : y \in Cells(n + 1, v)
    BY <1>1 DEF Cells
  <2> QED
    BY <2>1, <2>2
<1> QED
  BY <1>1, <1>9, <1>10 DEF v

\* The chain w without its i-th cell.
Shorter(n, w, i) == [j \in 1..n - 1 |-> IF j < i THEN w[j] ELSE w[j + 1]]

\* A chain without repetition stays one, and loses that cell only.
LEMMA ShorterFacts ==
  ASSUME NEW n \in Nat, NEW w \in [1..n -> Cell], \A j, k \in 1..n : w[j] = w[k] => j = k,
         NEW i \in 1..n
  PROVE  /\ Shorter(n, w, i) \in [1..n - 1 -> Cell] /\ n - 1 \in Nat
         /\ \A j \in 1..n - 1 : Shorter(n, w, i)[j] = IF j < i THEN w[j] ELSE w[j + 1]
         /\ \A j, k \in 1..n - 1 : Shorter(n, w, i)[j] = Shorter(n, w, i)[k] => j = k
         /\ Cells(n - 1, Shorter(n, w, i)) = Cells(n, w) \ {w[i]}
<1> DEFINE v == Shorter(n, w, i)
<1>0. n - 1 \in Nat /\ 1 \in 1..n /\ n \in 1..n /\ n # 0
  OBVIOUS
<1>1. /\ v \in [1..n - 1 -> Cell]
      /\ \A j \in 1..n - 1 : v[j] = IF j < i THEN w[j] ELSE w[j + 1]
      /\ \A j \in 1..n : w[j] \in Cell
  BY DEF Shorter
<1> HIDE DEF v
<1>2. \A j, k \in 1..n : w[j] = w[k] => j = k
  OBVIOUS
<1>3. \A j, k \in 1..n - 1 : v[j] = v[k] => j = k
  <2> SUFFICES ASSUME NEW j \in 1..n - 1, NEW k \in 1..n - 1, v[j] = v[k] PROVE j = k
    BY Zenon
  <2>1. j \in 1..n /\ j + 1 \in 1..n /\ k \in 1..n /\ k + 1 \in 1..n
    OBVIOUS
  <2>2. v[j] = (IF j < i THEN w[j] ELSE w[j + 1]) /\ v[k] = IF k < i THEN w[k] ELSE w[k + 1]
    BY <1>1
  <2>3. \A a, b \in 1..n : w[a] = w[b] => a = b
    BY <1>2
  <2>4. CASE j < i /\ k < i
    <3>1. w[j] = w[k]
      BY <2>2, <2>4, Zenon
    <3>2. j = k
      BY <2>1, <2>3, <3>1, Zenon
    <3> QED
      BY <2>1, <2>4, <3>2
  <2>5. CASE j < i /\ ~ k < i
    <3>1. w[j] = w[k + 1]
      BY <2>2, <2>5, Zenon
    <3>2. j = k + 1
      BY <2>1, <2>3, <3>1, Zenon
    <3> QED
      BY <2>1, <2>5, <3>2
  <2>6. CASE ~ j < i /\ k < i
    <3>1. w[j + 1] = w[k]
      BY <2>2, <2>6, Zenon
    <3>2. j + 1 = k
      BY <2>1, <2>3, <3>1, Zenon
    <3> QED
      BY <2>1, <2>6, <3>2
  <2>7. CASE ~ j < i /\ ~ k < i
    <3>1. w[j + 1] = w[k + 1]
      BY <2>2, <2>7, Zenon
    <3>2. j + 1 = k + 1
      BY <2>1, <2>3, <3>1, Zenon
    <3> QED
      BY <2>1, <2>7, <3>2
  <2> QED
    BY <2>4, <2>5, <2>6, <2>7
<1>4. Cells(n - 1, v) = Cells(n, w) \ {w[i]}
  <2>1. ASSUME NEW j \in 1..n - 1 PROVE v[j] \in Cells(n, w) \ {w[i]}
    <3>1. j \in 1..n /\ j + 1 \in 1..n
      OBVIOUS
    <3> QED
      BY <1>1, <1>2, <3>1 DEF Cells
  <2>2. ASSUME NEW j \in 1..n, j # i PROVE w[j] \in Cells(n - 1, v)
    <3>1. CASE j < i
      BY <1>1, <2>2, <3>1 DEF Cells
    <3>2. CASE ~ j < i
      <4>1. j - 1 \in 1..n - 1 /\ v[j - 1] = w[j]
        BY <1>1, <2>2, <3>2
      <4> QED
        BY <4>1 DEF Cells
    <3> QED
      BY <3>1, <3>2
  <2> QED
    BY <2>1, <2>2 DEF Cells
<1> QED
  BY <1>0, <1>1, <1>3, <1>4 DEF v

\* The cells of a chain without one of them.
LEMMA ShorterCells ==
  ASSUME NEW n \in Nat, NEW w \in [1..n -> Cell], Chain(n, w), NEW i \in 1..n
  PROVE  Cells(n - 1, Shorter(n, w, i)) = Cells(n, w) \ {w[i]}
<1>1. \A j, k \in 1..n : w[j] = w[k] => j = k
  BY DEF Chain
<1> QED
  BY <1>1, ShorterFacts, SMTT(30)

\* delete_timer makes a chain that is shorter by the deleted cell.
LEMMA ChainDelete ==
  ASSUME node \in [Cell -> NodeType], NEW n \in Nat, NEW w \in [1..n -> Cell], Chain(n, w),
         NEW i \in 1..n, delete_timer(w[i])
  PROVE  /\ Shorter(n, w, i) \in [1..n - 1 -> Cell] /\ n - 1 \in Nat
         /\ Chain(n - 1, Shorter(n, w, i))'
         /\ Cells(n - 1, Shorter(n, w, i)) = Cells(n, w) \ {w[i]}
         /\ node' \in [Cell -> NodeType]
         /\ \A y \in Cell : SameTimer(node'[y], node[y])
         /\ \A y \in Cell : node'[y].next = IF i # 1 /\ y = w[i - 1] THEN node[w[i]].next
                                            ELSE node[y].next
<1> DEFINE v == Shorter(n, w, i)
<1>0. n - 1 \in Nat /\ 1 \in 1..n /\ n \in 1..n /\ n # 0
  OBVIOUS
<1>a. /\ v \in [1..n - 1 -> Cell] /\ \A j \in 1..n - 1 : v[j] = IF j < i THEN w[j] ELSE w[j + 1]
      /\ \A j, k \in 1..n - 1 : v[j] = v[k] => j = k
      /\ Cells(n - 1, v) = Cells(n, w) \ {w[i]}
  <2>1. \A j, k \in 1..n : w[j] = w[k] => j = k
    BY DEF Chain
  <2> QED
    BY <2>1, ShorterFacts, SMTT(30)
<1>1. /\ v \in [1..n - 1 -> Cell]
      /\ \A j \in 1..n - 1 : v[j] = IF j < i THEN w[j] ELSE w[j + 1]
      /\ \A j \in 1..n : w[j] \in Cell
  BY <1>a
<1> HIDE DEF v
<1>2. /\ head = w[1] /\ tail = w[n]
      /\ \A j, k \in 1..n : w[j] = w[k] => j = k
      /\ \A j \in 1..n :
           /\ node[w[j]].next = IF j = n THEN NULL ELSE w[j + 1]
           /\ node[w[j]].prev = IF j = 1 THEN NULL ELSE w[j - 1]
  BY <1>0 DEF Chain
<1>3. (w[i] = head <=> i = 1) /\ (w[i] = tail <=> i = n)
  BY <1>0, <1>2
<1>4. w[i] # head /\ w[i] # tail => node[w[i]].prev # node[w[i]].next
  <2>1. i # 1 /\ i # n => i - 1 \in 1..n /\ i + 1 \in 1..n /\ i - 1 # i + 1
    OBVIOUS
  <2> QED
    BY <1>2, <1>3, <2>1
<1>5. /\ node' \in [Cell -> NodeType]
      /\ \A y \in Cell :
           /\ SameTimer(node'[y], node[y])
           /\ node'[y].next = IF w[i] # head /\ y = node[w[i]].prev THEN node[w[i]].next
                              ELSE node[y].next
           /\ node'[y].prev = IF w[i] # tail /\ y = node[w[i]].next
                              THEN (IF w[i] = head THEN NULL ELSE node[w[i]].prev)
                              ELSE node[y].prev
  <2>1. w[i] \in Cell
    OBVIOUS
  <2> QED
    BY <1>4, <2>1, DeleteFields, Zenon
<1>6. \A j \in 1..n :
        /\ node'[w[j]].next = IF i # 1 /\ j = i - 1 THEN (IF i = n THEN NULL ELSE w[i + 1])
                              ELSE (IF j = n THEN NULL ELSE w[j + 1])
        /\ node'[w[j]].prev = IF i # n /\ j = i + 1 THEN (IF i = 1 THEN NULL ELSE w[i - 1])
                              ELSE (IF j = 1 THEN NULL ELSE w[j - 1])
  <2> SUFFICES ASSUME NEW j \in 1..n
        PROVE
        /\ node'[w[j]].next = IF i # 1 /\ j = i - 1 THEN (IF i = n THEN NULL ELSE w[i + 1])
                              ELSE (IF j = n THEN NULL ELSE w[j + 1])
        /\ node'[w[j]].prev = IF i # n /\ j = i + 1 THEN (IF i = 1 THEN NULL ELSE w[i - 1])
                              ELSE (IF j = 1 THEN NULL ELSE w[j - 1])
    BY Zenon
  <2>1. (w[i] # head /\ w[j] = node[w[i]].prev) <=> (i # 1 /\ j = i - 1)
    <3>1. i # 1 => i - 1 \in 1..n
      OBVIOUS
    <3> QED
      BY <1>2, <1>3, <3>1
  <2>2. (w[i] # tail /\ w[j] = node[w[i]].next) <=> (i # n /\ j = i + 1)
    <3>1. i # n => i + 1 \in 1..n
      OBVIOUS
    <3> QED
      BY <1>2, <1>3, <3>1
  <2>3. w[j] \in Cell
    OBVIOUS
  <2> QED
    BY <1>2, <1>3, <1>5, <2>1, <2>2, <2>3
<1>7. /\ head' = IF n - 1 = 0 THEN NULL ELSE v[1]
      /\ tail' = IF n - 1 = 0 THEN NULL ELSE v[n - 1]
  <2>1. head' = IF i = 1 THEN (IF i = n THEN NULL ELSE w[2]) ELSE w[1]
    BY <1>0, <1>2, <1>3 DEF delete_timer
  <2>2. tail' = IF i = n THEN (IF i = 1 THEN NULL ELSE w[n - 1]) ELSE w[n]
    BY <1>0, <1>2, <1>3 DEF delete_timer
  <2> QED
    BY <1>0, <1>1, <2>1, <2>2, SMTT(30)
<1>8. \A j, k \in 1..n - 1 : v[j] = v[k] => j = k
  BY <1>a
<1>9. ASSUME NEW j \in 1..n - 1
      PROVE  /\ node'[v[j]].next = IF j = n - 1 THEN NULL ELSE v[j + 1]
             /\ node'[v[j]].prev = IF j = 1 THEN NULL ELSE v[j - 1]
  <2>0. /\ j \in 1..n /\ j + 1 \in 1..n
        /\ j # n - 1 => j + 1 \in 1..n - 1
        /\ j # 1 => j - 1 \in 1..n - 1
    OBVIOUS
  <2>1. CASE j < i
    <3>1. v[j] = w[j]
      BY <1>1, <2>1
    <3>2. node'[v[j]].next = IF j = n - 1 THEN NULL ELSE v[j + 1]
      <4>1. node'[w[j]].next = IF j = i - 1 THEN (IF i = n THEN NULL ELSE w[i + 1])
                               ELSE w[j + 1]
        BY <1>6, <2>0, <2>1
      <4>2. CASE j = n - 1
        BY <2>1, <3>1, <4>1, <4>2
      <4>3. CASE j # n - 1
        <5>1. v[j + 1] = IF j + 1 < i THEN w[j + 1] ELSE w[j + 1 + 1]
          BY <1>1, <2>0, <4>3
        <5> QED
          BY <2>1, <3>1, <4>1, <4>3, <5>1
      <4> QED
        BY <4>2, <4>3
    <3>3. node'[v[j]].prev = IF j = 1 THEN NULL ELSE v[j - 1]
      BY <1>1, <1>6, <2>0, <2>1, <3>1
    <3> QED
      BY <3>2, <3>3
  <2>2. CASE ~ j < i
    <3>1. v[j] = w[j + 1]
      BY <1>1, <2>2
    <3>2. node'[v[j]].next = IF j = n - 1 THEN NULL ELSE v[j + 1]
      BY <1>1, <1>6, <2>0, <2>2, <3>1
    <3>3. node'[v[j]].prev = IF j = 1 THEN NULL ELSE v[j - 1]
      BY <1>1, <1>6, <2>0, <2>2, <3>1, SMTT(30)
    <3> QED
      BY <3>2, <3>3
  <2> QED
    BY <2>1, <2>2
<1>10. Chain(n - 1, v)'
  BY <1>7, <1>8, <1>9 DEF Chain
<1>11. Cells(n - 1, v) = Cells(n, w) \ {w[i]}
  BY <1>a, SMTT(30)
<1>12. \A y \in Cell : node'[y].next = IF i # 1 /\ y = w[i - 1] THEN node[w[i]].next
                                       ELSE node[y].next
  BY <1>2, <1>3, <1>5
<1> QED
  BY <1>0, <1>1, <1>5, <1>10, <1>11, <1>12 DEF v

-----------------------------------------------------------------------------
(* The steps of the timer thread                                           *)

\* The thread does not run inside the critical section of a client.
LEMMA LocksThread ==
  ASSUME Locks, ~ Preempt, ThreadMayRun, call' = call, exit' = exit,
         tpc' \in Walking => mutex' = "locked"
  PROVE  Locks'
BY DEF Locks, ThreadMayRun

\* A step that neither adds nor deletes a timer: the list and its members stay, when
\* the thread goes on to the head, stays where it is or goes to the next timer.
LEMMA ListSame ==
  ASSUME ListInv, head' = head, tail' = tail, alloc' = alloc,
         \A y \in Cell : SameLinks(node'[y], node[y]),
         \A c \in Client : /\ Adding(c)' <=> Adding(c)
                           /\ Adding(c) => call'[c].cell = call[c].cell,
         tpc' \in Walking =>
           \/ cur' = head
           \/ tpc \in Walking /\ cur' = cur
           \/ tpc \in Walking /\ cur # NULL /\ cur' = node[cur].next,
         tpc' = "handler" => cur' # NULL
  PROVE  ListInv'
<1>1. PICK n \in Nat : \E w \in [1..n -> Cell] : Chain(n, w) /\ Members(Cells(n, w))
  BY DEF ListInv
<1>2. PICK w \in [1..n -> Cell] : Chain(n, w) /\ Members(Cells(n, w))
  BY <1>1
<1>3. Chain(n, w)'
  BY <1>2, ChainSame, Zenon
<1>4. head \in Cells(n, w) \cup {NULL}
  <2>1. n # 0 => 1 \in 1..n
    OBVIOUS
  <2> QED
    BY <1>2, <2>1 DEF Chain, Cells
<1>5. ASSUME NEW x \in Cells(n, w) PROVE node[x].next \in Cells(n, w) \cup {NULL}
  <2>1. PICK i \in 1..n : x = w[i]
    BY DEF Cells
  <2>2. i # n => i + 1 \in 1..n
    OBVIOUS
  <2> QED
    BY <1>2, <2>1, <2>2 DEF Chain, Cells
<1>6. AddedCells' = AddedCells
  BY Zenon DEF AddedCells
<1>7. tpc' \in Walking => cur' \in Cells(n, w) \cup {NULL}
  BY <1>2, <1>4, <1>5, SMTT(30) DEF Members
<1>8. Members(Cells(n, w))'
  <2> DEFINE L == Cells(n, w)
  <2>1. alloc' = L \cup AddedCells'
    BY <1>2, <1>6 DEF Members
  <2>2. \A c \in Client : Adding(c)' => call'[c].cell \notin L
    BY <1>2 DEF Members
  <2>3. \A c, d \in Client : Adding(c)' /\ Adding(d)' /\ call'[c].cell = call'[d].cell => c = d
    BY <1>2 DEF Members
  <2>4. L' = L
    BY DEF Cells
  <2> QED
    BY <1>7, <2>1, <2>2, <2>3, <2>4, SMTT(30) DEF Members
<1> QED
  BY <1>3, <1>8 DEF ListInv

\* Nothing changes in the cells.
LEMMA LinksStay ==
  ASSUME node' = node
  PROVE  \A y \in Cell : SameLinks(node'[y], node[y])
BY DEF SameLinks

\* No call starts or ends.
LEMMA CallsStay ==
  ASSUME call' = call
  PROVE  \A c \in Client : /\ Adding(c)' <=> Adding(c)
                           /\ Adding(c) => call'[c].cell = call[c].cell
BY DEF Adding

\* A difference of ticks as an unsigned long is in its range.
LEMMA UnsignedType ==
  ASSUME NEW d \in Int
  PROVE  Unsigned(d) \in 0..Forever
BY ConstantTypes DEF Unsigned, Forever

\* The steps of the thread that write only its own variables, the time-out, the
\* signal and the mutex.
LEMMA ThreadMoves ==
  ASSUME IInv, ~ Preempt, ThreadMayRun,
         UNCHANGED <<node, list, exit, call>>,
         mutex' \in {"free", "locked"}, signal' \in 0..1, timeout' \in 0..Forever,
         min' \in 0..Forever, left' \in 0..Forever, tpc' \in Place,
         tpc' \in Walking => mutex' = "locked",
         cur' = cur \/ cur' = head \/ (cur # NULL /\ cur' = node[cur].next),
         tpc' \in Walking /\ tpc \notin Walking => cur' = head,
         tpc' = "handler" => cur' # NULL
  PROVE  IInv'
<1>1. cur' \in Pointer
  <2>1. cur # NULL => cur \in Cell /\ node[cur] \in NodeType
    BY DEF IInv, Types, Pointer
  <2>2. cur # NULL => node[cur].next \in Pointer
    BY <2>1, NodeFields
  <2> QED
    BY <2>2 DEF IInv, Types
<1>2. Types'
  BY <1>1, Zenon DEF IInv, Types, list
<1>3. Locks'
  BY LocksThread, Zenon DEF IInv
<1>4. ListInv'
  <2>1. /\ \A y \in Cell : SameLinks(node'[y], node[y])
        /\ \A c \in Client : /\ Adding(c)' <=> Adding(c)
                             /\ Adding(c) => call'[c].cell = call[c].cell
    BY LinksStay, CallsStay, Zenon
  <2>2. head' = head /\ tail' = tail /\ alloc' = alloc
    BY DEF list
  <2>3. tpc' \in Walking =>
           \/ cur' = head
           \/ tpc \in Walking /\ cur' = cur
           \/ tpc \in Walking /\ cur # NULL /\ cur' = node[cur].next
    BY Zenon
  <2> QED
    BY <2>1, <2>2, <2>3, ListSame, Zenon DEF IInv
<1> QED
  BY <1>2, <1>3, <1>4 DEF IInv

\* Every step of the thread but the firing and the sweep of a timer.
LEMMA ThreadKeeps ==
  ASSUME IInv, ~ Preempt,
         \/ Start \/ ScanRead \/ ScanLock \/ ScanNode \/ ScanEnd \/ Sleep \/ Wake
         \/ Check \/ TickLock \/ TickNode \/ TickEnd \/ SweepEnd
  PROVE  IInv'
<1>0. /\ mutex \in {"free", "locked"} /\ signal \in 0..1 /\ timeout \in 0..Forever
      /\ min \in 0..Forever /\ left \in 0..Forever /\ tpc \in Place
      /\ tpc \in Walking => mutex = "locked"
  BY DEF IInv, Types, Locks
<1>a. Forever \in 0..Forever
  BY ConstantTypes DEF Forever
<1>1. CASE Start
  BY <1>0, <1>a, <1>1, ThreadMoves DEF Start, At, Place, Walking
<1>2. CASE ScanRead
  BY <1>0, <1>2, ThreadMoves DEF ScanRead, At, Place, Walking
<1>3. CASE ScanLock
  BY <1>0, <1>3, ThreadMoves DEF ScanLock, At, Place, Walking
<1>4. CASE ScanNode
  <2>1. cur \in Cell /\ node[cur] \in NodeType
    BY <1>4 DEF IInv, Types, Pointer, ScanNode
  <2>2. Unsigned(node[cur].due) \in 0..Forever
    BY <2>1, NodeFields, UnsignedType
  <2>3. min' \in 0..Forever /\ mutex' \in {"free", "locked"}
    BY <1>0, <1>4, <2>2 DEF ScanNode
  <2> QED
    BY <1>0, <1>4, <2>3, ThreadMoves DEF ScanNode, At, Place, Walking
<1>5. CASE ScanEnd
  BY <1>0, <1>a, <1>5, ThreadMoves DEF ScanEnd, At, Place, Walking
<1>6. CASE Sleep
  <2>1. left' \in 0..Forever
    BY <1>0, <1>a, <1>6 DEF Sleep
  <2> QED
    BY <1>0, <1>6, <2>1, ThreadMoves DEF Sleep, At, Place, Walking
<1>7. CASE Wake
  <2>1. signal' \in 0..1
    BY <1>0, <1>7 DEF Wake
  <2> QED
    BY <1>0, <1>a, <1>7, <2>1, ThreadMoves DEF Wake, At, Place, Walking
<1>8. CASE Check
  <2>1. tpc' \in {"ended", "lock2"}
    BY <1>8 DEF Check
  <2> QED
    BY <1>0, <1>8, <2>1, ThreadMoves DEF Check, At, Place, Walking
<1>9. CASE TickLock
  BY <1>0, <1>9, ThreadMoves DEF TickLock, At, Place, Walking
<1>10. CASE TickNode
  <2>1. tpc' \in {"handler", "tick"} /\ (cur' = cur \/ cur' = node[cur].next)
        /\ (tpc' = "handler" => cur' # NULL)
    BY <1>10 DEF TickNode
  <2> QED
    BY <1>0, <1>10, <2>1, ThreadMoves DEF TickNode, At, Place, Walking
<1>11. CASE TickEnd
  BY <1>0, <1>11, ThreadMoves DEF TickEnd, At, Place, Walking
<1>12. CASE SweepEnd
  BY <1>0, <1>12, ThreadMoves DEF SweepEnd, At, Place, Walking
<1> QED
  BY <1>1, <1>2, <1>3, <1>4, <1>5, <1>6, <1>7, <1>8, <1>9, <1>10, <1>11, <1>12, SMTT(30)

\* A deletion: the deleted cell leaves the list and is freed; a sweep goes on to the
\* timer behind it.
LEMMA DeleteKeeps ==
  ASSUME node \in [Cell -> NodeType], NEW n \in Nat, NEW w \in [1..n -> Cell],
         Chain(n, w), Members(Cells(n, w)), NEW i \in 1..n, delete_timer(w[i]),
         \A c \in Client : /\ Adding(c)' <=> Adding(c)
                           /\ Adding(c) => call'[c].cell = call[c].cell,
         tpc' \in Walking => cur' = node[w[i]].next, tpc' # "handler"
  PROVE  /\ node' \in [Cell -> NodeType]
         /\ head' \in Pointer /\ tail' \in Pointer /\ alloc' \subseteq alloc
         /\ ListInv'
<1> DEFINE L == Cells(n, w)
           v == Shorter(n, w, i)
           M == Cells(n - 1, v)
<1>1. /\ v \in [1..n - 1 -> Cell] /\ n - 1 \in Nat
      /\ Chain(n - 1, v)' /\ M = L \ {w[i]} /\ node' \in [Cell -> NodeType]
  <2>1. v \in [1..n - 1 -> Cell] /\ n - 1 \in Nat
    BY ChainDelete, ZenonT(60)
  <2>2. Chain(n - 1, v)'
    BY ChainDelete, ZenonT(60)
  <2>3. M = L \ {w[i]}
    BY ShorterCells, SMTT(30)
  <2>4. node' \in [Cell -> NodeType]
    BY ChainDelete, ZenonT(60)
  <2> QED
    BY <2>1, <2>2, <2>3, <2>4, Zenon
<1> HIDE DEF v
<1>2. head' \in Pointer /\ tail' \in Pointer
  <2>1. /\ head' = IF n - 1 = 0 THEN NULL ELSE v[1]
        /\ tail' = IF n - 1 = 0 THEN NULL ELSE v[n - 1]
    BY <1>1 DEF Chain
  <2>2. n - 1 # 0 => 1 \in 1..n - 1 /\ n - 1 \in 1..n - 1
    <3>1. n - 1 \in Nat
      BY <1>1, Zenon
    <3> QED
      BY <3>1
  <2> QED
    BY <1>1, <2>1, <2>2, Zenon DEF Pointer
<1>3. AddedCells' = AddedCells /\ w[i] \notin AddedCells /\ w[i] \in L
  <2>1. w[i] \in L
    BY DEF Cells
  <2>2. AddedCells' = AddedCells
    BY Zenon DEF AddedCells
  <2>3. \A c \in Client : Adding(c) => call[c].cell \notin L
    BY DEF Members
  <2>4. w[i] \notin AddedCells
    BY <2>1, <2>3, SMTT(30) DEF AddedCells
  <2> QED
    BY <2>1, <2>2, <2>4
<1>4. alloc' = M \cup AddedCells'
  <2>1. alloc = L \cup AddedCells
    BY DEF Members
  <2>2. alloc' = alloc \ {w[i]}
    BY Zenon DEF delete_timer
  <2> QED
    BY <1>1, <1>3, <2>1, <2>2, ZenonT(60)
<1>5. tpc' \in Walking => cur' \in M \cup {NULL}
  <2>1. node[w[i]].next = IF i = n THEN NULL ELSE w[i + 1]
    BY DEF Chain
  <2>2. i # n => i + 1 \in 1..n /\ w[i + 1] # w[i]
    BY DEF Chain
  <2>3. i # n => w[i + 1] \in L
    BY <2>2, SMTT(30) DEF Cells
  <2> QED
    BY <1>1, <2>1, <2>2, <2>3
<1>6. Members(M)'
  <2>1. \A c \in Client : Adding(c)' => call'[c].cell \notin M
    BY <1>1, ZenonT(60) DEF Members
  <2>2. \A c, d \in Client : Adding(c)' /\ Adding(d)' /\ call'[c].cell = call'[d].cell => c = d
    BY DEF Members
  <2>3. M' = M
    BY DEF Cells, v, Shorter
  <2> QED
    BY <1>4, <1>5, <2>1, <2>2, <2>3, ZenonT(60) DEF Members
<1>7. ListInv'
  BY <1>1, <1>6, Zenon DEF ListInv
<1> QED
  BY <1>1, <1>2, <1>7, Zenon DEF delete_timer

\* The firing of a timer keeps the invariant: it writes no link.
LEMMA HandlerKeeps ==
  ASSUME IInv, ~ Preempt, HandlerReturns
  PROVE  IInv'
<1>1. tpc = "handler" /\ tpc' = "tick" /\ ThreadMayRun /\ cur # NULL /\ cur \in Cell
      /\ node[cur] \in NodeType
  BY DEF IInv, ListInv, Members, Types, Pointer, HandlerReturns, At
<1>2. /\ node' \in [Cell -> NodeType] /\ \A y \in Cell : SameLinks(node'[y], node[y])
  <2>1. Fired(node[cur]) \in NodeType /\ SameLinks(Fired(node[cur]), node[cur])
    BY <1>1, FiredFields
  <2>2. node' = [node EXCEPT ![cur] = Fired(node[cur])]
    BY DEF HandlerReturns
  <2>3. node \in [Cell -> NodeType]
    BY DEF IInv, Types
  <2> HIDE DEF NodeType, SameLinks
  <2> QED
    BY <1>1, <2>1, <2>2, <2>3 DEF SameLinks
<1>3. cur' = node[cur].next /\ cur' \in Pointer
  BY <1>1, NodeFields DEF HandlerReturns
<1>4. Types'
  BY <1>1, <1>2, <1>3, Zenon DEF IInv, Types, HandlerReturns, list, Place
<1>5. Locks'
  <2>1. tpc \in Walking
    BY <1>1 DEF Walking
  <2> QED
    BY <1>1, <2>1, LocksThread, Zenon DEF IInv, HandlerReturns, Locks
<1>6. ListInv'
  <2>1. \A c \in Client : /\ Adding(c)' <=> Adding(c)
                          /\ Adding(c) => call'[c].cell = call[c].cell
    BY CallsStay, Zenon DEF HandlerReturns
  <2>2. head' = head /\ tail' = tail /\ alloc' = alloc
    BY DEF HandlerReturns, list
  <2>3. tpc \in Walking /\ tpc' # "handler"
    BY <1>1 DEF Walking
  <2> QED
    BY <1>1, <1>2, <1>3, <2>1, <2>2, <2>3, ListSame, Zenon DEF IInv
<1> QED
  BY <1>4, <1>5, <1>6, SMTT(30) DEF IInv

\* So does the sweep, which reads the link to the next timer from the freed cell.
LEMMA SweepKeeps ==
  ASSUME IInv, ~ Preempt, SweepNode
  PROVE  IInv'
<1>1. tpc = "sweep" /\ tpc' = "sweep" /\ ThreadMayRun /\ cur # NULL /\ cur \in Cell
      /\ node[cur] \in NodeType /\ node \in [Cell -> NodeType]
  BY SMTT(30) DEF IInv, Types, Pointer, SweepNode, At
<1>2. cur' = node[cur].next /\ cur' \in Pointer /\ tpc \in Walking /\ tpc' # "handler"
  BY <1>1, NodeFields DEF SweepNode, Walking
<1>3. \A c \in Client : /\ Adding(c)' <=> Adding(c)
                        /\ Adding(c) => call'[c].cell = call[c].cell
  BY CallsStay, Zenon DEF SweepNode
<1>4. /\ node' \in [Cell -> NodeType]
      /\ head' \in Pointer /\ tail' \in Pointer /\ alloc' \subseteq alloc
      /\ ListInv'
  <2>1. CASE node[cur].times = 0
    <3>1. PICK n \in Nat : \E w \in [1..n -> Cell] : Chain(n, w) /\ Members(Cells(n, w))
      BY DEF IInv, ListInv
    <3>2. PICK w \in [1..n -> Cell] : Chain(n, w) /\ Members(Cells(n, w))
      BY <3>1
    <3>3. PICK i \in 1..n : cur = w[i]
      BY <1>1, <1>2, <3>2 DEF Members, Cells
    <3>4. delete_timer(w[i])
      BY <2>1, <3>3 DEF SweepNode
    <3> QED
      BY <1>1, <1>2, <1>3, <3>2, <3>3, <3>4, DeleteKeeps, Zenon
  <2>2. CASE node[cur].times # 0
    <3>1. node' = node /\ head' = head /\ tail' = tail /\ alloc' = alloc
      BY <2>2, Zenon DEF SweepNode, list
    <3>2. ListInv'
      BY <1>1, <1>2, <1>3, <3>1, LinksStay, ListSame, Zenon DEF IInv
    <3> QED
      BY <3>1, <3>2, Zenon DEF IInv, Types
  <2> QED
    BY <2>1, <2>2
<1>5. Types'
  BY <1>1, <1>2, <1>4, Zenon DEF IInv, Types, SweepNode, Place
<1>6. Locks'
  BY <1>1, <1>2, LocksThread, Zenon DEF IInv, SweepNode, Locks
<1> QED
  BY <1>4, <1>5, <1>6 DEF IInv

-----------------------------------------------------------------------------
(* The steps of the clients                                                *)

\* What the call c in its critical section excludes.
LEMMA Inside ==
  ASSUME IInv, NEW c \in Client, call[c].at = "in"
  PROVE  /\ mutex = "locked" /\ tpc \notin Walking /\ exit = "no"
         /\ \A d \in Client : call[d].at = "in" => d = c
         /\ call[c] \in CallType /\ call[c].cell \in Cell
<1>1. call[c] \in CallType /\ call[c].cell \in Cell
  BY DEF IInv, Types
<1>2. exit = "no"
  BY DEF IInv, Locks
<1> QED
  BY <1>1, <1>2, Zenon DEF IInv, Locks

\* Idle is a call.
LEMMA IdleType == Idle \in CallType /\ Idle.at = "idle" /\ Idle.op = "idle"
BY DEF Idle, CallType, Pointer, Count

\* A call that leaves its critical section.
LEMMA Leaves ==
  ASSUME IInv, NEW c \in Client, call[c].at = "in", NEW g \in BOOLEAN, Leave(c, g),
         tpc' = tpc, exit' = exit
  PROVE  /\ call' \in [Client -> CallType]
         /\ \A d \in Client : call'[d].at \in {"lock", "in"} => call'[d].cell \in Cell
         /\ \A d \in Client : d # c => call'[d] = call[d]
         /\ call'[c].at = (IF g THEN "give" ELSE "idle") /\ ~ Adding(c)'
         /\ Locks'
<1> DEFINE r == IF g THEN [call[c] EXCEPT !.at = "give"] ELSE Idle
<1>1. call \in [Client -> CallType] /\ call' = [call EXCEPT ![c] = r] /\ mutex' = "free"
  BY Zenon DEF IInv, Types, Leave
<1>2. r \in CallType /\ r.at = (IF g THEN "give" ELSE "idle")
  <2>1. CASE g
    <3>1. call[c] \in CallType
      BY <1>1
    <3> QED
      BY <2>1, <3>1, Zenon DEF CallType
  <2>2. CASE ~ g
    BY <2>2, IdleType
  <2> QED
    BY <2>1, <2>2
<1> HIDE DEF r
<1>3. call' \in [Client -> CallType] /\ call'[c] = r /\ \A d \in Client : d # c => call'[d] = call[d]
  BY <1>1, <1>2
<1>4. \A d \in Client : call'[d].at \in {"lock", "in"} => call'[d].cell \in Cell
  <2>1. call'[c].at \notin {"lock", "in"}
    BY <1>2, <1>3
  <2> QED
    BY <1>3, <2>1 DEF IInv, Types
<1>5. call'[c].at # "in" /\ call'[c].at # "lock" /\ ~ Adding(c)'
  BY <1>2, <1>3 DEF Adding
<1>6. \A d \in Client : call'[d].at # "in"
  BY <1>3, <1>5, Inside
<1>7. Locks'
  <2>1. tpc' \notin Walking /\ exit' = "no"
    BY Inside
  <2> QED
    BY <1>6, <2>1 DEF Locks
<1> QED
  BY <1>2, <1>3, <1>4, <1>5, <1>7

\* A call that adds nothing leaves the calls that do as they are.
LEMMA OthersAdd ==
  ASSUME NEW c \in Client, ~ Adding(c), ~ Adding(c)',
         \A d \in Client : d # c => call'[d] = call[d]
  PROVE  \A d \in Client : /\ Adding(d)' <=> Adding(d)
                           /\ Adding(d) => call'[d].cell = call[d].cell
BY DEF Adding

\* sw_timer_create before its critical section.
LEMMA CreateKeeps ==
  ASSUME IInv, NEW c \in Client, CallCreate(c)
  PROVE  IInv'
<1>1. PICK x \in Cell \ alloc, i \in Intervals, t \in Times :
       /\ alloc' = alloc \cup {x}
       /\ node' = [node EXCEPT ![x] = New(node[x], i, t)]
       /\ call' = [call EXCEPT ![c] = [op |-> "create", at |-> "lock",
                                       cell |-> x, interval |-> i, times |-> t]]
  BY Zenon DEF CallCreate
<1> DEFINE r == [op |-> "create", at |-> "lock", cell |-> x, interval |-> i, times |-> t]
<1>2. node \in [Cell -> NodeType] /\ call \in [Client -> CallType] /\ x \in Cell
  BY DEF IInv, Types
<1>3. r \in CallType /\ r.op = "create" /\ r.at = "lock" /\ r.cell = x
  <2>1. t \in Count /\ "create" \in Ops
    BY ConstantTypes DEF CallCreate
  <2> QED
    BY <2>1 DEF CallType, Pointer
<1> HIDE DEF r
<1>4. call' = [call EXCEPT ![c] = r]
  BY <1>1 DEF r
<1>5. /\ call' \in [Client -> CallType] /\ call'[c] = r
      /\ \A d \in Client : d # c => call'[d] = call[d]
  BY <1>2, <1>3, <1>4, SMTT(30)
<1>6. node' \in [Cell -> NodeType] /\ \A y \in Cell : SameLinks(node'[y], node[y])
  <2>1. New(node[x], i, t) \in NodeType /\ SameLinks(New(node[x], i, t), node[x])
    BY <1>2, NewFields
  <2> QED
    BY <1>1, <1>2, <2>1 DEF SameLinks
<1>7. Types'
  <2>1. \A d \in Client : call'[d].at \in {"lock", "in"} => call'[d].cell \in Cell
    BY <1>3, <1>5 DEF IInv, Types
  <2>2. alloc' \subseteq Cell
    BY <1>1, SMTT(30) DEF IInv, Types
  <2> QED
    BY <1>5, <1>6, <2>1, <2>2, Zenon DEF IInv, Types, CallCreate, thread
<1>8. Locks'
  <2>1. \A d \in Client : call'[d].at = "in" => d # c /\ call[d].at = "in"
    BY <1>3, <1>5
  <2>2. exit' = "no" /\ mutex' = mutex /\ tpc' = tpc
    BY DEF CallCreate, thread
  <2> QED
    BY <2>1, <2>2 DEF IInv, Locks
<1>9. ListInv'
  <2>1. PICK n \in Nat : \E w \in [1..n -> Cell] : Chain(n, w) /\ Members(Cells(n, w))
    BY DEF IInv, ListInv
  <2>2. PICK w \in [1..n -> Cell] : Chain(n, w) /\ Members(Cells(n, w))
    BY <2>1
  <2> DEFINE L == Cells(n, w)
  <2>3. Chain(n, w)'
    BY <1>6, <2>2, ChainSame, Zenon DEF CallCreate
  <2>4. ~ Adding(c) /\ Adding(c)' /\ \A d \in Client : d # c => (Adding(d)' <=> Adding(d))
    BY <1>3, <1>5, IdleType DEF Adding, CallCreate
  <2>5. AddedCells' = AddedCells \cup {x}
    BY <1>3, <1>5, <2>4, Zenon DEF AddedCells
  <2>6. alloc = L \cup AddedCells /\ alloc' = L \cup AddedCells'
    BY <1>1, <2>2, <2>5 DEF Members
  <2>7. \A d \in Client : Adding(d) => call[d].cell \in alloc
    BY <2>6, Zenon DEF AddedCells
  <2>8. \A d \in Client : Adding(d)' => call'[d].cell \notin L
    BY <1>3, <1>5, <2>2, <2>4, <2>6, ZenonT(60) DEF Members
  <2>9. \A d, e \in Client : Adding(d)' /\ Adding(e)' /\ call'[d].cell = call'[e].cell => d = e
    BY <1>3, <1>5, <2>2, <2>4, <2>7, ZenonT(60) DEF Members
  <2>10. tpc' = tpc /\ cur' = cur /\ L' = L
    BY ZenonT(60) DEF CallCreate, thread, Cells
  <2>11. Members(L)'
    BY <2>2, <2>6, <2>8, <2>9, <2>10 DEF Members
  <2> QED
    BY <2>3, <2>11, Zenon DEF ListInv
<1> QED
  BY <1>7, <1>8, <1>9 DEF IInv

\* A call before its critical section, and the signal after it.
LEMMA OutsideKeeps ==
  ASSUME IInv, NEW c \in Client, CallOther(c) \/ Lock(c) \/ Give(c)
  PROVE  IInv'
<1>0. call \in [Client -> CallType] /\ call[c] \in CallType
  BY DEF IInv, Types
<1>1. /\ node' = node /\ alloc' = alloc /\ head' = head /\ tail' = tail /\ timeout' = timeout
      /\ exit' = exit /\ tpc' = tpc /\ cur' = cur /\ min' = min /\ left' = left
      /\ mutex' \in {"free", "locked"} /\ signal' \in 0..1
  BY SMTT(30) DEF IInv, Types, CallOther, Lock, Give, list, thread
<1>2. PICK r \in CallType :
        /\ call' = [call EXCEPT ![c] = r]
        /\ r.at \in {"lock", "in"} => r.cell \in Cell
        /\ r.at = "in" => mutex = "free" /\ mutex' = "locked" /\ call[c].at = "lock"
        /\ r.at # "in" => mutex' = mutex
        /\ (r.op = "create" /\ r.at \in {"lock", "in"}) <=> Adding(c)
        /\ r.cell = call[c].cell \/ ~ Adding(c)
        /\ r.at # "idle" => exit = "no"
  <2>1. CASE CallOther(c)
    <3>1. PICK op \in Ops \ {"create"}, x \in Cell :
            \E i \in IF op = "interval" THEN Intervals ELSE {0},
               t \in IF op = "interval" THEN Times ELSE {0} :
            call' = [call EXCEPT ![c] = [op |-> op, at |-> "lock", cell |-> x,
                                         interval |-> i, times |-> t]]
      BY <2>1, Zenon DEF CallOther
    <3>2. PICK i \in Intervals \cup {0}, t \in Times \cup {0} :
            call' = [call EXCEPT ![c] = [op |-> op, at |-> "lock", cell |-> x,
                                         interval |-> i, times |-> t]]
      BY <3>1, Zenon
    <3>3. t \in Count
      BY ConstantTypes DEF Count
    <3> DEFINE r == [op |-> op, at |-> "lock", cell |-> x, interval |-> i, times |-> t]
    <3>4. r \in CallType /\ r.at = "lock" /\ r.op # "create" /\ r.cell \in Cell
      BY <3>3, SMTT(30) DEF CallType, Pointer
    <3>5. ~ Adding(c) /\ exit = "no" /\ mutex' = mutex
      BY <2>1, IdleType, SMTT(30) DEF CallOther, Adding
    <3> HIDE DEF r
    <3>6. call' = [call EXCEPT ![c] = r]
      BY <3>2 DEF r
    <3> QED
      BY <3>4, <3>5, <3>6, Zenon
  <2>2. CASE Lock(c)
    <3> DEFINE r == [call[c] EXCEPT !.at = "in"]
    <3>1. r \in CallType /\ r.at = "in" /\ r.op = call[c].op /\ r.cell = call[c].cell
      BY <1>0 DEF CallType
    <3>2. call[c].at = "lock" /\ mutex = "free" /\ mutex' = "locked" /\ exit = "no"
          /\ call[c].cell \in Cell
      BY <2>2 DEF Lock, IInv, Types, Locks
    <3>3. call' = [call EXCEPT ![c] = r]
      BY <2>2, Zenon DEF Lock
    <3> HIDE DEF r
    <3> QED
      BY <3>1, <3>2, <3>3, Zenon DEF Adding
  <2>3. CASE Give(c)
    <3>1. call' = [call EXCEPT ![c] = Idle] /\ call[c].at = "give" /\ mutex' = mutex
      BY <2>3, Zenon DEF Give
    <3> QED
      BY <3>1, IdleType, Zenon DEF Adding
  <2> QED
    BY <2>1, <2>2, <2>3
<1>3. /\ call' \in [Client -> CallType] /\ call'[c] = r
      /\ \A d \in Client : d # c => call'[d] = call[d]
  BY <1>0, <1>2
<1>4. Types'
  <2>1. \A d \in Client : call'[d].at \in {"lock", "in"} => call'[d].cell \in Cell
    BY <1>2, <1>3 DEF IInv, Types
  <2> QED
    BY <1>1, <1>3, <2>1, Zenon DEF IInv, Types
<1>5. Locks'
  <2>1. CASE r.at = "in"
    <3>1. mutex = "free" /\ mutex' = "locked" /\ exit' = "no" /\ tpc' \notin Walking
      BY <1>1, <1>2, <2>1, SMTT(30) DEF IInv, Locks
    <3>2. \A d \in Client : call'[d].at = "in" => d = c
      BY <1>3, <3>1, ZenonT(60) DEF IInv, Locks
    <3> QED
      BY <3>1, <3>2, SMTT(30) DEF Locks
  <2>2. CASE r.at # "in"
    <3>1. \A d \in Client : call'[d].at = "in" => call[d].at = "in"
      BY <1>3, <2>2
    <3>2. mutex' = mutex
      BY <1>2, <2>2, SMTT(30)
    <3>3. exit' # "no" => \A d \in Client : call'[d].at = "idle"
      BY <1>1, <1>2, <1>3 DEF IInv, Locks
    <3> QED
      BY <1>1, <3>1, <3>2, <3>3, SMTT(30) DEF IInv, Locks
  <2> QED
    BY <2>1, <2>2, SMTT(30)
<1>6. ListInv'
  <2>1. \A d \in Client : /\ Adding(d)' <=> Adding(d)
                          /\ Adding(d) => call'[d].cell = call[d].cell
    BY <1>2, <1>3, SMTT(30) DEF Adding
  <2>2. tpc' = "handler" => cur' # NULL
    BY <1>1 DEF IInv, ListInv, Members
  <2> QED
    BY <1>1, <2>1, <2>2, LinksStay, ListSame, Zenon DEF IInv
<1> QED
  BY <1>4, <1>5, <1>6 DEF IInv

\* The critical section of add_timer: its cell is behind the list.
LEMMA AddKeeps ==
  ASSUME IInv, NEW c \in Client, add_timer(c)
  PROVE  IInv'
<1>a. PICK x \in Cell : x = call[c].cell
  BY Inside DEF add_timer
<1>0. /\ call[c].op = "create" /\ call[c].at = "in" /\ Append(x) /\ Leave(c, TRUE)
      /\ alloc' = alloc /\ signal' = signal /\ exit' = exit /\ tpc' = tpc /\ cur' = cur
      /\ min' = min /\ left' = left /\ Adding(c)
  BY <1>a, Zenon DEF add_timer, thread, Adding
<1>1. /\ call' \in [Client -> CallType]
      /\ \A d \in Client : call'[d].at \in {"lock", "in"} => call'[d].cell \in Cell
      /\ \A d \in Client : d # c => call'[d] = call[d]
      /\ ~ Adding(c)' /\ Locks'
  BY <1>0, Leaves, Zenon
<1>2. /\ mutex = "locked" /\ tpc \notin Walking /\ exit = "no"
  BY <1>0, Inside
<1>3. node \in [Cell -> NodeType] /\ tail \in Pointer
  BY DEF IInv, Types
<1>4. PICK n \in Nat : \E w \in [1..n -> Cell] : Chain(n, w) /\ Members(Cells(n, w))
  BY DEF IInv, ListInv
<1>5. PICK w \in [1..n -> Cell] : Chain(n, w) /\ Members(Cells(n, w))
  BY <1>4, SMTT(30)
<1> DEFINE L == Cells(n, w)
           v == Longer(n, w, x)
           M == Cells(n + 1, v)
<1>6. x \notin L
  BY <1>a, <1>0, <1>5 DEF Members
<1>7. v \in [1..n + 1 -> Cell] /\ Chain(n + 1, v)' /\ M = L \cup {x}
  <2>0. Append(x) /\ Chain(n, w) /\ x \notin Cells(n, w) /\ n \in Nat /\ w \in [1..n -> Cell]
    BY <1>0, <1>5, <1>6, Zenon
  <2>1. /\ Longer(n, w, x) \in [1..n + 1 -> Cell]
        /\ Chain(n + 1, Longer(n, w, x))'
        /\ Cells(n + 1, Longer(n, w, x)) = Cells(n, w) \cup {x}
    BY <2>0, <1>3, ChainAppend
  <2> QED
    BY <2>1, Zenon
<1>8. x # tail
  <2>1. n # 0 => n \in 1..n
    OBVIOUS
  <2> QED
    BY <1>2, <1>5, <1>6, <2>1, CellAssumption DEF Chain, Cells
<1>9. node' \in [Cell -> NodeType]
  BY <1>0, <1>2, <1>3, <1>8, AppendFields, Zenon
<1> HIDE DEF v
<1>10. head' \in Pointer /\ tail' \in Pointer
  BY <1>0, <1>2, Zenon DEF Append, Pointer, IInv, Types
<1>11. timeout' \in 0..Forever
  <2>1. Unsigned(node[x].due) \in 0..Forever
    BY <1>2, <1>3, NodeFields, UnsignedType, Zenon
  <2> QED
    BY <1>a, <2>1, SMTT(30) DEF add_timer, upgrade_timeout, IInv, Types
<1>12. Types'
  BY <1>0, <1>1, <1>9, <1>10, <1>11, Zenon DEF IInv, Types, Leave
<1>13. ListInv'
  <2>1. \A d \in Client : Adding(d)' <=> Adding(d) /\ d # c
    BY <1>1 DEF Adding
  <2>2. AddedCells = AddedCells' \cup {x}
    <3>1. \A y \in AddedCells : y \in AddedCells' \cup {x}
      BY <1>a, <1>1, <2>1, SMTT(30) DEF AddedCells
    <3>2. \A y \in AddedCells' : y \in AddedCells
      BY <1>1, <2>1, SMTT(30) DEF AddedCells
    <3>3. x \in AddedCells
      BY <1>a, <1>0, SMTT(30) DEF AddedCells
    <3> QED
      BY <3>1, <3>2, <3>3, SMTT(30)
  <2>3. alloc' = M \cup AddedCells'
    BY <1>0, <1>5, <1>7, <2>2, ZenonT(60) DEF Members
  <2>4. \A d \in Client : Adding(d)' => call'[d].cell \notin M
    BY <1>a, <1>0, <1>1, <1>5, <1>7, <2>1, ZenonT(60) DEF Members
  <2>5. \A d, e \in Client : Adding(d)' /\ Adding(e)' /\ call'[d].cell = call'[e].cell => d = e
    BY <1>1, <1>5, <2>1, ZenonT(60) DEF Members
  <2>6. tpc' \notin Walking /\ tpc' # "handler"
    BY <1>0, <1>2, Zenon DEF Walking
  <2>7. Chain(n + 1, v)' /\ M' = M
    BY <1>7, SMTT(30) DEF Cells
  <2>8. Members(M)'
    BY <2>3, <2>4, <2>5, <2>6, <2>7 DEF Members
  <2>9. n + 1 \in Nat
    OBVIOUS
  <2> QED
    BY <1>7, <2>7, <2>8, <2>9, Zenon DEF ListInv
<1> QED
  BY <1>1, <1>12, <1>13, SMTT(30) DEF IInv

\* The critical section of sw_timer_destroy: its cell is on the list.
LEMMA DestroyKeeps ==
  ASSUME IInv, WalkFollows, NEW c \in Client, Destroy(c)
  PROVE  IInv'
<1>0. /\ call[c].op = "destroy" /\ call[c].at = "in" /\ call[c].cell \in Listed
      /\ delete_timer(call[c].cell) /\ Leave(c, FALSE)
      /\ signal' = signal /\ timeout' = timeout /\ exit' = exit /\ tpc' = tpc /\ cur' = cur
      /\ min' = min /\ left' = left /\ ~ Adding(c)
  BY Zenon DEF Destroy, thread, Adding
<1>1. /\ call' \in [Client -> CallType]
      /\ \A d \in Client : call'[d].at \in {"lock", "in"} => call'[d].cell \in Cell
      /\ \A d \in Client : d # c => call'[d] = call[d]
      /\ ~ Adding(c)' /\ Locks'
  BY <1>0, Leaves, Zenon
<1>2. tpc' \notin Walking /\ tpc' # "handler"
  BY <1>0, Inside DEF Walking
<1>3. PICK n \in Nat : \E w \in [1..n -> Cell] : Chain(n, w) /\ Members(Cells(n, w))
  BY DEF IInv, ListInv
<1>4. PICK w \in [1..n -> Cell] : Chain(n, w) /\ Members(Cells(n, w))
  BY <1>3
<1>5. PICK i \in 1..n : call[c].cell = w[i]
  <2>1. call[c].cell \in Cells(n, w)
    BY <1>0, <1>4, Zenon DEF WalkFollows
  <2> QED
    BY <2>1 DEF Cells
<1>6. /\ node' \in [Cell -> NodeType]
      /\ head' \in Pointer /\ tail' \in Pointer /\ alloc' \subseteq alloc
      /\ ListInv'
  <2>1. \A d \in Client : /\ Adding(d)' <=> Adding(d)
                          /\ Adding(d) => call'[d].cell = call[d].cell
    BY <1>0, <1>1, OthersAdd, Zenon
  <2>2. delete_timer(w[i]) /\ node \in [Cell -> NodeType]
    BY <1>0, <1>5, Zenon DEF IInv, Types
  <2> QED
    BY <1>2, <1>4, <2>1, <2>2, DeleteKeeps, Zenon
<1>7. Types'
  BY <1>0, <1>1, <1>6, Zenon DEF IInv, Types, Leave
<1> QED
  BY <1>1, <1>6, <1>7 DEF IInv

\* The critical sections that write no link.
LEMMA ChangeKeeps ==
  ASSUME IInv, NEW c \in Client, Change(c) \/ NotFound(c)
  PROVE  IInv'
<1>0. /\ call[c].op # "create" /\ call[c].at = "in"
      /\ head' = head /\ tail' = tail /\ alloc' = alloc /\ ~ Adding(c)
      /\ signal' = signal /\ timeout' = timeout /\ exit' = exit /\ tpc' = tpc /\ cur' = cur
      /\ min' = min /\ left' = left
  BY Zenon DEF Change, NotFound, list, thread, Adding
<1>1. \E g \in BOOLEAN : Leave(c, g)
  <2>1. CASE Change(c)
    BY <2>1, Zenon DEF Change
  <2>2. CASE NotFound(c)
    BY <2>2, Zenon DEF NotFound
  <2> QED
    BY <2>1, <2>2
<1>2. /\ call' \in [Client -> CallType]
      /\ \A d \in Client : call'[d].at \in {"lock", "in"} => call'[d].cell \in Cell
      /\ \A d \in Client : d # c => call'[d] = call[d]
      /\ ~ Adding(c)' /\ Locks' /\ mutex' = "free"
  BY <1>0, <1>1, Leaves, Zenon DEF Leave
<1>3. node' \in [Cell -> NodeType] /\ \A y \in Cell : SameLinks(node'[y], node[y])
  <2>0. node \in [Cell -> NodeType] /\ call[c] \in CallType /\ call[c].cell \in Cell
    BY <1>0, Inside DEF IInv, Types
  <2>1. CASE Change(c)
    <3> DEFINE x == call[c].cell
               n == Changed(node[x], call[c])
    <3>1. n \in NodeType /\ SameLinks(n, node[x])
      BY <2>0, ChangedFields
    <3>2. node' = [node EXCEPT ![x] = n]
      BY <2>1, Zenon DEF Change
    <3> HIDE DEF n
    <3> QED
      BY <2>0, <3>1, <3>2 DEF SameLinks
  <2>2. CASE NotFound(c)
    BY <2>0, <2>2, LinksStay DEF NotFound
  <2> QED
    BY <2>1, <2>2, SMTT(30)
<1>4. Types'
  BY <1>0, <1>2, <1>3, Zenon DEF IInv, Types
<1>5. ListInv'
  <2>1. \A d \in Client : /\ Adding(d)' <=> Adding(d)
                          /\ Adding(d) => call'[d].cell = call[d].cell
    BY <1>0, <1>2, OthersAdd, Zenon
  <2>2. tpc' \notin Walking /\ tpc' # "handler"
    BY <1>0, Inside DEF Walking
  <2> QED
    BY <1>0, <1>3, <2>1, <2>2, ListSame, Zenon DEF IInv
<1> QED
  BY <1>2, <1>4, <1>5 DEF IInv

-----------------------------------------------------------------------------
(* The exit and the clock                                                  *)

\* release_queue leaves an empty list and no allocated cell.
LEMMA ReleaseKeeps ==
  ASSUME IInv, WalkFollows, ExitRelease
  PROVE  IInv'
<1>0. /\ exit' = "released" /\ mutex = "free" /\ mutex' = mutex /\ signal' = signal
      /\ timeout' = timeout /\ tpc' = tpc /\ cur' = cur /\ min' = min /\ left' = left
      /\ call' = call /\ head' = NULL /\ tail' = NULL /\ alloc' = alloc \ Listed
      /\ \A c \in Client : call[c] = Idle
  BY ZenonT(60) DEF ExitRelease, thread
<1>1. node' \in [Cell -> NodeType]
  <2>1. node \in [Cell -> NodeType]
    BY DEF IInv, Types
  <2>2. ASSUME NEW x \in Cell PROVE node'[x] \in NodeType
    <3>1. node[x] \in NodeType
      BY <2>1
    <3>2. [node[x] EXCEPT !.status = "disable", !.prev = NULL] \in NodeType
      BY <3>1, Zenon DEF NodeType, Status, Pointer
    <3>3. node'[x] \in {node[x], [node[x] EXCEPT !.status = "disable", !.prev = NULL]}
      BY Zenon DEF ExitRelease
    <3> HIDE DEF NodeType
    <3> QED
      BY <3>1, <3>2, <3>3
  <2> QED
    BY <2>2, Zenon DEF ExitRelease
<1>2. Types'
  <2>1. alloc' \subseteq Cell /\ NULL \in Pointer
    BY <1>0, SMTT(30) DEF IInv, Types, Pointer
  <2> QED
    BY <1>0, <1>1, <2>1, Zenon DEF IInv, Types
<1>3. Locks'
  BY <1>0, IdleType, Zenon DEF IInv, Locks
<1>4. ListInv'
  <2>1. PICK n \in Nat : \E w \in [1..n -> Cell] : Chain(n, w) /\ Members(Cells(n, w))
    BY DEF IInv, ListInv
  <2>2. PICK w \in [1..n -> Cell] : Chain(n, w) /\ Members(Cells(n, w))
    BY <2>1
  <2>3. Listed = Cells(n, w)
    BY <2>2, Zenon DEF WalkFollows
  <2>4. AddedCells = {} /\ AddedCells' = {} /\ \A c \in Client : ~ Adding(c)'
    BY <1>0, IdleType, SMTT(30) DEF AddedCells, Adding
  <2>5. alloc' = {}
    BY <1>0, <2>2, <2>3, <2>4, SMTT(30) DEF Members
  <2>6. tpc' \notin Walking /\ tpc' # "handler"
    BY <1>0 DEF IInv, Locks, Walking
  <2> DEFINE v == [i \in 1..0 |-> NULL]
  <2>7. v \in [1..0 -> Cell] /\ Cells(0, v) = {} /\ Cells(0, v)' = {}
    BY SMTT(30) DEF Cells
  <2>8. Chain(0, v)'
    BY <1>0, SMTT(30) DEF Chain
  <2>9. Members(Cells(0, v))'
    BY <2>4, <2>5, <2>6, <2>7 DEF Members
  <2> HIDE DEF v
  <2>10. 0 \in Nat
    OBVIOUS
  <2> QED
    BY <2>7, <2>8, <2>9, <2>10, Zenon DEF ListInv
<1> QED
  BY <1>2, <1>3, <1>4 DEF IInv

\* The rest of sw_timer_exit changes neither the list nor a call.
LEMMA ExitKeeps ==
  ASSUME IInv, ExitStep
  PROVE  IInv'
<1>0. /\ node' = node /\ alloc' = alloc /\ head' = head /\ tail' = tail /\ timeout' = timeout
      /\ tpc' = tpc /\ cur' = cur /\ min' = min /\ left' = left /\ mutex' = mutex
      /\ call' = call /\ signal' \in 0..1 /\ exit # "no"
      /\ exit' \in {"no", "released", "flag", "give", "done"}
  <2>1. signal \in 0..1 /\ 1 \in 0..1
    BY DEF IInv, Types
  <2>2. CASE ExitFlag
    BY <2>1, <2>2, Zenon DEF ExitFlag, list, thread
  <2>3. CASE ExitGive
    BY <2>1, <2>3, Zenon DEF ExitGive, list, thread
  <2>4. CASE ExitClose
    BY <2>1, <2>4, Zenon DEF ExitClose, list, thread
  <2> QED
    BY <2>2, <2>3, <2>4, Zenon DEF ExitStep
<1>1. Types'
  BY <1>0, Zenon DEF IInv, Types
<1>2. Locks'
  BY <1>0, Zenon DEF IInv, Locks
<1>3. ListInv'
  <2>1. tpc' = "handler" => cur' # NULL
    BY <1>0 DEF IInv, ListInv, Members
  <2> QED
    BY <1>0, <2>1, LinksStay, CallsStay, ListSame, Zenon DEF IInv
<1> QED
  BY <1>1, <1>2, <1>3 DEF IInv

\* A tick writes the due times.
LEMMA TickKeeps ==
  ASSUME IInv, Tick
  PROVE  IInv'
<1>0. /\ alloc' = alloc /\ head' = head /\ tail' = tail /\ timeout' = timeout
      /\ tpc' = tpc /\ cur' = cur /\ min' = min /\ mutex' = mutex
      /\ call' = call /\ signal' = signal /\ exit' = exit
  BY DEF Tick, list
<1>1. node' \in [Cell -> NodeType] /\ \A y \in Cell : SameLinks(node'[y], node[y])
  <2>1. node \in [Cell -> NodeType]
    BY DEF IInv, Types
  <2>2. ASSUME NEW x \in Cell PROVE node'[x] \in NodeType /\ SameLinks(node'[x], node[x])
    <3>1. node[x] \in NodeType /\ node[x].due - 1 \in Int
      BY <2>1, NodeFields
    <3>2. [node[x] EXCEPT !.due = node[x].due - 1] \in NodeType
      BY <3>1, Zenon DEF NodeType
    <3>3. SameLinks([node[x] EXCEPT !.due = node[x].due - 1], node[x])
      BY <3>1, Zenon DEF NodeType, SameLinks
    <3>4. \/ node'[x] = node[x]
          \/ node'[x] = [node[x] EXCEPT !.due = node[x].due - 1]
      BY Zenon DEF Tick
    <3> HIDE DEF NodeType
    <3> QED
      BY <3>1, <3>2, <3>3, <3>4, Zenon DEF SameLinks
  <2> QED
    BY <2>2, Zenon DEF Tick
<1>2. left' \in 0..Forever
  <2>1. left \in 0..Forever /\ Forever \in Nat
    BY ConstantTypes DEF IInv, Types, Forever
  <2>2. tpc = "wait" => left # 0
    BY DEF Tick
  <2> HIDE DEF Forever
  <2> QED
    BY <2>1, <2>2 DEF Tick
<1>3. Types'
  BY <1>0, <1>1, <1>2, Zenon DEF IInv, Types
<1>4. Locks'
  BY <1>0 DEF IInv, Locks
<1>5. ListInv'
  <2>1. tpc' = "handler" => cur' # NULL
    BY <1>0 DEF IInv, ListInv, Members
  <2> QED
    BY <1>0, <1>1, <2>1, CallsStay, ListSame, Zenon DEF IInv
<1> QED
  BY <1>3, <1>4, <1>5 DEF IInv

-----------------------------------------------------------------------------
(* The invariant holds                                                     *)

\* Before the first call the list is empty.
LEMMA InvInit == Init => IInv
<1> SUFFICES ASSUME Init PROVE IInv
  OBVIOUS
<1>1. Blank \in NodeType
  BY DEF Blank, NodeType, Count, Status, Pointer
<1>2. Types
  <2>1. node \in [Cell -> NodeType]
    BY <1>1 DEF Init
  <2>2. call \in [Client -> CallType] /\ \A c \in Client : call[c].at = "idle"
    BY IdleType DEF Init
  <2>3. Forever \in 0..Forever
    BY ConstantTypes DEF Forever
  <2>4. \A c \in Client : call[c].at \in {"lock", "in"} => call[c].cell \in Cell
    BY <2>2
  <2> QED
    BY <2>1, <2>2, <2>3, <2>4 DEF Init, Types, Pointer, Place
<1>3. Locks
  BY IdleType DEF Init, Locks, Walking
<1>4. ListInv
  <2> DEFINE v == [i \in 1..0 |-> NULL]
  <2>1. v \in [1..0 -> Cell] /\ Cells(0, v) = {}
    BY SMTT(30) DEF Cells
  <2>2. Chain(0, v)
    BY DEF Chain, Init
  <2>3. \A c \in Client : ~ Adding(c)
    BY IdleType DEF Init, Adding
  <2>4. AddedCells = {}
    BY <2>3 DEF AddedCells
  <2>5. Members(Cells(0, v))
    BY <2>1, <2>3, <2>4 DEF Members, Init, Walking
  <2> HIDE DEF v
  <2>6. 0 \in Nat
    OBVIOUS
  <2> QED
    BY <2>1, <2>2, <2>5, <2>6, Zenon DEF ListInv
<1> QED
  BY <1>2, <1>3, <1>4 DEF IInv

\* Every step keeps the invariant.
LEMMA InvStep ==
  ASSUME ~ Preempt, IInv, WalkFollows, [Next]_vars
  PROVE  IInv'
<1>1. CASE ThreadStep
  <2>1. CASE HandlerReturns
    BY <2>1, HandlerKeeps
  <2>2. CASE SweepNode
    BY <2>2, SweepKeeps
  <2>3. CASE ~ HandlerReturns /\ ~ SweepNode
    <3>1. \/ Start \/ ScanRead \/ ScanLock \/ ScanNode \/ ScanEnd \/ Sleep \/ Wake
          \/ Check \/ TickLock \/ TickNode \/ TickEnd \/ SweepEnd
      BY <1>1, <2>3, Zenon DEF ThreadStep
    <3> QED
      BY <3>1, ThreadKeeps, Zenon
  <2> QED
    BY <2>1, <2>2, <2>3
<1>2. ASSUME NEW c \in Client, CallCreate(c) \/ CallOther(c) \/ CallStep(c)
      PROVE  IInv'
  <2>1. CASE CallCreate(c)
    BY <2>1, CreateKeeps
  <2>2. CASE CallOther(c) \/ Lock(c) \/ Give(c)
    BY <2>2, OutsideKeeps, Zenon
  <2>3. CASE add_timer(c)
    BY <2>3, AddKeeps
  <2>4. CASE Destroy(c)
    BY <2>4, DestroyKeeps
  <2>5. CASE Change(c) \/ NotFound(c)
    BY <2>5, ChangeKeeps, Zenon
  <2> QED
    BY <1>2, <2>1, <2>2, <2>3, <2>4, <2>5, Zenon DEF CallStep
<1>3. CASE ExitRelease
  BY <1>3, ReleaseKeeps
<1>4. CASE ExitStep
  BY <1>4, ExitKeeps
<1>5. CASE Tick
  BY <1>5, TickKeeps
<1>6. CASE UNCHANGED vars
  <2>1. /\ node' = node /\ alloc' = alloc /\ head' = head /\ tail' = tail /\ timeout' = timeout
        /\ tpc' = tpc /\ cur' = cur /\ min' = min /\ left' = left /\ mutex' = mutex
        /\ call' = call /\ signal' = signal /\ exit' = exit
    BY <1>6 DEF vars
  <2>2. Types' /\ Locks'
    BY <2>1, Zenon DEF IInv, Types, Locks
  <2>3. tpc' = "handler" => cur' # NULL
    BY <2>1 DEF IInv, ListInv, Members
  <2>4. ListInv'
    BY <2>1, <2>3, LinksStay, CallsStay, ListSame, Zenon DEF IInv
  <2> QED
    BY <2>2, <2>4 DEF IInv
<1> QED
  BY <1>1, <1>2, <1>3, <1>4, <1>5, <1>6, Zenon DEF Next, Exited

-----------------------------------------------------------------------------
(* The invariant behind Punctual                                           *)

\* Handlers take no time, and neither reset nor set_interval is called.
Prompt == ~ Slow /\ ~ Preempt /\ Ops \cap {"reset", "interval"} = {}

\* A signal wakes the thread, or is on its way to.
Alerted == signal > 0 \/ \E c \in Client : call[c].at = "give"

\* A timer that is going to fire.
Live(x) == node[x].status = "enable" /\ node[x].times # 0

\* A time that is not negative as an int.
Short(t) == 2 * t < Word

\* Every due time is one, and no timer that will fire is late.
Dues ==
  /\ \A x \in Cell : Short(node[x].due) /\ Short(node[x].store)
  /\ \A x \in alloc : node[x].times # 0 =>
       IF node[x].status = "enable" THEN node[x].due >= 0 ELSE node[x].store >= 0
  /\ tpc = "handler" => Due(cur)

\* The scan has the m cells of u before it, in this order; some of them may
\* have been freed since it began.
Path(m, u) ==
  /\ \A i, j \in 1..m : u[i] = u[j] => i = j
  /\ cur = IF m = 0 THEN NULL ELSE u[1]
  /\ \A i \in 1..m : node[u[i]].next = IF i = m THEN NULL ELSE u[i + 1]

\* The cells on the list, as the allocated ones that are not to be added.
Timers == alloc \ AddedCells

\* No timer of the list outside S is due before t.
Covers(S, t) == \A x \in Timers \ S : Live(x) => t <= node[x].due

\* What the scan has passed is no earlier than its minimum.
Scanned ==
  \E m \in Nat : \E u \in [1..m -> Cell] : Path(m, u) /\ Covers(Cells(m, u), min)

\* Unless a signal is coming, what the thread knows covers the list.
Watch ==
  ~ Alerted =>
    /\ tpc = "scan" => Scanned
    /\ tpc = "sleep" => Covers({}, timeout)
    /\ tpc = "wait" => Covers({}, left)

WatchInv == Dues /\ Watch

\* Timers are the cells of the chain.
LEMMA TimersChain ==
  ASSUME IInv
  PROVE  \E n \in Nat : \E w \in [1..n -> Cell] :
           Chain(n, w) /\ Members(Cells(n, w)) /\ Cells(n, w) = Timers
<1>1. PICK n \in Nat : \E w \in [1..n -> Cell] : Chain(n, w) /\ Members(Cells(n, w))
  BY DEF IInv, ListInv
<1>2. PICK w \in [1..n -> Cell] : Chain(n, w) /\ Members(Cells(n, w))
  BY <1>1
<1>3. Cells(n, w) = Timers
  BY <1>2 DEF Members, Timers, AddedCells
<1> QED
  BY <1>2, <1>3

\* A timer on the list is allocated and to be looked at.
LEMMA TimersType ==
  ASSUME IInv, NEW x \in Timers
  PROVE  x \in Cell /\ x \in alloc /\ node[x] \in NodeType
BY SMTT(30) DEF IInv, Types, Timers

\* The due times after a step that frees cells or keeps them, and leaves the
\* timers in them as they are.
LEMMA DuesCarry ==
  ASSUME Dues, alloc' \subseteq alloc, alloc \subseteq Cell,
         \A x \in Cell : SameTimer(node'[x], node[x]),
         tpc' = "handler" => cur' \in Cell /\ (Due(cur') \/ (tpc = "handler" /\ cur' = cur))
  PROVE  Dues'
<1>1. \A x \in Cell : /\ node'[x].due = node[x].due /\ node'[x].store = node[x].store
                      /\ node'[x].times = node[x].times /\ node'[x].status = node[x].status
  BY DEF SameTimer
<1>2. \A x \in Cell : Short(node'[x].due) /\ Short(node'[x].store)
  BY <1>1, Zenon DEF Dues
<1>3. \A x \in alloc' : node'[x].times # 0 =>
       IF node'[x].status = "enable" THEN node'[x].due >= 0 ELSE node'[x].store >= 0
  BY <1>1, SMTT(30) DEF Dues
<1>4. tpc' = "handler" => /\ node'[cur'].status = "enable"
                          /\ node'[cur'].times # 0 /\ node'[cur'].due <= 0
  BY <1>1, ZenonT(60) DEF Dues, Due
<1> QED
  BY <1>2, <1>3, <1>4 DEF Dues, Due, Short

\* What is covered stays so when timers are freed or stopped.
LEMMA CoversCarry ==
  ASSUME Timers' \subseteq Timers,
         \A x \in Timers' : Live(x)' => Live(x) /\ node'[x].due = node[x].due,
         NEW S, NEW t, Covers(S, t)
  PROVE  \A x \in Timers' \ S : Live(x)' => t <= node'[x].due
BY DEF Covers

\* A step of somebody else while the thread is at the same place.
LEMMA WatchCarry ==
  ASSUME Watch, Alerted => Alerted', tpc' = tpc, min' = min, timeout' = timeout, left' = left,
         Timers' \subseteq Timers,
         \A x \in Timers' : Live(x)' => Live(x) /\ node'[x].due = node[x].due,
         ~ Alerted /\ tpc = "scan" => Scanned'
  PROVE  Watch'
<1> SUFFICES ASSUME ~ Alerted' PROVE (/\ tpc = "scan" => Scanned
                                      /\ tpc = "sleep" => Covers({}, timeout)
                                      /\ tpc = "wait" => Covers({}, left))'
  BY SMTT(30) DEF Watch
<1>1. tpc' = "scan" => Scanned'
  OBVIOUS
<1>2. ASSUME tpc = "sleep" PROVE \A x \in Timers' \ {} : Live(x)' => timeout <= node'[x].due
  <2>1. Covers({}, timeout)
    BY <1>2 DEF Watch
  <2> QED
    BY <2>1, CoversCarry, Zenon
<1>3. ASSUME tpc = "wait" PROVE \A x \in Timers' \ {} : Live(x)' => left <= node'[x].due
  <2>1. Covers({}, left)
    BY <1>3 DEF Watch
  <2> QED
    BY <2>1, CoversCarry, Zenon
<1> QED
  BY <1>1, <1>2, <1>3, Zenon DEF Covers

\* The same, for a scan whose path the step does not touch.
LEMMA ScanCarry ==
  ASSUME Scanned, cur' = cur, min' = min, \A x \in Cell : node'[x].next = node[x].next,
         Timers' \subseteq Timers,
         \A x \in Timers' : Live(x)' => Live(x) /\ node'[x].due = node[x].due
  PROVE  Scanned'
<1>1. PICK m \in Nat : \E u \in [1..m -> Cell] : Path(m, u) /\ Covers(Cells(m, u), min)
  BY SMTT(30) DEF Scanned
<1>2. PICK u \in [1..m -> Cell] : Path(m, u) /\ Covers(Cells(m, u), min)
  BY <1>1, SMTT(30)
<1>3. Path(m, u)'
  <2>1. \A i \in 1..m : u[i] \in Cell
    OBVIOUS
  <2> QED
    BY <1>2, <2>1, Zenon DEF Path
<1>4. Cells(m, u)' = Cells(m, u)
  BY DEF Cells
<1>5. Covers(Cells(m, u), min)'
  <2>1. \A x \in Timers' \ Cells(m, u) : Live(x)' => min <= node'[x].due
    BY <1>2, CoversCarry, Zenon
  <2> QED
    BY <1>4, <2>1, Zenon DEF Covers
<1> QED
  BY <1>3, <1>5, Zenon DEF Scanned

-----------------------------------------------------------------------------
(* The scan                                                                *)

\* The scan starts with the whole list before it.
LEMMA ScanStarts ==
  ASSUME IInv, ScanLock
  PROVE  Scanned'
<1>0. /\ node' = node /\ cur' = head /\ min' = min /\ alloc' = alloc /\ call' = call
  BY DEF ScanLock, list
<1>1. PICK n \in Nat : \E w \in [1..n -> Cell] :
          Chain(n, w) /\ Members(Cells(n, w)) /\ Cells(n, w) = Timers
  BY TimersChain
<1>2. PICK w \in [1..n -> Cell] : Chain(n, w) /\ Cells(n, w) = Timers
  BY <1>1, SMTT(30)
<1>3. Path(n, w)'
  BY <1>0, <1>2, SMTT(30) DEF Path, Chain
<1>4. Timers' = Timers /\ Cells(n, w)' = Cells(n, w)
  BY <1>0, SMTT(30) DEF Timers, AddedCells, Adding, Cells
<1>5. Covers(Cells(n, w), min)'
  BY <1>2, <1>4, SMTT(30) DEF Covers
<1> QED
  BY <1>3, <1>5, Zenon DEF Scanned

\* The due time of a timer that is going to fire is its own unsigned value.
LEMMA UnsignedDue ==
  ASSUME IInv, Dues, NEW x \in Timers, Live(x)
  PROVE  Unsigned(node[x].due) = node[x].due /\ node[x].due \in Nat
<1>1. x \in Cell /\ x \in alloc /\ node[x].due \in Int
  BY TimersType, NodeFields, SMTT(30)
<1>2. node[x].due >= 0 /\ 2 * node[x].due < Word
  BY <1>1 DEF Dues, Live, Short
<1>3. Word \in Nat /\ Word > 0
  BY ConstantTypes
<1> QED
  BY <1>1, <1>2, <1>3, SMTT(30) DEF Unsigned

\* Each round of the scan takes its timer into the minimum.
LEMMA ScanGoesOn ==
  ASSUME IInv, Dues, Scanned, ScanNode
  PROVE  Scanned'
<1>0. /\ node' = node /\ cur' = node[cur].next /\ alloc' = alloc /\ call' = call
      /\ cur # NULL
  BY DEF ScanNode, list
<1>1. PICK m \in Nat : \E u \in [1..m -> Cell] : Path(m, u) /\ Covers(Cells(m, u), min)
  BY DEF Scanned
<1>2. PICK u \in [1..m -> Cell] : Path(m, u) /\ Covers(Cells(m, u), min)
  BY <1>1, SMTT(30)
<1>3. m # 0 /\ cur = u[1] /\ 1 \in 1..m /\ m - 1 \in Nat /\ cur \in Cell
  BY <1>0, <1>2 DEF Path
<1> DEFINE v == [j \in 1..m - 1 |-> u[j + 1]]
<1>4. v \in [1..m - 1 -> Cell] /\ \A j \in 1..m - 1 : v[j] = u[j + 1] /\ j + 1 \in 1..m
  BY <1>3
<1> HIDE DEF v
<1>5. Path(m - 1, v)'
  <2>1. \A i, j \in 1..m - 1 : v[i] = v[j] => i = j
    <3> SUFFICES ASSUME NEW i \in 1..m - 1, NEW j \in 1..m - 1, v[i] = v[j] PROVE i = j
      BY Zenon
    <3>1. u[i + 1] = u[j + 1] /\ i + 1 \in 1..m /\ j + 1 \in 1..m
      BY <1>4, Zenon
    <3>2. i + 1 = j + 1
      BY <1>2, <3>1, Zenon DEF Path
    <3> QED
      BY <3>2
  <2>2. node[cur].next = IF m - 1 = 0 THEN NULL ELSE v[1]
    BY <1>2, <1>3, <1>4, SMTT(30) DEF Path
  <2>3. \A i \in 1..m - 1 : node[v[i]].next = IF i = m - 1 THEN NULL ELSE v[i + 1]
    <3> SUFFICES ASSUME NEW i \in 1..m - 1
          PROVE node[v[i]].next = IF i = m - 1 THEN NULL ELSE v[i + 1]
      BY Zenon
    <3>1. v[i] = u[i + 1] /\ i + 1 \in 1..m
      BY <1>4, SMTT(30)
    <3>2. node[u[i + 1]].next = IF i + 1 = m THEN NULL ELSE u[i + 1 + 1]
      BY <1>2, <3>1, SMTT(30) DEF Path
    <3>3. i # m - 1 => i + 1 \in 1..m - 1 /\ v[i + 1] = u[i + 1 + 1]
      BY <1>3, <1>4
    <3> QED
      BY <1>3, <3>1, <3>2, <3>3
  <2> QED
    BY <1>0, <2>1, <2>2, <2>3, Zenon DEF Path
<1>6. \A x \in Cells(m, u) : x = cur \/ x \in Cells(m - 1, v)
  <2> SUFFICES ASSUME NEW i \in 1..m PROVE u[i] = cur \/ u[i] \in Cells(m - 1, v)
    BY DEF Cells
  <2>1. i # 1 => i - 1 \in 1..m - 1 /\ v[i - 1] = u[i]
    BY <1>3, <1>4, SMTT(30)
  <2> QED
    BY <1>3, <2>1 DEF Cells
<1>7. Timers' = Timers /\ Cells(m - 1, v)' = Cells(m - 1, v)
  BY <1>0, SMTT(30) DEF Timers, AddedCells, Adding, Cells
<1>8. /\ min \in Int /\ min' \in Int /\ min' <= min
      /\ node[cur].status = "enable" => min' <= Unsigned(node[cur].due)
  <2>1. min \in Int /\ Unsigned(node[cur].due) \in Int
    <3>1. node[cur].due \in Int
      BY <1>3, NodeFields DEF IInv, Types
    <3>2. Unsigned(node[cur].due) \in 0..Forever
      BY <3>1, UnsignedType, ZenonT(60)
    <3> QED
      BY <3>2, SMTT(30) DEF IInv, Types
  <2> QED
    BY <2>1 DEF ScanNode
<1>9. ASSUME NEW x \in Timers \ Cells(m - 1, v), Live(x) PROVE min' <= node[x].due
  <2>0. node[x].due \in Nat /\ Unsigned(node[x].due) = node[x].due
    BY <1>9, UnsignedDue
  <2>1. CASE x = cur
    BY <1>8, <1>9, <2>0, <2>1, SMTT(30) DEF Live
  <2>2. CASE x # cur
    <3>1. min <= node[x].due
      BY <1>2, <1>6, <1>9, <2>2 DEF Covers
    <3> QED
      BY <1>8, <2>0, <3>1, SMTT(30)
  <2> QED
    BY <2>1, <2>2, SMTT(30)
<1>10. Covers(Cells(m - 1, v), min)'
  BY <1>0, <1>7, <1>9, Zenon DEF Covers, Live
<1> QED
  BY <1>3, <1>4, <1>5, <1>10, Zenon DEF Scanned

\* At its end the minimum covers the list.
LEMMA ScanEnds ==
  ASSUME Scanned, cur = NULL
  PROVE  Covers({}, min)
<1>1. PICK m \in Nat : \E u \in [1..m -> Cell] : Path(m, u) /\ Covers(Cells(m, u), min)
  BY DEF Scanned
<1>2. PICK u \in [1..m -> Cell] : Path(m, u) /\ Covers(Cells(m, u), min)
  BY <1>1, SMTT(30)
<1>3. m = 0
  <2>1. m # 0 => 1 \in 1..m
    OBVIOUS
  <2> QED
    BY <1>2, <2>1, CellAssumption DEF Path
<1>4. Cells(m, u) = {}
  BY <1>3 DEF Cells
<1> QED
  BY <1>2, <1>4

=============================================================================
