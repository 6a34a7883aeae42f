-------------------------- MODULE SwHashmapProofs --------------------------
(***************************************************************************)
(* Theorems about the hash map of swapi, for any keys and values, any hash *)
(* function, any size of the first table and any number of failures: the   *)
(* count of the entries is right, and as long as memory lasts a lookup     *)
(* finds exactly what is in the map.                                       *)
(***************************************************************************)
EXTENDS SwHashmap, TLAPS, FiniteSetTheorems

-----------------------------------------------------------------------------
(* The invariant                                                           *)

Used(c) == c \in 0..table_size - 1 /\ data[c].in_use = 1
Waits(j) == j \in 1..Len(old) /\ old[j].in_use = 1
UsedCells == {c \in 0..table_size - 1 : data[c].in_use = 1}

\* An entry has a key and a value; during a rehash a put holds the lock.
Types ==
  /\ table_size \in Nat \ {0} /\ size \in Nat
  /\ data \in [0..table_size - 1 -> Cell] /\ old \in Seq(Cell)
  /\ \A c : Used(c) => data[c].key \in Key /\ data[c].value \in Value
  /\ \A j : Waits(j) => old[j].key \in Key /\ old[j].value \in Value
  /\ todo \in [key : Key, value : Value] \union {None}
  /\ old # <<>> => todo # None
  /\ failures \in 0..Failures
  /\ stored \in [Key -> Value \union {None}]

\* size counts the entries, and those that a rehash still has to put fit into half
\* of the new table.
Counts ==
  /\ size = Cardinality(UsedCells)
  /\ old # <<>> => 2 * (size + Len(old)) <= table_size

\* The probe sequence of k reaches the cell c before any cell that was never used.
Reached(k, c) ==
  \E i \in 1..table_size : /\ Probe(k)[i] = c
                           /\ \A j \in 1..i - 1 : data[Probe(k)[j]].in_use # 0

\* No key has two entries, counting those the rehash has not passed yet, and each
\* entry of the table is within reach of its key.
Unique ==
  /\ \A c, d : Used(c) /\ Used(d) /\ data[c].key = data[d].key => c = d
  /\ \A i, j : Waits(i) /\ Waits(j) /\ old[i].key = old[j].key => i = j
  /\ \A c, j : Used(c) /\ Waits(j) => data[c].key # old[j].key
Reach == \A c : Used(c) => Reached(data[c].key, c)

\* The entries are what the callers were told, and the put under way is of a new key.
Contents ==
  /\ \A c : Used(c) => stored[data[c].key] = data[c].value
  /\ \A j : Waits(j) => stored[old[j].key] = old[j].value
  /\ \A k \in Key : stored[k] # None =>
       (\E c : Used(c) /\ data[c].key = k) \/ (\E j : Waits(j) /\ old[j].key = k)
  /\ todo # None => stored[todo.key] = None

Map == failures = 0 => Unique /\ Reach /\ Contents

IInv == Types /\ Counts /\ Map

-----------------------------------------------------------------------------
(* Probe sequences                                                         *)

\* A non-empty set of natural numbers has a least element.
LEMMA LeastNatural ==
  ASSUME NEW S \in SUBSET Nat, S # {}
  PROVE  \E m \in S : \A k \in S : m <= k
<1> DEFINE R == OpToRel(<, Nat)
<1>1. IsWellFoundedOn(R, Nat)
  BY NatLessThanWellFounded, Zenon
<1>2. \A a, b \in Nat : <<a, b>> \in R <=> a < b
  BY DEF OpToRel
<1> HIDE DEF R
<1>3. PICK m \in S : \A k \in S : <<k, m>> \notin R
  BY <1>1, WFMin, Zenon
<1>4. ASSUME NEW k \in S PROVE m <= k
  <2>1. k \in Nat /\ m \in Nat /\ ~ (k < m)
    BY <1>2, <1>3, Zenon
  <2> QED
    BY <2>1
<1> QED
  BY <1>4, Zenon

\* One step past the end of the table is its first cell.
LEMMA Wraps ==
  ASSUME NEW n \in Nat \ {0}, NEW a \in 0..2 * n - 1
  PROVE  a % n = IF a < n THEN a ELSE a - n
OBVIOUS

\* The probe sequence of a key goes over all cells of the table.
LEMMA ProbeCovers ==
  ASSUME Types, NEW k \in Key
  PROVE  /\ Probe(k) \in [1..table_size -> 0..table_size - 1]
         /\ \A c \in 0..table_size - 1 : \E i \in 1..table_size : Probe(k)[i] = c
<1> DEFINE n == table_size
           h == Hash[k] % n
<1>1. n \in Nat \ {0}
  BY DEF Types
<1>2. h \in 0..n - 1
  BY <1>1, HashAssumption
<1>3. \A i \in 1..n : Probe(k)[i] = (h + i - 1) % n
  BY DEF Probe
<1>4. Probe(k) = [i \in 1..n |-> (h + i - 1) % n]
  BY DEF Probe
<1> HIDE DEF n, h
<1>5. ASSUME NEW i \in 1..n
      PROVE  (h + i - 1) % n = IF h + i - 1 < n THEN h + i - 1 ELSE h + i - 1 - n
  <2>1. PICK a \in 0..2 * n - 1 : a = h + i - 1
    BY <1>1, <1>2
  <2>2. a % n = IF a < n THEN a ELSE a - n
    BY <1>1, Wraps, Zenon
  <2> QED
    BY <1>1, <1>2, <2>1, <2>2
<1>a. \A i \in 1..n : Probe(k)[i] = IF h + i - 1 < n THEN h + i - 1 ELSE h + i - 1 - n
  BY <1>3, <1>5, Zenon
<1>6. Probe(k) \in [1..n -> 0..n - 1]
  <2>1. \A i \in 1..n : (h + i - 1) % n \in 0..n - 1
    BY <1>1, <1>2, <1>5
  <2> QED
    BY <1>4, <2>1
<1>7. ASSUME NEW c \in 0..n - 1 PROVE \E i \in 1..n : Probe(k)[i] = c
  <2>1. CASE c >= h
    <3>1. PICK i \in 1..n : h + i - 1 = c
      BY <1>1, <1>2, <2>1
    <3> QED
      BY <1>1, <1>a, <3>1
  <2>2. CASE c < h
    <3>1. PICK i \in 1..n : h + i - 1 = c + n
      BY <1>1, <1>2, <2>2
    <3> QED
      BY <1>1, <1>2, <1>a, <3>1
  <2> QED
    BY <1>1, <1>2, <2>1, <2>2
<1> QED
  BY <1>6, <1>7 DEF n

\* The search along a probe sequence ends at the first cell it looks for.
LEMMA FirstCellFound ==
  ASSUME NEW n \in Nat, NEW ps, DOMAIN ps = 1..n, NEW S,
         \E i \in 1..n : ps[i] \in S
  PROVE  \E i \in 1..n : /\ FirstCell(ps, S) = ps[i] /\ ps[i] \in S
                         /\ \A j \in 1..i - 1 : ps[j] \notin S
<1> DEFINE T == {i \in 1..n : ps[i] \in S}
           First(i) == ps[i] \in S /\ \A j \in 1..i - 1 : ps[j] \notin S
<1>1. T \in SUBSET Nat /\ T # {}
  OBVIOUS
<1>2. PICK m \in T : \A j \in T : m <= j
  BY <1>1, LeastNatural, Zenon
<1>3. m \in 1..n /\ First(m)
  <2>1. ASSUME NEW j \in 1..m - 1 PROVE ps[j] \notin S
    <3>1. j \in 1..n /\ ~ (m <= j)
      OBVIOUS
    <3> QED
      BY <1>2, <3>1
  <2> QED
    BY <2>1
<1>4. FirstCell(ps, S) = ps[CHOOSE i \in 1..n : First(i)]
  BY Zenon DEF FirstCell
<1> HIDE DEF First
<1>5. (CHOOSE i \in 1..n : First(i)) \in 1..n /\ First(CHOOSE i \in 1..n : First(i))
  BY <1>3, Zenon
<1> QED
  BY <1>4, <1>5, Zenon DEF First

\* While there are fewer entries than cells, find_empty finds a cell that is not in
\* use, and all cells in front of it in the probe sequence are.
LEMMA EmptyFound ==
  ASSUME Types, Counts, size < table_size, NEW k \in Key
  PROVE  /\ find_empty(k) \in 0..table_size - 1
         /\ data[find_empty(k)].in_use # 1
         /\ \E i \in 1..table_size : /\ Probe(k)[i] = find_empty(k)
                                     /\ \A j \in 1..i - 1 : data[Probe(k)[j]].in_use = 1
<1> DEFINE S == {c \in DOMAIN data : data[c].in_use # 1}
<1>1. DOMAIN data = 0..table_size - 1 /\ table_size \in Nat /\ size \in Nat
  BY DEF Types
<1>2. PICK c \in 0..table_size - 1 : data[c].in_use # 1
  <2> SUFFICES ASSUME \A c \in 0..table_size - 1 : data[c].in_use = 1 PROVE FALSE
    BY Zenon
  <2>1. UsedCells = 0..table_size - 1
    BY Zenon DEF UsedCells
  <2>2. Cardinality(0..table_size - 1) = table_size
    BY <1>1, FS_Interval
  <2> QED
    BY <1>1, <2>1, <2>2 DEF Counts
<1>3. /\ DOMAIN Probe(k) = 1..table_size
      /\ \A i \in 1..table_size : Probe(k)[i] \in 0..table_size - 1
      /\ \E i \in 1..table_size : Probe(k)[i] = c
  BY ProbeCovers, Zenon
<1>4. \E i \in 1..table_size : Probe(k)[i] \in S
  BY <1>1, <1>2, <1>3, Zenon
<1>5. PICK i \in 1..table_size :
        /\ find_empty(k) = Probe(k)[i] /\ Probe(k)[i] \in S
        /\ \A j \in 1..i - 1 : Probe(k)[j] \notin S
  BY <1>1, <1>3, <1>4, FirstCellFound, Zenon DEF find_empty
<1>6. ASSUME NEW j \in 1..i - 1 PROVE data[Probe(k)[j]].in_use = 1
  <2>1. j \in 1..table_size
    BY <1>1
  <2> QED
    BY <1>1, <1>3, <1>5, <2>1, Zenon
<1> QED
  BY <1>1, <1>5, <1>6, Zenon

-----------------------------------------------------------------------------
(* What the steps do to the table                                          *)

\* The contents of a cell.
LEMMA CellFields ==
  /\ \A x \in Cell : /\ x.in_use \in {0, 1, -1} /\ x.key \in Key \union {None}
                     /\ x.value \in Value \union {None}
  /\ Empty \in Cell /\ Empty.in_use = 0
  /\ [Empty EXCEPT !.in_use = -1] \in Cell /\ [Empty EXCEPT !.in_use = -1].in_use = -1
  /\ \A k \in Key, v \in Value :
       /\ Entry(k, v) \in Cell /\ Entry(k, v).in_use = 1
       /\ Entry(k, v).key = k /\ Entry(k, v).value = v
BY DEF Cell, Empty, Entry

\* The cells of a table are finitely many.
LEMMA UsedFinite ==
  ASSUME Types
  PROVE  IsFiniteSet(UsedCells) /\ UsedCells \subseteq 0..table_size - 1
<1>1. IsFiniteSet(0..table_size - 1)
  BY FS_Interval DEF Types
<1>2. UsedCells \subseteq 0..table_size - 1
  BY DEF UsedCells
<1> QED
  BY <1>1, <1>2, FS_Subset, Zenon

\* The table is as it was but for the cell p, and what was reached is reached.
Changed(p, x) ==
  /\ data' \in [0..table_size - 1 -> Cell] /\ data'[p] = x
  /\ \A c \in 0..table_size - 1 : c # p => data'[c] = data[c]

\* A change of a cell to the contents x.
LEMMA ChangeOne ==
  ASSUME Types, NEW p \in 0..table_size - 1, NEW x \in Cell,
         data' = [data EXCEPT ![p] = x]
  PROVE  Changed(p, x)
BY DEF Types, Changed

\* An entry in a cell that was not in use is counted.
LEMMA CountUp ==
  ASSUME Types, Counts, NEW p \in 0..table_size - 1, NEW x \in Cell, Changed(p, x),
         table_size' = table_size, data[p].in_use # 1, x.in_use = 1
  PROVE  size + 1 = Cardinality(UsedCells')
<1>1. UsedCells' = UsedCells \union {p} /\ p \notin UsedCells
  BY DEF UsedCells, Changed
<1>2. Cardinality(UsedCells \union {p}) = Cardinality(UsedCells) + 1
  BY <1>1, UsedFinite, FS_AddElement, Zenon
<1> QED
  BY <1>1, <1>2 DEF Counts

\* An entry that is taken away is not counted any more.
LEMMA CountDown ==
  ASSUME Types, Counts, NEW p \in 0..table_size - 1, NEW x \in Cell, Changed(p, x),
         table_size' = table_size, data[p].in_use = 1, x.in_use # 1
  PROVE  size - 1 = Cardinality(UsedCells') /\ size >= 1
<1>1. UsedCells' = UsedCells \ {p} /\ p \in UsedCells
  BY DEF UsedCells, Changed
<1>2. Cardinality(UsedCells \ {p}) = Cardinality(UsedCells) - 1
  BY <1>1, UsedFinite, FS_RemoveElement, Zenon
<1>3. Cardinality(UsedCells \ {p}) \in Nat
  BY UsedFinite, FS_RemoveElement, FS_CardinalityType, Zenon
<1> QED
  BY <1>1, <1>2, <1>3 DEF Counts, Types

\* A cell without an entry that stays without one does not count.
LEMMA CountSame ==
  ASSUME Types, Counts, NEW p \in 0..table_size - 1, NEW x \in Cell, Changed(p, x),
         table_size' = table_size, data[p].in_use # 1, x.in_use # 1
  PROVE  size = Cardinality(UsedCells')
<1>1. UsedCells' = UsedCells
  BY DEF UsedCells, Changed
<1> QED
  BY <1>1 DEF Counts

\* Unless a cell becomes one that was never used, what was reached stays so.
LEMMA ReachStays ==
  ASSUME Types, NEW p \in 0..table_size - 1, NEW x \in Cell, Changed(p, x),
         table_size' = table_size, x.in_use # 0,
         NEW k \in Key, NEW c, Reached(k, c)
  PROVE  Reached(k, c)'
<1>1. PICK i \in 1..table_size : /\ Probe(k)[i] = c
                                 /\ \A j \in 1..i - 1 : data[Probe(k)[j]].in_use # 0
  BY DEF Reached
<1>2. Probe(k)' = Probe(k)
  BY Zenon DEF Probe
<1>3. ASSUME NEW j \in 1..i - 1 PROVE data'[Probe(k)[j]].in_use # 0
  <2>1. j \in 1..table_size
    BY DEF Types
  <2>2. Probe(k)[j] \in 0..table_size - 1
    BY <2>1, ProbeCovers, Zenon
  <2> QED
    BY <1>1, <2>2, Zenon DEF Changed
<1> QED
  BY <1>1, <1>2, <1>3, Zenon DEF Reached

\* What hashmap_put does once it has found its cell p.
Placed(p, k, v) ==
  /\ Changed(p, Entry(k, v)) /\ ~ Used(p)
  /\ \A c : Used(c)' <=> Used(c) \/ c = p
  /\ size' \in Nat /\ size' = size + 1 /\ size' = Cardinality(UsedCells')
  /\ Reached(k, p)'
  /\ \A kk \in Key : \A c : Reached(kk, c) => Reached(kk, c)'

\* With room in the table, the entry is in a cell that its key reaches.
LEMMA PlaceFits ==
  ASSUME Types, Counts, size < table_size, table_size' = table_size,
         NEW k \in Key, NEW v \in Value, Place(k, v)
  PROVE  \E p \in 0..table_size - 1 : Placed(p, k, v)
<1>1. PICK p \in 0..table_size - 1 :
        /\ p = find_empty(k) /\ data[p].in_use # 1
        /\ \E i \in 1..table_size : /\ Probe(k)[i] = p
                                    /\ \A j \in 1..i - 1 : data[Probe(k)[j]].in_use = 1
  BY EmptyFound, Zenon
<1>2. Entry(k, v) \in Cell /\ Entry(k, v).in_use = 1
  BY CellFields
<1>3. Changed(p, Entry(k, v))
  BY <1>1, <1>2, ChangeOne, Zenon DEF Place
<1>4. \A kk \in Key : \A c : Reached(kk, c) => Reached(kk, c)'
  <2>1. Entry(k, v).in_use # 0
    BY <1>2
  <2> QED
    BY <1>2, <1>3, <2>1, ReachStays, Zenon
<1>5. Reached(k, p)'
  <2>1. Reached(k, p)
    BY <1>1 DEF Reached
  <2> QED
    BY <1>4, <2>1, Zenon
<1>6. size + 1 = Cardinality(UsedCells') /\ size' = size + 1
  BY <1>1, <1>2, <1>3, CountUp, Zenon DEF Place
<1>7. size' \in Nat
  BY <1>6 DEF Types
<1>8. ASSUME NEW c PROVE Used(c)' <=> Used(c) \/ c = p
  BY <1>1, <1>2, <1>3 DEF Used, Changed
<1> QED
  BY <1>1, <1>3, <1>4, <1>5, <1>6, <1>7, <1>8, Zenon DEF Placed, Used

\* A new key has one entry afterwards, and all entries are reached.
LEMMA PlacedOnce ==
  ASSUME Types, NEW p \in 0..table_size - 1, NEW k \in Key, NEW v \in Value, Placed(p, k, v),
         \A c : Used(c) => data[c].key # k,
         \A c, d : Used(c) /\ Used(d) /\ data[c].key = data[d].key => c = d,
         Reach
  PROVE  /\ \A c : Used(c)' => \/ c = p /\ data'[c].key = k /\ data'[c].value = v
                               \/ c # p /\ Used(c) /\ data'[c] = data[c]
         /\ data'[p].key = k /\ Used(p)'
         /\ \A c : Used(c) => Used(c)' /\ data'[c] = data[c]
         /\ \A c, d : Used(c)' /\ Used(d)' /\ data'[c].key = data'[d].key => c = d
         /\ Reach'
<1>1. data'[p].key = k /\ data'[p].value = v
  BY CellFields DEF Placed, Changed
<1>2. \A c : Used(c) => c # p /\ data'[c] = data[c]
  BY Zenon DEF Placed, Changed, Used
<1>3. \A c : Used(c)' <=> Used(c) \/ c = p
  BY DEF Placed
<1>4. \A c, d : Used(c)' /\ Used(d)' /\ data'[c].key = data'[d].key => c = d
  BY <1>1, <1>2, <1>3, Zenon
<1>5. Reach'
  <2>1. ASSUME NEW c, Used(c)' PROVE Reached(data[c].key, c)'
    <3>1. PICK kk \in Key : kk = data'[c].key /\ Reached(kk, c)'
      <4>1. CASE c = p
        BY <1>1, <4>1, Zenon DEF Placed
      <4>2. CASE c # p
        <5>1. Used(c) /\ data'[c] = data[c] /\ data[c].key \in Key
          BY <1>2, <1>3, <2>1, <4>2, Zenon DEF Types
        <5>2. PICK kk \in Key : kk = data[c].key
          BY <5>1
        <5>3. Reached(kk, c)
          BY <5>1, <5>2, Zenon DEF Reach
        <5> QED
          BY <5>1, <5>2, <5>3, Zenon DEF Placed
      <4> QED
        BY <4>1, <4>2
    <3> QED
      BY <3>1, Zenon DEF Reached
  <2> QED
    BY <2>1, Zenon DEF Reach
<1> QED
  BY <1>1, <1>2, <1>3, <1>4, <1>5, Zenon

-----------------------------------------------------------------------------
(* The steps keep the invariant                                            *)

\* The table sw_hashmap_create makes has no entries.
LEMMA InvInit == Init => IInv
<1> SUFFICES ASSUME Init PROVE IInv
  OBVIOUS
<1>1. /\ table_size = TableSize /\ TableSize \in Nat \ {0} /\ size = 0 /\ old = <<>>
      /\ data = [c \in 0..table_size - 1 |-> Empty]
  BY HashAssumption DEF Init, NewTable
<1>2. \A c : ~ Used(c)
  BY <1>1, CellFields DEF Used
<1>3. \A j : ~ Waits(j)
  BY <1>1 DEF Waits
<1>4. Types
  <2>1. data \in [0..table_size - 1 -> Cell]
    BY <1>1, CellFields
  <2>2. 0 \in 0..Failures
    BY BoundAssumption
  <2> QED
    BY <1>1, <1>2, <1>3, <2>1, <2>2 DEF Types, Init
<1>5. Counts
  <2>1. UsedCells = {}
    BY <1>2, Zenon DEF UsedCells, Used
  <2> QED
    BY <1>1, <2>1, FS_EmptySet DEF Counts
<1>6. Map
  <2>1. \A k \in Key : stored[k] = None
    BY DEF Init
  <2> QED
    BY <1>2, <1>3, <2>1, Zenon DEF Map, Unique, Reach, Contents, Init
<1> QED
  BY <1>4, <1>5, <1>6 DEF IInv

\* Steps that leave the table alone.
LEMMA ReachSame ==
  ASSUME UNCHANGED <<data, table_size>>, Reach
  PROVE  Reach'
<1>1. \A k : Probe(k)' = Probe(k)
  BY DEF Probe
<1>2. \A k, c : Reached(k, c) => Reached(k, c)'
  BY <1>1, Zenon DEF Reached
<1>3. \A c : Used(c)' => Used(c) /\ data'[c] = data[c]
  BY Zenon DEF Used
<1> QED
  BY <1>2, <1>3, Zenon DEF Reach

\* Steps that leave the tables alone.
LEMMA TablesStay ==
  ASSUME IInv, UNCHANGED <<data, table_size, size, old>>
  PROVE  /\ \A c : Used(c)' <=> Used(c)
         /\ \A j : Waits(j)' <=> Waits(j)
         /\ Counts'
         /\ Unique => Unique'
         /\ Reach => Reach'
<1>1. \A c : Used(c)' <=> Used(c)
  BY Zenon DEF Used
<1>2. \A j : Waits(j)' <=> Waits(j)
  BY Zenon DEF Waits
<1>3. Counts'
  BY Zenon DEF IInv, Counts, UsedCells
<1>4. Unique => Unique'
  BY <1>1, <1>2, Zenon DEF Unique
<1>5. Reach => Reach'
  BY ReachSame, Zenon
<1> QED
  BY <1>1, <1>2, <1>3, <1>4, <1>5, Zenon

\* A put takes the lock for a key that is not in the map.
LEMMA PutStartKeeps ==
  ASSUME IInv, ~ Overwrites, NEW k \in Key, NEW v \in Value, PutStart(k, v)
  PROVE  IInv'
<1>1. /\ UNCHANGED <<data, table_size, size, old, failures, stored>>
      /\ todo = None /\ stored[k] = None /\ todo' = [key |-> k, value |-> v]
  BY DEF PutStart
<1>2. /\ \A c : Used(c)' <=> Used(c)
      /\ \A j : Waits(j)' <=> Waits(j)
      /\ Counts'
      /\ Unique => Unique'
      /\ Reach => Reach'
  BY <1>1, TablesStay, Zenon
<1>3. todo' \in [key : Key, value : Value] /\ todo'.key = k
  BY <1>1
<1>4. Types'
  <2>1. todo' # None
    BY <1>3, NoneAssumption, Zenon
  <2> QED
    BY <1>1, <1>2, <1>3, <2>1, Zenon DEF IInv, Types
<1>5. Contents => Contents'
  BY <1>1, <1>2, <1>3, Zenon DEF Contents
<1> QED
  BY <1>1, <1>2, <1>4, <1>5, Zenon DEF IInv, Map

\* No memory for the new table: the old one stays as it was.
LEMMA PutGrowFailsKeeps ==
  ASSUME IInv, PutGrowFails
  PROVE  IInv'
<1>1. /\ UNCHANGED <<data, table_size, size, old, stored>>
      /\ old = <<>> /\ todo' = None /\ failures < Failures /\ failures' = failures + 1
  BY DEF PutGrowFails
<1>2. /\ \A c : Used(c)' <=> Used(c)
      /\ \A j : Waits(j)' <=> Waits(j)
      /\ Counts'
  BY <1>1, TablesStay, Zenon
<1>3. failures' \in 0..Failures /\ failures' # 0
  BY <1>1, BoundAssumption DEF IInv, Types
<1>4. Types'
  BY <1>1, <1>2, <1>3, Zenon DEF IInv, Types
<1> QED
  BY <1>2, <1>3, <1>4, Zenon DEF IInv, Map

\* The new table is empty, and the entries of the old one wait.
LEMMA PutGrowKeeps ==
  ASSUME IInv, PutGrow
  PROVE  IInv'
<1> DEFINE n == table_size
<1>1. /\ UNCHANGED <<todo, failures, stored>> /\ todo # None /\ old = <<>>
      /\ old' = [i \in 1..n |-> data[i - 1]]
      /\ data' = [c \in 0..2 * n - 1 |-> Empty] /\ table_size' = 2 * n /\ size' = 0
  BY DEF PutGrow, NewTable
<1>2. n \in Nat \ {0} /\ data \in [0..n - 1 -> Cell]
  BY DEF IInv, Types
<1>3. /\ table_size' \in Nat \ {0} /\ size' \in Nat
      /\ data' \in [0..table_size' - 1 -> Cell]
  BY <1>1, <1>2, CellFields
<1>4. \A i \in 1..n : i - 1 \in 0..n - 1 /\ data[i - 1] \in Cell
  BY <1>2
<1>5. old' \in Seq(Cell) /\ Len(old') = n /\ \A i \in 1..n : old'[i] = data[i - 1]
  BY <1>1, <1>2, <1>4
<1>6. \A c : ~ Used(c)'
  BY <1>1, <1>2, CellFields DEF Used
<1>7. /\ \A j : Waits(j)' => j \in 1..n /\ Used(j - 1) /\ old'[j] = data[j - 1]
      /\ \A j \in 1..n : Used(j - 1) => Waits(j)' /\ old'[j] = data[j - 1]
  BY <1>4, <1>5 DEF Waits, Used
<1> HIDE DEF n
<1>8. \A j : ~ Waits(j)
  BY <1>1 DEF Waits
<1>9. Types'
  <2>1. \A j : Waits(j)' => old'[j].key \in Key /\ old'[j].value \in Value
    BY <1>7, Zenon DEF IInv, Types
  <2> QED
    BY <1>1, <1>3, <1>5, <1>6, <2>1, Zenon DEF IInv, Types
<1>10. Counts'
  <2>1. UsedCells' = {}
    BY <1>6, Zenon DEF UsedCells, Used
  <2>2. 2 * (size' + Len(old')) <= table_size'
    BY <1>1, <1>2, <1>5
  <2> QED
    BY <1>1, <2>1, <2>2, FS_EmptySet, Zenon DEF Counts
<1>11. ASSUME Unique, Reach, Contents PROVE Unique' /\ Reach' /\ Contents'
  <2>1. Unique'
    <3>1. ASSUME NEW i, NEW j, Waits(i)', Waits(j)', old'[i].key = old'[j].key
          PROVE  i = j
      <4>1. /\ i \in 1..n /\ Used(i - 1) /\ old'[i] = data[i - 1]
            /\ j \in 1..n /\ Used(j - 1) /\ old'[j] = data[j - 1]
        BY <1>7, <3>1, Zenon
      <4>2. i - 1 = j - 1
        BY <1>11, <3>1, <4>1, Zenon DEF Unique
      <4> QED
        BY <1>2, <4>1, <4>2
    <3> QED
      BY <1>6, <3>1, Zenon DEF Unique
  <2>2. Reach'
    BY <1>6, Zenon DEF Reach
  <2>3. ASSUME NEW j, Waits(j)' PROVE stored[old'[j].key] = old'[j].value
    <3>1. Used(j - 1) /\ old'[j] = data[j - 1]
      BY <1>7, <2>3, Zenon
    <3>2. stored[data[j - 1].key] = data[j - 1].value
      BY <1>11, <3>1, Zenon DEF Contents
    <3> QED
      BY <3>1, <3>2, Zenon
  <2>4. ASSUME NEW k \in Key, stored[k] # None PROVE \E j : Waits(j)' /\ old'[j].key = k
    <3>1. PICK c : Used(c) /\ data[c].key = k
      BY <1>8, <1>11, <2>4, Zenon DEF Contents
    <3>2. PICK j \in 1..n : j - 1 = c
      BY <1>2, <3>1 DEF Used, n
    <3>3. Waits(j)' /\ old'[j] = data[c]
      BY <1>7, <3>1, <3>2, Zenon
    <3> QED
      BY <3>1, <3>3, Zenon
  <2>5. Contents'
    BY <1>1, <1>6, <1>11, <2>3, <2>4, Zenon DEF Contents
  <2> QED
    BY <2>1, <2>2, <2>5
<1> QED
  BY <1>1, <1>9, <1>10, <1>11, Zenon DEF IInv, Map

\* The rest of the old table after its first cell.
LEMMA Passed ==
  ASSUME Types, old # <<>>, old' = Tail(old)
  PROVE  /\ old' \in Seq(Cell) /\ Len(old') = Len(old) - 1 /\ Len(old) \in Nat \ {0}
         /\ Head(old) = old[1] /\ Head(old) \in Cell
         /\ Waits(1) <=> Head(old).in_use = 1
         /\ \A j : Waits(j)' => \E i : i # 1 /\ Waits(i) /\ old'[j] = old[i]
         /\ \A i : Waits(i) => i = 1 \/ \E j : Waits(j)' /\ old'[j] = old[i]
         /\ Unique => \A i, j : Waits(i)' /\ Waits(j)' /\ old'[i].key = old'[j].key => i = j
<1>1. old \in Seq(Cell)
  BY DEF Types
<1>2. /\ old' \in Seq(Cell) /\ Len(old') = Len(old) - 1 /\ Len(old) \in Nat \ {0}
      /\ \A j \in 1..Len(old) - 1 : old'[j] = old[j + 1]
  BY <1>1
<1>3. Head(old) = old[1] /\ Head(old) \in Cell
  BY <1>1
<1>4. Waits(1) <=> Head(old).in_use = 1
  BY <1>2, <1>3 DEF Waits
<1>5. ASSUME NEW j, Waits(j)'
      PROVE  j + 1 # 1 /\ Waits(j + 1) /\ old'[j] = old[j + 1]
  <2>1. j \in 1..Len(old) - 1 /\ old'[j].in_use = 1
    BY <1>2, <1>5 DEF Waits
  <2>2. old'[j] = old[j + 1] /\ j + 1 \in 1..Len(old) /\ j + 1 # 1
    BY <1>2, <2>1
  <2> QED
    BY <2>1, <2>2, Zenon DEF Waits
<1>6. ASSUME NEW i, Waits(i), i # 1 PROVE \E j : Waits(j)' /\ old'[j] = old[i]
  <2>1. PICK j \in 1..Len(old) - 1 : j + 1 = i
    <3>1. i \in 2..Len(old)
      BY <1>2, <1>6 DEF Waits
    <3>2. i - 1 \in 1..Len(old) - 1 /\ i - 1 + 1 = i
      BY <1>2, <3>1
    <3> QED
      BY <3>2
  <2>2. old'[j] = old[i] /\ j \in 1..Len(old')
    BY <1>2, <2>1
  <2> QED
    BY <1>6, <2>2, Zenon DEF Waits
<1>7. ASSUME Unique, NEW i, NEW j, Waits(i)', Waits(j)', old'[i].key = old'[j].key PROVE i = j
  <2>1. Waits(i + 1) /\ Waits(j + 1) /\ old'[i] = old[i + 1] /\ old'[j] = old[j + 1]
    BY <1>5, <1>7, Zenon
  <2>2. i + 1 = j + 1
    BY <1>7, <2>1, Zenon DEF Unique
  <2> QED
    BY <1>2, <1>7, <2>2 DEF Waits
<1>8. ASSUME NEW j, Waits(j)' PROVE \E i : i # 1 /\ Waits(i) /\ old'[j] = old[i]
  <2>1. j + 1 # 1 /\ Waits(j + 1) /\ old'[j] = old[j + 1]
    BY <1>5, <1>8, Zenon
  <2> QED
    BY <2>1, Zenon
<1>9. \A i : Waits(i) => i = 1 \/ \E j : Waits(j)' /\ old'[j] = old[i]
  BY <1>6, Zenon
<1>10. Unique => \A i, j : Waits(i)' /\ Waits(j)' /\ old'[i].key = old'[j].key => i = j
  BY <1>7, Zenon
<1> QED
  BY <1>2, <1>3, <1>4, <1>8, <1>9, <1>10, Zenon

\* A round of the rehash over a cell without an entry.
LEMMA RehashSkipKeeps ==
  ASSUME IInv, Rehash, Head(old).in_use # 1
  PROVE  IInv'
<1>1. /\ old # <<>> /\ old' = Tail(old)
      /\ UNCHANGED <<data, size, table_size, todo, failures, stored>>
  BY DEF Rehash
<1>2. /\ old' \in Seq(Cell) /\ Len(old') = Len(old) - 1 /\ Len(old) \in Nat \ {0}
      /\ ~ Waits(1)
      /\ \A j : Waits(j)' => \E i : i # 1 /\ Waits(i) /\ old'[j] = old[i]
      /\ \A i : Waits(i) => i = 1 \/ \E j : Waits(j)' /\ old'[j] = old[i]
      /\ Unique => \A i, j : Waits(i)' /\ Waits(j)' /\ old'[i].key = old'[j].key => i = j
  BY <1>1, Passed, Zenon DEF IInv
<1>3. \A c : Used(c)' <=> Used(c)
  BY <1>1, Zenon DEF Used
<1>4. Types'
  <2>1. \A j : Waits(j)' => old'[j].key \in Key /\ old'[j].value \in Value
    <3>1. \A i : Waits(i) => old[i].key \in Key /\ old[i].value \in Value
      BY Zenon DEF IInv, Types
    <3> QED
      BY <1>2, <3>1, Zenon
  <2>2. \A c : Used(c)' => data'[c].key \in Key /\ data'[c].value \in Value
    BY <1>1, <1>3, Zenon DEF IInv, Types
  <2> QED
    BY <1>1, <1>2, <2>1, <2>2, Zenon DEF IInv, Types
<1>5. Counts'
  <2>1. size' = Cardinality(UsedCells')
    BY <1>1, Zenon DEF IInv, Counts, UsedCells
  <2>2. 2 * (size' + Len(old')) <= table_size'
    <3>1. size \in Nat /\ table_size \in Nat /\ 2 * (size + Len(old)) <= table_size
      BY <1>1, Zenon DEF IInv, Types, Counts
    <3> QED
      BY <1>1, <1>2, <3>1
  <2> QED
    BY <2>1, <2>2, Zenon DEF Counts
<1>6. ASSUME Unique, Reach, Contents PROVE Unique' /\ Reach' /\ Contents'
  <2>1. Unique'
    <3>1. \A c, d : Used(c)' /\ Used(d)' /\ data'[c].key = data'[d].key => c = d
      BY <1>1, <1>3, <1>6, Zenon DEF Unique
    <3>2. ASSUME NEW c, NEW j, Used(c)', Waits(j)' PROVE data'[c].key # old'[j].key
      <4>1. PICK i : Waits(i) /\ old'[j] = old[i]
        BY <1>2, <3>2, Zenon
      <4>2. data[c].key # old[i].key
        BY <1>3, <1>6, <3>2, <4>1, Zenon DEF Unique
      <4> QED
        BY <1>1, <4>1, <4>2, Zenon
    <3> QED
      BY <1>2, <1>6, <3>1, <3>2, Zenon DEF Unique
  <2>2. Reach'
    BY <1>1, <1>6, ReachSame, Zenon
  <2>3. Contents'
    <3>1. \A c : Used(c)' => stored[data'[c].key] = data'[c].value
      BY <1>1, <1>3, <1>6, Zenon DEF Contents
    <3>2. ASSUME NEW j, Waits(j)' PROVE stored[old'[j].key] = old'[j].value
      <4>1. PICK i : Waits(i) /\ old'[j] = old[i]
        BY <1>2, <3>2, Zenon
      <4>2. stored[old[i].key] = old[i].value
        BY <1>6, <4>1, Zenon DEF Contents
      <4> QED
        BY <4>1, <4>2, Zenon
    <3>3. ASSUME NEW k \in Key, stored[k] # None
          PROVE  (\E c : Used(c)' /\ data'[c].key = k) \/ (\E j : Waits(j)' /\ old'[j].key = k)
      <4>1. CASE \E c : Used(c) /\ data[c].key = k
        BY <1>1, <1>3, <4>1, Zenon
      <4>2. CASE \E i : Waits(i) /\ old[i].key = k
        <5>1. PICK i : Waits(i) /\ old[i].key = k
          BY <4>2
        <5>2. PICK j : Waits(j)' /\ old'[j] = old[i]
          BY <1>2, <5>1, Zenon
        <5> QED
          BY <5>1, <5>2, Zenon
      <4> QED
        BY <1>6, <3>3, <4>1, <4>2, Zenon DEF Contents
    <3> QED
      BY <1>1, <1>6, <3>1, <3>2, <3>3, Zenon DEF Contents
  <2> QED
    BY <2>1, <2>2, <2>3
<1> QED
  BY <1>1, <1>4, <1>5, <1>6, Zenon DEF IInv, Map

\* A round of the rehash over an entry: it goes into the new table.
LEMMA RehashPutKeeps ==
  ASSUME IInv, Rehash, Head(old).in_use = 1
  PROVE  IInv'
<1>1. /\ old # <<>> /\ old' = Tail(old) /\ Place(Head(old).key, Head(old).value)
      /\ UNCHANGED <<table_size, todo, failures, stored>>
  BY Zenon DEF Rehash
<1>2. /\ old' \in Seq(Cell) /\ Len(old') = Len(old) - 1 /\ Len(old) \in Nat \ {0}
      /\ Waits(1) /\ Head(old) = old[1]
      /\ \A j : Waits(j)' => \E i : i # 1 /\ Waits(i) /\ old'[j] = old[i]
      /\ \A i : Waits(i) => i = 1 \/ \E j : Waits(j)' /\ old'[j] = old[i]
      /\ Unique => \A i, j : Waits(i)' /\ Waits(j)' /\ old'[i].key = old'[j].key => i = j
  BY <1>1, Passed, Zenon DEF IInv
<1>3. PICK k \in Key : k = old[1].key
  BY <1>2, Zenon DEF IInv, Types
<1>4. PICK v \in Value : v = old[1].value
  BY <1>2, Zenon DEF IInv, Types
<1>5. size \in Nat /\ table_size \in Nat /\ 2 * (size + Len(old)) <= table_size
  BY <1>1, Zenon DEF IInv, Types, Counts
<1>6. PICK p \in 0..table_size - 1 : Placed(p, k, v)
  <2>1. size < table_size
    BY <1>2, <1>5
  <2> QED
    BY <1>1, <1>2, <1>3, <1>4, <2>1, PlaceFits, Zenon DEF IInv
<1>7. data'[p].key = k /\ data'[p].value = v
  BY <1>6, CellFields DEF Placed, Changed
<1>8. /\ \A c : Used(c)' <=> Used(c) \/ c = p
      /\ \A c : Used(c) => c # p /\ data'[c] = data[c]
  BY <1>6, Zenon DEF Placed, Changed, Used
<1>9. Types'
  <2>1. ASSUME NEW j, Waits(j)' PROVE old'[j].key \in Key /\ old'[j].value \in Value
    <3>1. PICK i : Waits(i) /\ old'[j] = old[i]
      BY <1>2, <2>1, Zenon
    <3>2. old[i].key \in Key /\ old[i].value \in Value
      BY <3>1, Zenon DEF IInv, Types
    <3> QED
      BY <3>1, <3>2, Zenon
  <2>2. ASSUME NEW c, Used(c)' PROVE data'[c].key \in Key /\ data'[c].value \in Value
    <3>1. CASE c = p
      BY <1>7, <3>1, Zenon
    <3>2. CASE Used(c)
      BY <1>8, <3>2, Zenon DEF IInv, Types
    <3> QED
      BY <1>8, <2>2, <3>1, <3>2, Zenon
  <2>3. data' \in [0..table_size - 1 -> Cell] /\ size' \in Nat
    BY <1>6, Zenon DEF Placed, Changed
  <2> QED
    BY <1>1, <1>2, <2>1, <2>2, <2>3, Zenon DEF IInv, Types
<1>10. Counts'
  <2>1. size' = Cardinality(UsedCells') /\ size' = size + 1
    BY <1>6, Zenon DEF Placed
  <2>2. 2 * (size' + Len(old')) <= table_size'
    BY <1>1, <1>2, <1>5, <2>1
  <2> QED
    BY <2>1, <2>2, Zenon DEF Counts
<1>11. ASSUME Unique, Reach, Contents PROVE Unique' /\ Reach' /\ Contents'
  <2>1. \A c : Used(c) => data[c].key # k
    BY <1>2, <1>3, <1>11, Zenon DEF Unique
  <2>2. /\ \A c, d : Used(c)' /\ Used(d)' /\ data'[c].key = data'[d].key => c = d
        /\ Reach'
    BY <1>6, <1>11, <2>1, PlacedOnce, Zenon DEF IInv, Unique
  <2>3. ASSUME NEW c, NEW j, Used(c)', Waits(j)' PROVE data'[c].key # old'[j].key
    <3>1. PICK i : i # 1 /\ Waits(i) /\ old'[j] = old[i]
      BY <1>2, <2>3, Zenon
    <3>2. CASE c = p
      <4>1. old[i].key # old[1].key
        BY <1>2, <1>11, <3>1, Zenon DEF Unique
      <4> QED
        BY <1>3, <1>7, <3>1, <3>2, <4>1, Zenon
    <3>3. CASE Used(c)
      <4>1. data[c].key # old[i].key
        BY <1>11, <3>1, <3>3, Zenon DEF Unique
      <4> QED
        BY <1>8, <3>1, <3>3, <4>1, Zenon
    <3> QED
      BY <1>8, <2>3, <3>2, <3>3, Zenon
  <2>4. Unique'
    <3>1. \A i, j : Waits(i)' /\ Waits(j)' /\ old'[i].key = old'[j].key => i = j
      BY <1>2, <1>11, Zenon
    <3> QED
      BY <2>2, <2>3, <3>1, Zenon DEF Unique
  <2>5. ASSUME NEW c, Used(c)' PROVE stored[data'[c].key] = data'[c].value
    <3>1. CASE c = p
      <4>1. stored[old[1].key] = old[1].value
        BY <1>2, <1>11, Zenon DEF Contents
      <4> QED
        BY <1>3, <1>4, <1>7, <3>1, <4>1, Zenon
    <3>2. CASE Used(c)
      <4>1. stored[data[c].key] = data[c].value
        BY <1>11, <3>2, Zenon DEF Contents
      <4> QED
        BY <1>8, <3>2, <4>1, Zenon
    <3> QED
      BY <1>8, <2>5, <3>1, <3>2, Zenon
  <2>6. ASSUME NEW j, Waits(j)' PROVE stored[old'[j].key] = old'[j].value
    <3>1. PICK i : Waits(i) /\ old'[j] = old[i]
      BY <1>2, <2>6, Zenon
    <3>2. stored[old[i].key] = old[i].value
      BY <1>11, <3>1, Zenon DEF Contents
    <3> QED
      BY <3>1, <3>2, Zenon
  <2>7. ASSUME NEW kk \in Key, stored[kk] # None
        PROVE  (\E c : Used(c)' /\ data'[c].key = kk) \/ (\E j : Waits(j)' /\ old'[j].key = kk)
    <3>1. CASE \E c : Used(c) /\ data[c].key = kk
      <4>1. PICK c : Used(c) /\ data[c].key = kk
        BY <3>1
      <4> QED
        BY <1>8, <4>1, Zenon
    <3>2. CASE \E i : Waits(i) /\ old[i].key = kk
      <4>1. PICK i : Waits(i) /\ old[i].key = kk
        BY <3>2
      <4>2. CASE i = 1
        BY <1>3, <1>7, <1>8, <4>1, <4>2, Zenon
      <4>3. CASE i # 1
        <5>1. PICK j : Waits(j)' /\ old'[j] = old[i]
          BY <1>2, <4>1, <4>3, Zenon
        <5> QED
          BY <4>1, <5>1, Zenon
      <4> QED
        BY <4>2, <4>3
    <3> QED
      BY <1>11, <2>7, <3>1, <3>2, Zenon DEF Contents
  <2>8. Contents'
    BY <1>1, <1>11, <2>5, <2>6, <2>7, Zenon DEF Contents
  <2> QED
    BY <2>2, <2>4, <2>8, Zenon
<1> QED
  BY <1>1, <1>9, <1>10, <1>11, Zenon DEF IInv, Map

\* A table that is not taken for full has a cell that is not in use.
LEMMA HasRoom ==
  ASSUME Types, Counts, ~ Full
  PROVE  size < table_size
<1>1. table_size \in Nat /\ size \in Nat
  BY DEF Types
<1>2. IsFiniteSet(0..table_size - 1) /\ Cardinality(0..table_size - 1) = table_size
  BY <1>1, FS_Interval
<1>3. Cardinality(UsedCells) <= Cardinality(0..table_size - 1)
  BY <1>2, UsedFinite, FS_Subset, Zenon
<1> QED
  BY <1>1, <1>2, <1>3 DEF Counts, Full

\* The copy of a key fails, for the put or in the middle of a rehash.
LEMMA FailKeeps ==
  ASSUME IInv, size < table_size, NEW k \in Key, PlaceFails(k),
         old' = <<>>, todo' = None, UNCHANGED <<table_size, stored>>
  PROVE  IInv'
<1>1. PICK p \in 0..table_size - 1 : p = find_empty(k) /\ data[p].in_use # 1
  BY EmptyFound, Zenon DEF IInv
<1>2. Empty \in Cell /\ Empty.in_use = 0
  BY CellFields
<1>3. Changed(p, Empty)
  BY <1>1, <1>2, ChangeOne, Zenon DEF IInv, PlaceFails
<1>4. \A c : Used(c)' => Used(c) /\ data'[c] = data[c]
  BY <1>2, <1>3 DEF Used, Changed
<1>5. \A j : ~ Waits(j)'
  BY DEF Waits
<1>6. failures' \in 0..Failures /\ failures' # 0
  BY BoundAssumption DEF IInv, Types, PlaceFails
<1>7. Types'
  <2>1. data' \in [0..table_size - 1 -> Cell] /\ size' = size
    BY <1>3, Zenon DEF Changed, PlaceFails
  <2>2. <<>> \in Seq(Cell)
    OBVIOUS
  <2>3. \A c : Used(c)' => data'[c].key \in Key /\ data'[c].value \in Value
    BY <1>4, Zenon DEF IInv, Types
  <2> QED
    BY <1>5, <1>6, <2>1, <2>2, <2>3, Zenon DEF IInv, Types
<1>8. size = Cardinality(UsedCells')
  <2>1. Empty.in_use # 1
    BY <1>2
  <2> QED
    BY <1>1, <1>2, <1>3, <2>1, CountSame, Zenon DEF IInv
<1>9. Counts'
  BY <1>8, Zenon DEF Counts, PlaceFails
<1> QED
  BY <1>6, <1>7, <1>9, Zenon DEF IInv, Map

\* The copy of a key fails in the middle of a rehash.
LEMMA RehashFailsKeeps ==
  ASSUME IInv, RehashFails
  PROVE  IInv'
<1>1. /\ old # <<>> /\ Head(old).in_use = 1 /\ PlaceFails(Head(old).key)
      /\ old' = <<>> /\ todo' = None /\ UNCHANGED <<table_size, stored>>
  BY Zenon DEF RehashFails
<1>2. old \in Seq(Cell)
  BY DEF IInv, Types
<1>3. Waits(1) /\ Head(old) = old[1] /\ Len(old) \in Nat \ {0}
  BY <1>1, <1>2 DEF Waits
<1>4. old[1].key \in Key
  BY <1>3, Zenon DEF IInv, Types
<1>5. size < table_size
  <2>1. size \in Nat /\ table_size \in Nat /\ 2 * (size + Len(old)) <= table_size
    BY <1>1, Zenon DEF IInv, Types, Counts
  <2> QED
    BY <1>3, <2>1
<1> QED
  BY <1>1, <1>3, <1>4, <1>5, FailKeeps, Zenon

\* The copy of the key that is put fails.
LEMMA PutPlaceFailsKeeps ==
  ASSUME IInv, PutPlaceFails
  PROVE  IInv'
<1>1. /\ todo # None /\ old = <<>> /\ ~ Full /\ PlaceFails(todo.key)
      /\ todo' = None /\ UNCHANGED <<table_size, old, stored>>
  BY Zenon DEF PutPlaceFails
<1>2. todo \in [key : Key, value : Value]
  BY <1>1, Zenon DEF IInv, Types
<1>3. todo.key \in Key
  BY <1>2
<1>4. size < table_size
  BY <1>1, HasRoom, Zenon DEF IInv
<1> QED
  BY <1>1, <1>3, <1>4, FailKeeps, Zenon

\* The put ends: its key was in no entry.
LEMMA PutPlaceKeeps ==
  ASSUME IInv, PutPlace
  PROVE  IInv'
<1>1. /\ todo # None /\ old = <<>> /\ ~ Full /\ Place(todo.key, todo.value)
      /\ stored' = [stored EXCEPT ![todo.key] = todo.value]
      /\ todo' = None /\ UNCHANGED <<table_size, old, failures>>
  BY Zenon DEF PutPlace
<1>2. todo \in [key : Key, value : Value]
  BY <1>1, Zenon DEF IInv, Types
<1>3. PICK k \in Key : k = todo.key
  BY <1>2
<1>4. PICK v \in Value : v = todo.value
  BY <1>2
<1>5. PICK p \in 0..table_size - 1 : Placed(p, k, v)
  <2>1. size < table_size
    BY <1>1, HasRoom, Zenon DEF IInv
  <2> QED
    BY <1>1, <1>3, <1>4, <2>1, PlaceFits, Zenon DEF IInv
<1>6. data'[p].key = k /\ data'[p].value = v
  BY <1>5, CellFields DEF Placed, Changed
<1>7. /\ \A c : Used(c)' <=> Used(c) \/ c = p
      /\ \A c : Used(c) => c # p /\ data'[c] = data[c]
  BY <1>5, Zenon DEF Placed, Changed, Used
<1>8. (\A j : ~ Waits(j)) /\ (\A j : ~ Waits(j)')
  BY <1>1 DEF Waits
<1>9. /\ stored \in [Key -> Value \union {None}]
      /\ stored' \in [Key -> Value \union {None}] /\ stored'[k] = v
      /\ \A kk \in Key : kk # k => stored'[kk] = stored[kk]
  BY <1>1, <1>3, <1>4 DEF IInv, Types
<1>10. Types'
  <2>1. ASSUME NEW c, Used(c)' PROVE data'[c].key \in Key /\ data'[c].value \in Value
    <3>1. CASE c = p
      BY <1>6, <3>1, Zenon
    <3>2. CASE Used(c)
      BY <1>7, <3>2, Zenon DEF IInv, Types
    <3> QED
      BY <1>7, <2>1, <3>1, <3>2, Zenon
  <2>2. data' \in [0..table_size - 1 -> Cell] /\ size' \in Nat
    BY <1>5, Zenon DEF Placed, Changed
  <2> QED
    BY <1>1, <1>8, <1>9, <2>1, <2>2, Zenon DEF IInv, Types
<1>11. Counts'
  BY <1>1, <1>5, Zenon DEF Placed, Counts
<1>12. ASSUME Unique, Reach, Contents PROVE Unique' /\ Reach' /\ Contents'
  <2>1. ASSUME NEW c, Used(c) PROVE data[c].key # k /\ data[c].key \in Key
    <3>1. stored[k] = None
      BY <1>1, <1>3, <1>12, Zenon DEF Contents
    <3>2. stored[data[c].key] = data[c].value
      BY <1>12, <2>1, Zenon DEF Contents
    <3>3. data[c].value \in Value /\ data[c].key \in Key
      BY <2>1, Zenon DEF IInv, Types
    <3> QED
      BY <3>1, <3>2, <3>3, NoneAssumption, Zenon
  <2>2. /\ \A c, d : Used(c)' /\ Used(d)' /\ data'[c].key = data'[d].key => c = d
        /\ Reach'
    BY <1>5, <1>12, <2>1, PlacedOnce, Zenon DEF IInv, Unique
  <2>3. Unique'
    BY <1>8, <2>2, Zenon DEF Unique
  <2>4. ASSUME NEW c, Used(c)' PROVE stored'[data'[c].key] = data'[c].value
    <3>1. CASE c = p
      BY <1>6, <1>9, <3>1, Zenon
    <3>2. CASE Used(c)
      <4>1. stored[data[c].key] = data[c].value
        BY <1>12, <3>2, Zenon DEF Contents
      <4>2. stored'[data[c].key] = stored[data[c].key]
        BY <1>9, <2>1, <3>2, Zenon
      <4> QED
        BY <1>7, <3>2, <4>1, <4>2, Zenon
    <3> QED
      BY <1>7, <2>4, <3>1, <3>2, Zenon
  <2>5. ASSUME NEW kk \in Key, stored'[kk] # None PROVE \E c : Used(c)' /\ data'[c].key = kk
    <3>1. CASE kk = k
      BY <1>6, <1>7, <3>1, Zenon
    <3>2. CASE kk # k
      <4>1. PICK c : Used(c) /\ data[c].key = kk
        BY <1>8, <1>9, <1>12, <2>5, <3>2, Zenon DEF Contents
      <4> QED
        BY <1>7, <4>1, Zenon
    <3> QED
      BY <3>1, <3>2
  <2>6. Contents'
    BY <1>1, <1>8, <2>4, <2>5, Zenon DEF Contents
  <2> QED
    BY <2>2, <2>3, <2>6, Zenon
<1> QED
  BY <1>1, <1>10, <1>11, <1>12, Zenon DEF IInv, Map

\* The cell that sw_hashmap_remove has found holds the key.
LEMMA RemoveFound ==
  ASSUME Types, NEW k \in Key, RemoveAtCell(k) # -1
  PROVE  RemoveAtCell(k) \in 0..table_size - 1 /\ Holds(RemoveAtCell(k), k)
<1> DEFINE S == {x \in DOMAIN data : Holds(x, k) \/ data[x].in_use # 1}
           c == FirstCell(Probe(k), S)
<1>1. DOMAIN data = 0..table_size - 1 /\ DOMAIN Probe(k) = 1..table_size /\ table_size \in Nat
  BY DEF Types, Probe
<1>2. RemoveAtCell(k) = IF c # -1 /\ Holds(c, k) THEN c ELSE -1
  BY Zenon DEF RemoveAtCell
<1>3. c # -1 /\ Holds(c, k) /\ RemoveAtCell(k) = c
  <2> HIDE DEF c
  <2> QED
    BY <1>2, Zenon
<1>4. \E i \in 1..table_size : Probe(k)[i] \in S
  <2> HIDE DEF S
  <2> QED
    BY <1>1, <1>3, Zenon DEF FirstCell
<1>5. PICK i \in 1..table_size : c = Probe(k)[i] /\ Probe(k)[i] \in S
  <2> HIDE DEF S
  <2> QED
    BY <1>1, <1>4, FirstCellFound, Zenon
<1>6. c \in 0..table_size - 1
  BY <1>1, <1>5, Zenon
<1> QED
  BY <1>3, <1>6, Zenon

\* A deleted cell cuts no probe sequence.
LEMMA RemoveKeeps ==
  ASSUME IInv, NEW k \in Key, RemoveKey(k)
  PROVE  IInv'
<1> DEFINE x == [Empty EXCEPT !.in_use = -1]
<1>1. /\ todo = None /\ RemoveAtCell(k) # -1
      /\ data' = [data EXCEPT ![RemoveAtCell(k)] = x]
      /\ size' = size - 1 /\ stored' = [stored EXCEPT ![k] = None]
      /\ UNCHANGED <<table_size, todo, old, failures>>
  BY Zenon DEF RemoveKey
<1>2. x \in Cell /\ x.in_use # 1 /\ x.in_use # 0
  BY CellFields
<1> HIDE DEF x
<1>3. PICK p \in 0..table_size - 1 : /\ p = RemoveAtCell(k) /\ data[p].in_use = 1
                                     /\ data[p].key = k
  BY <1>1, RemoveFound, Zenon DEF IInv, Holds
<1>4. Changed(p, x)
  BY <1>1, <1>2, <1>3, ChangeOne, Zenon DEF IInv
<1>5. size - 1 = Cardinality(UsedCells') /\ size >= 1
  BY <1>1, <1>2, <1>3, <1>4, CountDown, Zenon DEF IInv
<1>6. /\ \A c : Used(c)' <=> Used(c) /\ c # p
      /\ \A c : Used(c) /\ c # p => data'[c] = data[c]
      /\ Used(p)
  BY <1>1, <1>2, <1>3, <1>4 DEF Used, Changed
<1>7. old = <<>> /\ old' = <<>>
  BY <1>1, Zenon DEF IInv, Types
<1>8. (\A j : ~ Waits(j)) /\ (\A j : ~ Waits(j)')
  BY <1>7 DEF Waits
<1>9. /\ stored' \in [Key -> Value \union {None}] /\ stored'[k] = None
      /\ \A kk \in Key : kk # k => stored'[kk] = stored[kk]
  BY <1>1 DEF IInv, Types
<1>10. Types'
  <2>1. ASSUME NEW c, Used(c)' PROVE data'[c].key \in Key /\ data'[c].value \in Value
    <3>1. Used(c) /\ data'[c] = data[c]
      BY <1>6, <2>1, Zenon
    <3> QED
      BY <3>1, Zenon DEF IInv, Types
  <2>2. data' \in [0..table_size - 1 -> Cell]
    BY <1>4, Zenon DEF Changed
  <2>3. size' \in Nat
    BY <1>1, <1>5 DEF IInv, Types
  <2> QED
    BY <1>1, <1>8, <1>9, <2>1, <2>2, <2>3, Zenon DEF IInv, Types
<1>11. Counts'
  BY <1>1, <1>5, <1>7, Zenon DEF Counts
<1>12. ASSUME Unique, Reach, Contents PROVE Unique' /\ Reach' /\ Contents'
  <2>1. ASSUME NEW c, Used(c)' PROVE /\ Used(c) /\ c # p /\ data'[c] = data[c]
                                     /\ data[c].key \in Key /\ data[c].key # k
    <3>1. Used(c) /\ c # p /\ data'[c] = data[c]
      BY <1>6, <2>1, Zenon
    <3>2. data[c].key # k
      BY <1>3, <1>6, <1>12, <3>1, Zenon DEF Unique
    <3> QED
      BY <3>1, <3>2, Zenon DEF IInv, Types
  <2>2. Unique'
    <3>1. ASSUME NEW c, NEW d, Used(c)', Used(d)', data'[c].key = data'[d].key PROVE c = d
      <4>1. Used(c) /\ Used(d) /\ data[c].key = data[d].key
        BY <2>1, <3>1, Zenon
      <4> QED
        BY <1>12, <4>1, Zenon DEF Unique
    <3> QED
      BY <1>8, <3>1, Zenon DEF Unique
  <2>3. Reach'
    <3>1. ASSUME NEW c, Used(c)' PROVE Reached(data[c].key, c)'
      <4>1. Used(c) /\ data'[c] = data[c]
        BY <2>1, <3>1, Zenon
      <4>2. PICK kk \in Key : kk = data[c].key
        BY <2>1, <3>1, Zenon
      <4>3. Reached(kk, c)
        BY <1>12, <4>1, <4>2, Zenon DEF Reach
      <4>4. Reached(kk, c)'
        BY <1>1, <1>2, <1>4, <4>3, ReachStays, Zenon DEF IInv
      <4> QED
        BY <4>1, <4>2, <4>4, Zenon DEF Reached
    <3> QED
      BY <3>1, Zenon DEF Reach
  <2>4. ASSUME NEW c, Used(c)' PROVE stored'[data'[c].key] = data'[c].value
    <3>1. stored[data[c].key] = data[c].value
      BY <1>12, <2>1, <2>4, Zenon DEF Contents
    <3>2. stored'[data[c].key] = stored[data[c].key]
      BY <1>9, <2>1, <2>4, Zenon
    <3> QED
      BY <2>1, <2>4, <3>1, <3>2, Zenon
  <2>5. ASSUME NEW kk \in Key, stored'[kk] # None PROVE \E c : Used(c)' /\ data'[c].key = kk
    <3>1. kk # k /\ stored[kk] # None
      BY <1>9, <2>5, Zenon
    <3>2. PICK c : Used(c) /\ data[c].key = kk
      BY <1>8, <1>12, <3>1, Zenon DEF Contents
    <3>3. c # p
      BY <1>3, <3>1, <3>2, Zenon
    <3> QED
      BY <1>6, <3>2, <3>3, Zenon
  <2>6. Contents'
    BY <1>1, <1>8, <2>4, <2>5, Zenon DEF Contents
  <2> QED
    BY <2>2, <2>3, <2>6, Zenon
<1> QED
  BY <1>1, <1>10, <1>11, <1>12, Zenon DEF IInv, Map

\* Every step of a map in which no key is put twice keeps the invariant.
LEMMA InvStep ==
  ASSUME ~ Overwrites, IInv, [Next]_vars
  PROVE  IInv'
<1>1. ASSUME NEW k \in Key, NEW v \in Value, PutStart(k, v) PROVE IInv'
  BY <1>1, PutStartKeeps, Zenon
<1>2. CASE PutGrow
  BY <1>2, PutGrowKeeps, Zenon
<1>3. CASE PutGrowFails
  BY <1>3, PutGrowFailsKeeps, Zenon
<1>4. CASE Rehash
  BY <1>4, RehashPutKeeps, RehashSkipKeeps, Zenon
<1>5. CASE RehashFails
  BY <1>5, RehashFailsKeeps, Zenon
<1>6. CASE PutPlace
  BY <1>6, PutPlaceKeeps, Zenon
<1>7. CASE PutPlaceFails
  BY <1>7, PutPlaceFailsKeeps, Zenon
<1>8. ASSUME NEW k \in Key, RemoveKey(k) PROVE IInv'
  BY <1>8, RemoveKeeps, Zenon
<1>9. CASE UNCHANGED vars
  <2>1. UNCHANGED <<data, table_size, size, old>> /\ UNCHANGED <<todo, failures, stored>>
    BY <1>9, Zenon DEF vars
  <2>2. /\ \A c : Used(c)' <=> Used(c)
        /\ \A j : Waits(j)' <=> Waits(j)
        /\ Counts'
        /\ Unique => Unique'
        /\ Reach => Reach'
    BY <2>1, TablesStay, Zenon
  <2>3. Types'
    BY <2>1, <2>2, Zenon DEF IInv, Types
  <2>4. Contents => Contents'
    BY <2>1, <2>2, Zenon DEF Contents
  <2> QED
    BY <2>1, <2>2, <2>3, <2>4, Zenon DEF IInv, Map
<1> QED
  BY <1>1, <1>2, <1>3, <1>4, <1>5, <1>6, <1>7, <1>8, <1>9, Zenon DEF Next, PutStep

-----------------------------------------------------------------------------
(* Lookups                                                                 *)

\* A key with an entry is found: the search can end neither at another entry nor at
\* a cell in front of it.
LEMMA LookupFinds ==
  ASSUME Types, Unique, Reach, NEW k \in Key, NEW x, Used(x), data[x].key = k
  PROVE  Lookup(k) = data[x].value
<1> DEFINE S == {y \in DOMAIN data : Holds(y, k) \/ data[y].in_use = 0}
           c == FirstCell(Probe(k), S)
<1>1. /\ DOMAIN data = 0..table_size - 1 /\ table_size \in Nat
      /\ DOMAIN Probe(k) = 1..table_size
  BY DEF Types, Probe
<1>2. Lookup(k) = IF c # -1 /\ Holds(c, k) THEN data[c].value ELSE None
  BY Zenon DEF Lookup
<1>3. PICK i \in 1..table_size : /\ Probe(k)[i] = x
                                 /\ \A j \in 1..i - 1 : data[Probe(k)[j]].in_use # 0
  BY Zenon DEF Reach, Reached
<1>4. x \in S
  BY <1>1, Zenon DEF Used, Holds
<1>5. PICK m \in 1..table_size : /\ c = Probe(k)[m] /\ Probe(k)[m] \in S
                                 /\ \A j \in 1..m - 1 : Probe(k)[j] \notin S
  <2>1. \E j \in 1..table_size : Probe(k)[j] \in S
    BY <1>3, <1>4, Zenon
  <2> HIDE DEF S
  <2> QED
    BY <1>1, <2>1, FirstCellFound, Zenon
<1>6. m <= i
  <2> HIDE DEF S
  <2> SUFFICES ASSUME ~ (m <= i) PROVE FALSE
    OBVIOUS
  <2>1. i \in 1..m - 1
    BY <1>1
  <2> QED
    BY <1>3, <1>4, <1>5, <2>1, Zenon
<1>7. Holds(c, k)
  <2>1. CASE m = i
    BY <1>3, <1>5, <2>1, Zenon DEF Used, Holds
  <2>2. CASE m # i
    <3>1. m \in 1..i - 1
      BY <1>1, <1>6, <2>2
    <3> QED
      BY <1>3, <1>5, <3>1, Zenon
  <2> QED
    BY <2>1, <2>2
<1>8. Used(c) /\ data[c].key = k
  BY <1>1, <1>5, <1>7, Zenon DEF Used, Holds
<1>9. c = x
  <2> HIDE DEF c
  <2> QED
    BY <1>8, Zenon DEF Unique
<1>10. c # -1
  <2> HIDE DEF c
  <2> QED
    BY <1>1, <1>8 DEF Used
<1> HIDE DEF c
<1> QED
  BY <1>2, <1>7, <1>9, <1>10, Zenon

\* A key without an entry is not found.
LEMMA LookupMisses ==
  ASSUME Types, NEW k \in Key, \A c : Used(c) => data[c].key # k
  PROVE  Lookup(k) = None
<1> DEFINE S == {y \in DOMAIN data : Holds(y, k) \/ data[y].in_use = 0}
           c == FirstCell(Probe(k), S)
<1>1. /\ DOMAIN data = 0..table_size - 1 /\ table_size \in Nat
      /\ DOMAIN Probe(k) = 1..table_size
  BY DEF Types, Probe
<1>2. Lookup(k) = IF c # -1 /\ Holds(c, k) THEN data[c].value ELSE None
  BY Zenon DEF Lookup
<1>3. ASSUME c # -1 PROVE ~ Holds(c, k)
  <2>1. \E i \in 1..table_size : Probe(k)[i] \in S
    <3> HIDE DEF S
    <3> QED
      BY <1>1, <1>3, Zenon DEF FirstCell
  <2>2. c \in S
    <3> HIDE DEF S
    <3>1. PICK i \in 1..table_size : c = Probe(k)[i] /\ Probe(k)[i] \in S
      BY <1>1, <2>1, FirstCellFound, Zenon
    <3> QED
      BY <3>1, Zenon
  <2>3. c \in 0..table_size - 1
    BY <1>1, <2>2, Zenon
  <2> QED
    BY <2>3, Zenon DEF Holds, Used
<1> HIDE DEF c
<1> QED
  BY <1>2, <1>3, Zenon

\* The invariant is what LookupExact says of the map.
LEMMA InvExact == IInv => LookupExact
<1> SUFFICES ASSUME IInv PROVE LookupExact
  OBVIOUS
<1>1. TypeOK
  BY Zenon DEF IInv, Types, TypeOK
<1>2. size = Cardinality({c \in DOMAIN data : data[c].in_use = 1})
  <2>1. DOMAIN data = 0..table_size - 1
    BY DEF IInv, Types
  <2> QED
    BY <2>1, Zenon DEF IInv, Counts, UsedCells
<1>3. ASSUME todo = None, failures = 0, NEW k \in Key PROVE Lookup(k) = stored[k]
  <2>1. Types /\ Unique /\ Reach /\ Contents /\ old = <<>>
    BY <1>3, Zenon DEF IInv, Map, Types
  <2>2. \A j : ~ Waits(j)
    BY <2>1 DEF Waits
  <2>3. CASE \E c : Used(c) /\ data[c].key = k
    <3>1. PICK c : Used(c) /\ data[c].key = k
      BY <2>3
    <3>2. stored[k] = data[c].value
      BY <2>1, <3>1, Zenon DEF Contents
    <3> QED
      BY <2>1, <3>1, <3>2, LookupFinds, Zenon
  <2>4. CASE \A c : Used(c) => data[c].key # k
    <3>1. stored[k] = None
      BY <2>1, <2>2, <2>4, Zenon DEF Contents
    <3> QED
      BY <2>1, <2>4, <3>1, LookupMisses, Zenon
  <2> QED
    BY <2>3, <2>4, Zenon
<1> QED
  BY <1>1, <1>2, <1>3, Zenon DEF LookupExact

\* Whatever the hash function, the sizes and the failures, the count of entries is
\* right after every put, rehash and removal, and as long as memory lasts
\* sw_hashmap_get finds the value of every key in the map and of no other, although
\* removals leave deleted cells in the probe sequences and puts reuse them.  No key
\* is put again while it is in the map: that would make a second entry.
THEOREM LookupExactHolds ==
  ASSUME ~ Overwrites
  PROVE  Spec => []LookupExact
<1>1. IInv /\ [Next]_vars => IInv'
  BY InvStep
<1> QED
  BY <1>1, InvInit, InvExact, PTL DEF Spec

=============================================================================
