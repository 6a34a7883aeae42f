----------------------------- MODULE SwHashmap -----------------------------
(***************************************************************************)
(* The hash map of swapi (common/swutil/swhashmap.c), with string keys:    *)
(* open addressing with linear probing, removed cells marked as deleted,   *)
(* and a table that doubles when it is full.                               *)
(*                                                                         *)
(* Every call holds the lock from start to end, so calls do not overlap;   *)
(* sw_hashmap_put takes one step for each round of its loop and of that of *)
(* sw_hashmap_rehash.  The new table or the copy of a key may fail for     *)
(* want of memory, at most Failures times.                                 *)
(***************************************************************************)
EXTENDS Integers, FiniteSets, Sequences

CONSTANTS
  Key, Value,
  Hash,         \* the hash of each key
  TableSize,    \* the size given to sw_hashmap_create
  MaxSize,      \* bound: no put is started with this many entries
  Failures,     \* bound on failed allocations
  Removes,      \* whether sw_hashmap_remove is called
  Overwrites,   \* whether a key that is in the map is put again
  None

\* sw_hashmap_get divides by the size of the table.
ASSUME HashAssumption == Hash \in [Key -> Nat] /\ TableSize \in Nat \ {0}
ASSUME BoundAssumption ==
  /\ MaxSize \in Nat /\ Failures \in Nat
  /\ Removes \in BOOLEAN /\ Overwrites \in BOOLEAN
ASSUME NoneAssumption == None \notin Value /\ None \notin [key : Key, value : Value]

VARIABLES
  data, table_size, size,
  todo,         \* the put that holds the lock, or None
  old,          \* the cells of the old table that the rehash has not passed yet
  failures,     \* allocations that failed so far
  stored        \* per key: the value the callers were told is in the map

vars == <<data, table_size, size, todo, old, failures, stored>>

\* in_use of a cell: 0 never used, 1 in use, -1 deleted
Empty == [in_use |-> 0, key |-> None, value |-> None]

\* A table of n cells as hashmap_malloc and memset give it
NewTable(n) == [c \in 0..n - 1 |-> Empty]

\* sw_hashmap_create
Init ==
  /\ data = NewTable(TableSize)
  /\ table_size = TableSize /\ size = 0
  /\ todo = None /\ old = <<>> /\ failures = 0
  /\ stored = [k \in Key |-> None]

-----------------------------------------------------------------------------
\* The cells of the table in the order in which they are probed for k
Probe(k) == [i \in 1..table_size |-> ((Hash[k] % table_size) + i - 1) % table_size]

\* The first of the cells ps that is in the set S, or -1
FirstCell(ps, S) ==
  IF \E i \in DOMAIN ps : ps[i] \in S
  THEN ps[CHOOSE i \in DOMAIN ps :
            ps[i] \in S /\ \A j \in 1..i - 1 : ps[j] \notin S]
  ELSE -1

\* sw_hashmap_find_empty, when the table is not full
find_empty(k) == FirstCell(Probe(k), {c \in DOMAIN data : data[c].in_use # 1})

Full == size = table_size

Entry(k, v) == [in_use |-> 1, key |-> k, value |-> v]

\* The end of hashmap_put: the entry goes into the first cell not in use.
Place(k, v) ==
  /\ data' = [data EXCEPT ![find_empty(k)] = Entry(k, v)]
  /\ size' = size + 1

\* The copy of the key fails: the cell is marked as never used.
PlaceFails(k) ==
  /\ failures < Failures /\ failures' = failures + 1
  /\ data' = [data EXCEPT ![find_empty(k)] = Empty]
  /\ size' = size

-----------------------------------------------------------------------------
\* sw_hashmap_put takes the lock.
PutStart(k, v) ==
  /\ todo = None /\ size < MaxSize
  /\ Overwrites \/ stored[k] = None
  /\ todo' = [key |-> k, value |-> v]
  /\ UNCHANGED <<data, table_size, size, old, failures, stored>>

\* Mutant of PutGrow: a rehash that keeps the old table.
PutGrowNot == todo # None /\ old = <<>> /\ Full /\ UNCHANGED vars

\* A round of the loop of hashmap_put: the table is full, and
\* sw_hashmap_rehash replaces it by one of twice the size.
PutGrow ==
  /\ todo # None /\ old = <<>> /\ Full
  /\ old' = [i \in 1..table_size |-> data[i - 1]]
  /\ data' = NewTable(2 * table_size) /\ table_size' = 2 * table_size /\ size' = 0
  /\ UNCHANGED <<todo, failures, stored>>

\* There is no memory for the new table: rehash and put return MAP_OMEM.
PutGrowFails ==
  /\ todo # None /\ old = <<>> /\ Full
  /\ failures < Failures /\ failures' = failures + 1
  /\ todo' = None
  /\ UNCHANGED <<data, table_size, size, old, stored>>

\* A round of the loop of sw_hashmap_rehash: an entry of the old table is put
\* into the new one, which has room for twice as many.
Rehash ==
  /\ old # <<>> /\ old' = Tail(old)
  /\ IF Head(old).in_use = 1
     THEN Place(Head(old).key, Head(old).value)
     ELSE UNCHANGED <<data, size>>
  /\ UNCHANGED <<table_size, todo, failures, stored>>

\* The copy of a key fails in the middle: rehash and put return MAP_OMEM, and
\* the rest of the old table is lost.
RehashFails ==
  /\ old # <<>> /\ Head(old).in_use = 1
  /\ PlaceFails(Head(old).key)
  /\ old' = <<>> /\ todo' = None
  /\ UNCHANGED <<table_size, stored>>

\* The loop of hashmap_put ends.
PutPlace ==
  /\ todo # None /\ old = <<>> /\ ~ Full
  /\ Place(todo.key, todo.value)
  /\ stored' = [stored EXCEPT ![todo.key] = todo.value]
  /\ todo' = None
  /\ UNCHANGED <<table_size, old, failures>>

PutPlaceFails ==
  /\ todo # None /\ old = <<>> /\ ~ Full
  /\ PlaceFails(todo.key)
  /\ todo' = None
  /\ UNCHANGED <<table_size, old, stored>>

-----------------------------------------------------------------------------
Holds(c, k) == data[c].in_use = 1 /\ data[c].key = k

\* Mutant of Lookup: a deleted cell ends the search.
LookupShort(k) ==
  LET c == FirstCell(Probe(k),
                 {x \in DOMAIN data : Holds(x, k) \/ data[x].in_use # 1})
  IN  IF c # -1 /\ Holds(c, k) THEN data[c].value ELSE None

\* sw_hashmap_get: the search goes past deleted cells.
Lookup(k) ==
  LET c == FirstCell(Probe(k),
                 {x \in DOMAIN data : Holds(x, k) \/ data[x].in_use = 0})
  IN  IF c # -1 /\ Holds(c, k) THEN data[c].value ELSE None

\* The cell sw_hashmap_remove finds, or -1: a deleted cell ends the search.
RemoveAtCell(k) ==
  LET c == FirstCell(Probe(k),
                 {x \in DOMAIN data : Holds(x, k) \/ data[x].in_use # 1})
  IN  IF c # -1 /\ Holds(c, k) THEN c ELSE -1

\* sw_hashmap_remove; without a cell it changes nothing.
RemoveKey(k) ==
  /\ Removes /\ todo = None
  /\ RemoveAtCell(k) # -1
  /\ data' = [data EXCEPT ![RemoveAtCell(k)] = [Empty EXCEPT !.in_use = -1]]
  /\ size' = size - 1
  /\ stored' = [stored EXCEPT ![k] = None]
  /\ UNCHANGED <<table_size, todo, old, failures>>

-----------------------------------------------------------------------------
PutStep == PutGrow \/ PutGrowFails \/ Rehash \/ RehashFails \/ PutPlace \/ PutPlaceFails

Next ==
  \/ \E k \in Key, v \in Value : PutStart(k, v)
  \/ PutStep
  \/ \E k \in Key : RemoveKey(k)

\* A thread that holds the lock goes on.
Spec == Init /\ [][Next]_vars /\ WF_vars(PutStep)

-----------------------------------------------------------------------------
Cell == [in_use : {0, 1, -1}, key : Key \union {None}, value : Value \union {None}]

\* The table has table_size cells, and the variables have their types.
TypeOK ==
  /\ data \in [0..table_size - 1 -> Cell] /\ old \in Seq(Cell)
  /\ todo \in [key : Key, value : Value] \union {None}
  /\ failures \in 0..Failures
  /\ stored \in [Key -> Value \union {None}]

\* size counts the cells in use, through rehashing, removal and every failed
\* allocation, so that a table is taken for full exactly when it is; and as
\* long as memory lasts, sw_hashmap_get returns, for every key, the value that
\* was put and not removed since, and finds nothing for the other keys: no
\* removal and no rehashing cuts a probe sequence.
LookupExact ==
  /\ TypeOK
  /\ size = Cardinality({c \in DOMAIN data : data[c].in_use = 1})
  /\ todo = None /\ failures = 0 => \A k \in Key : Lookup(k) = stored[k]

\* sw_hashmap_remove finds every key that is in the map.
RemoveFinds ==
  todo = None => \A k \in Key : stored[k] # None => RemoveAtCell(k) # -1

\* A put that has taken the lock returns.
PutReturns == todo # None ~> todo = None
=============================================================================
