---------------------------- MODULE SwParameter ----------------------------
(***************************************************************************)
(* swparameter.c and swifiledepot.c: the table of named parameters, the    *)
(* depots they are loaded from and saved to, the thread that saves them,   *)
(* and the two files of a file depot.                                      *)
(*                                                                         *)
(* Names are numbers in the order of strcasecmp.  A value is a string;     *)
(* what matters of it is whether it is empty, and what is left of it when  *)
(* it is read back from a file (Stripped).  Depots other than the file     *)
(* depot are not in the repository: IDEPOT_JAVA is a database that keeps   *)
(* what it is given.  The operations work under the mutex of the module    *)
(* and are one step, up to what they do after they have released it.       *)
(***************************************************************************)
EXTENDS Integers, Sequences, FiniteSets, SequencesExt

CONSTANTS
  MaxPara,      \* MAX_PARA_NUM
  NumNames,     \* names in use
  Inputs, Defaults,     \* values given by callers, and default values
  Stripped,     \* a value as a file gives it back, for every value
  NULL,
  BootOrder, DType,     \* the depots, as they are registered, and their types
  AutoSave,     \* those with autosave set
  NumClients,   \* threads that call
  OldFile,      \* parameters saved before the first start
  MaxCalls, MaxCrashes, MaxOpenFails    \* bounds

JAVA == 1
FILE == 3
Names == 1..NumNames
Values == DOMAIN Stripped
Clients == 1..NumClients
Depots == Range(BootOrder)

ASSUME SizeAssumption == MaxPara \in Nat \ {0} /\ NumNames \in Nat \ {0}
ASSUME ValueAssumption ==
  /\ "" \in Values /\ Stripped[""] = "" /\ NULL \notin Values /\ Inputs \cup Defaults \subseteq Values
  /\ \A v \in Values : Stripped[v] \in Values /\ Stripped[Stripped[v]] = Stripped[v]
ASSUME DepotAssumption ==
  DType \in [Depots -> 0..3] /\ AutoSave \subseteq Depots /\ NULL \notin Depots
ASSUME FileAssumption == OldFile \in [Names -> Values \cup {NULL}]

VARIABLES
  plist, pnum,          \* the table
  depots, defdepot,     \* registered depots, in order
  modified,             \* of each depot
  saveall, saveauto, signal, exit,
  saver,                \* the saving thread: its place, and the depots to do
  disk,                 \* of each file depot: the two files
  db,                   \* of each other depot: what it keeps
  todo,                 \* of each client: what is left of its call
  booting, corrupt,
  seen,                 \* what an observer was last told
  calls, crashes, openfails,
  \* History.  kept: for each file depot the contents of the latest save
  \* that completed both files and of those begun since.  promised: the
  \* depot and the value a set has given to a name, while it has them.
  \* whole: whether the backup was complete when the process started, or
  \* has been completed since.
  kept, promised, whole

table == <<plist, pnum>>
saving == <<saver, disk, kept, whole, openfails>>
flags == <<modified, saveall, saveauto, signal>>
bounds == <<calls, crashes>>
vars == <<table, depots, defdepot, flags, exit, saving, db, todo, booting,
          corrupt, seen, bounds, promised>>

FileDepots == {d \in Depots : DType[d] = FILE}
T == [plist |-> plist, pnum |-> pnum]

Blank == [name |-> 0, value |-> NULL, readonly |-> FALSE, realtime |-> FALSE, depot |-> NULL]
NoTable == [plist |-> [i \in 1..MaxPara |-> Blank], pnum |-> 0]
Nothing == [n \in Names |-> NULL]
Unpromised == [n \in Names |-> <<NULL, NULL>>]

-----------------------------------------------------------------------------
(* The table                                                               *)

\* sw_parameter_find: the index of the name, or 0.
Find(t, n) ==
  LET search[b \in 1..(MaxPara + 1), e \in 0..MaxPara] ==
        IF b > e THEN 0
        ELSE LET mid == (b + e) \div 2 IN
             CASE n > t.plist[mid].name -> search[mid + 1, e]
               [] n < t.plist[mid].name -> search[b, mid - 1]
               [] OTHER -> mid
  IN search[1, t.pnum]

\* The last place insert_qsort's search looks at, for the last entry.
Probe(t) ==
  LET n == t.plist[t.pnum].name
      search[b \in 1..(MaxPara + 1), e \in 0..MaxPara] ==
        LET mid == (b + e) \div 2 IN
        CASE n > t.plist[mid].name /\ mid < e -> search[mid + 1, e]
          [] n < t.plist[mid].name /\ b < mid -> search[b, mid - 1]
          [] OTHER -> mid
  IN search[1, t.pnum - 1]

\* Mutant: the entry is put before the one that is not greater.
PlaceBefore(t) ==
  LET n == t.plist[t.pnum].name
      mid == Probe(t)
      notBefore == {j \in mid..(t.pnum - 1) : n <= t.plist[j].name}
      notAfter == {j \in 1..mid : n >= t.plist[j].name}
  IN IF n > t.plist[mid].name
     THEN IF notBefore = {} THEN t.pnum
          ELSE CHOOSE j \in notBefore : \A k \in notBefore : j <= k
     ELSE IF notAfter = {} THEN 1
          ELSE CHOOSE j \in notAfter : \A k \in notAfter : j >= k

\* Where insert_qsort moves the last entry: from the last place searched it
\* goes up to the first name not smaller, or down to behind one not greater.
Place(t) ==
  LET n == t.plist[t.pnum].name
      mid == Probe(t)
      notBefore == {j \in mid..(t.pnum - 1) : n <= t.plist[j].name}
      notAfter == {j \in 1..mid : n >= t.plist[j].name}
  IN IF n > t.plist[mid].name
     THEN IF notBefore = {} THEN t.pnum
          ELSE CHOOSE j \in notBefore : \A k \in notBefore : j <= k
     ELSE IF notAfter = {} THEN 1
          ELSE 1 + CHOOSE j \in notAfter : \A k \in notAfter : j >= k

insert_qsort(t) ==
  IF t.pnum <= 1 THEN t
  ELSE LET pos == Place(t) IN
       [t EXCEPT !.plist = [j \in 1..MaxPara |->
          CASE j = pos -> t.plist[t.pnum]
            [] pos < j /\ j <= t.pnum -> t.plist[j - 1]
            [] OTHER -> t.plist[j]]]

Added(t, e) ==
  insert_qsort([plist |-> [t.plist EXCEPT ![t.pnum + 1] = e], pnum |-> t.pnum + 1])

\* The table without the entries i for which gone[i]; the entries that move
\* up leave blank ones behind.
Without(t, gone) ==
  LET rest == SelectSeq([i \in 1..t.pnum |-> i], LAMBDA i : ~ gone[i])
  IN [plist |-> [j \in 1..MaxPara |->
        CASE j <= Len(rest) -> t.plist[rest[j]]
          [] Len(rest) < j /\ j <= t.pnum -> Blank
          [] OTHER -> t.plist[j]],
      pnum |-> Len(rest)]

-----------------------------------------------------------------------------
(* sw_parameter_set_with_depot                                             *)

\* Which of its returns it takes.
Branch(t, n, v, d, load, def) ==
  LET i == Find(t, n)
      e == t.plist[i]
  IN CASE i = 0 -> IF t.pnum < MaxPara THEN "new" ELSE "full"
       [] i # 0 /\ \/ v = NULL
                   \/ e.readonly /\ (DType[e.depot] = JAVA \/ e.value # NULL)
                   \/ def /\ d \in {e.depot, NULL}
                   \/ d \notin {e.depot, NULL} /\ DType[d] >= DType[e.depot] -> "refused"
       [] OTHER ->
            CASE ~ load /\ DType[e.depot] = JAVA /\ e.realtime -> "direct"
              [] (load \/ DType[e.depot] # JAVA \/ ~ e.realtime)
                   /\ e.value = v /\ d \in {e.depot, NULL} -> "same"
              [] OTHER -> "changed"

\* The depot a parameter is in after the call.
DepotOf(t, n, d) ==
  IF d # NULL THEN d
  ELSE IF Find(t, n) # 0 THEN t.plist[Find(t, n)].depot ELSE defdepot

Changed(t, n, v, d, load) ==
  LET i == Find(t, n)
      to == DepotOf(t, n, d)
  IN [t EXCEPT !.plist[i].value = v, !.plist[i].depot = to,
               !.plist[i].realtime = @ \/ (load /\ DType[to] = JAVA)]

\* A new entry: realtime is only set for JAVA, and otherwise is what the
\* place held.
New(t, n, v, d) ==
  Added(t, [name |-> n, value |-> v, readonly |-> FALSE,
            realtime |-> DType[DepotOf(t, n, d)] = JAVA \/ t.plist[t.pnum + 1].realtime,
            depot |-> DepotOf(t, n, d)])

Stored(t, n, v, d, load, def) ==
  LET b == Branch(t, n, v, d, load, def)
  IN CASE b = "new" -> New(t, n, v, d)
       [] b = "changed" -> Changed(t, n, v, d, load)
       [] OTHER -> t

-----------------------------------------------------------------------------
(* The files of a file depot: lines, and a last line with their number     *)

NoFile == [lines |-> << >>, total |-> FALSE]

\* on_gather_para: the parameters of the depot in the order of the table.
Gathered(t, d) ==
  LET own == SelectSeq([i \in 1..t.pnum |-> t.plist[i]], LAMBDA e : e.depot = d)
  IN [i \in 1..Len(own) |->
        <<own[i].name, IF own[i].value = NULL THEN "" ELSE Stripped[own[i].value]>>]

Lines(content) ==
  SetToSortSeq({<<n, content[n]>> : n \in {m \in Names : content[m] # NULL}},
               LAMBDA a, b : a[1] < b[1])

Content(lines) ==
  [n \in Names |-> IF \E i \in DOMAIN lines : lines[i][1] = n
     THEN (CHOOSE l \in Range(lines) : l[1] = n)[2] ELSE NULL]

Spread(t, d, lines) ==
  LET spread[i \in 0..Len(lines)] ==
        IF i = 0 THEN t
        ELSE CHOOSE r \in {Stored(u, lines[i][1], lines[i][2], d, TRUE, FALSE) :
                             u \in {spread[i - 1]}} : TRUE
  IN spread[Len(lines)]

\* Mutant: the number of lines is not compared.
AcceptedAnyhow(f) == f.lines # << >>

\* Whether ifile_load_file finds the file complete.
Accepted(f) == f.total /\ f.lines # << >>

\* ifile_load: the backup is read over what an incomplete file gave.
Loaded(t, d) ==
  Spread(t, d, disk[d].file.lines
               \o IF Accepted(disk[d].file) THEN << >> ELSE disk[d].bak.lines)

-----------------------------------------------------------------------------

Init ==
  /\ plist = NoTable.plist /\ pnum = 0
  /\ depots = << >> /\ defdepot = NULL
  /\ modified = [d \in Depots |-> FALSE]
  /\ saveall = FALSE /\ saveauto = FALSE /\ signal = 0 /\ exit = FALSE
  /\ saver = [pc |-> "wait", todo |-> << >>]
  /\ LET saved == [lines |-> Lines(OldFile), total |-> TRUE]
     IN disk = [d \in FileDepots |-> [file |-> saved, bak |-> saved]]
  /\ kept = [d \in FileDepots |-> {OldFile}]
  /\ whole = [d \in FileDepots |-> TRUE]
  /\ db = [d \in Depots \ FileDepots |-> Nothing]
  /\ todo = [c \in Clients |-> << >>]
  /\ booting = TRUE /\ corrupt = FALSE
  /\ calls = 0 /\ crashes = 0 /\ openfails = 0
  /\ promised = Unpromised /\ seen = Nothing

\* The process ends: only the disk and the database stay.
Down ==
  /\ plist' = NoTable.plist /\ pnum' = 0
  /\ depots' = << >> /\ defdepot' = NULL
  /\ modified' = [d \in Depots |-> FALSE]
  /\ saveall' = FALSE /\ saveauto' = FALSE /\ signal' = 0 /\ exit' = FALSE
  /\ saver' = [pc |-> "wait", todo |-> << >>]
  /\ todo' = [c \in Clients |-> << >>]
  /\ booting' = TRUE
  /\ promised' = Unpromised /\ seen' = Nothing
  /\ whole' = [d \in FileDepots |-> disk[d].bak.total]
  /\ UNCHANGED <<disk, kept, openfails, db, corrupt, calls>>

\* A crash while a save is under way; at other times it only takes the
\* program back to a start.
Crash ==
  /\ crashes < MaxCrashes /\ saver.pc \in {"open", "write"}
  /\ crashes' = crashes + 1
  /\ Down

\* sw_parameter_register_depot, while the program starts: the depot is
\* entered and its parameters are loaded.
sw_parameter_register_depot(d, isdefault) ==
  /\ booting /\ d = BootOrder[Len(depots) + 1]
  /\ depots' = Append(depots, d)
  /\ defdepot' = IF isdefault \/ defdepot = NULL THEN d ELSE defdepot
  /\ \E t \in {IF d \in FileDepots THEN Loaded(T, d) ELSE Spread(T, d, Lines(db[d]))} :
       plist' = t.plist /\ pnum' = t.pnum
  /\ booting' = (Len(depots') < Len(BootOrder))
  /\ UNCHANGED <<flags, exit, saving, db, todo, corrupt, seen, bounds, promised>>

-----------------------------------------------------------------------------
(* The calls of a client                                                   *)

Locked == saver.pc \in {"open", "write"}

Idle(c) == todo[c] = << >>

\* What holds when a client calls: its call takes the mutex at once.  (The
\* clients are alike: the first that is idle calls.)
Calls(c) ==
  /\ Idle(c) /\ \A b \in 1..(c - 1) : ~ Idle(b)
  /\ ~ booting /\ ~ corrupt /\ ~ exit /\ ~ Locked
  /\ calls < MaxCalls /\ calls' = calls + 1
  /\ UNCHANGED <<depots, defdepot, exit, saving, booting, corrupt, seen, crashes>>

Returns(c) == todo' = [todo EXCEPT ![c] = << >>]

Held(t, n) == IF Find(t, n) = 0 THEN <<NULL, NULL>>
              ELSE <<t.plist[Find(t, n)].depot, t.plist[Find(t, n)].value>>

\* The table becomes t; given are the names a set has stored.
Table(t, given) ==
  \E u \in {t} :
    /\ plist' = u.plist /\ pnum' = u.pnum
    /\ promised' = [n \in Names |->
         CASE n \in given -> Held(u, n)
           [] n \notin given /\ Held(u, n) = Held(T, n) -> promised[n]
           [] OTHER -> <<NULL, NULL>>]

\* depot->set: a file depot keeps nothing, the others do.
DepotSet(d, n, v) ==
  db' = IF d \in FileDepots \/ v = NULL THEN db ELSE [db EXCEPT ![d][n] = v]

\* depot->get, where it does not fail.
DepotGet(d, n) == IF d \in FileDepots \/ db[d][n] = NULL THEN "" ELSE db[d][n]

\* Mutant: the new depot of a parameter is not marked.
MarkOld(d) ==
  /\ modified' = [modified EXCEPT ![defdepot] = TRUE]
  /\ saveauto' = (saveauto \/ d \in AutoSave)
  /\ signal' = IF d \in AutoSave THEN 1 ELSE signal
  /\ UNCHANGED saveall

\* A set has changed a parameter of the depot d.
Mark(d) ==
  /\ modified' = [modified EXCEPT ![d] = TRUE]
  /\ saveauto' = (saveauto \/ d \in AutoSave)
  /\ signal' = IF d \in AutoSave THEN 1 ELSE signal
  /\ UNCHANGED saveall

\* sw_parameter_set_with_depot, as a step of the client c with rest to do.
SetWithDepot(c, n, v, d, load, def, rest) ==
  LET b == Branch(T, n, v, d, load, def)
      to == DepotOf(T, n, d)
      stores == ~ load /\ b \in {"new", "changed"}
  IN /\ Table(Stored(T, n, v, d, load, def), IF stores THEN {n} ELSE {})
     /\ IF stores THEN DepotSet(to, n, v) /\ Mark(to) ELSE UNCHANGED <<db, flags>>
     /\ todo' = [todo EXCEPT ![c] =
          (CASE b = "direct" -> <<[op |-> "directset", i |-> Find(T, n), n |-> n, v |-> v]>>
             [] b = "changed" /\ ~ load -> <<[op |-> "notify", i |-> 0, n |-> n, v |-> v]>>
             [] OTHER -> << >>) \o rest]

sw_parameter_set(c, n, v) == Calls(c) /\ SetWithDepot(c, n, v, NULL, FALSE, FALSE, << >>)

sw_parameter_set_default(c, n, v, d) ==
  Calls(c) /\ SetWithDepot(c, n, v, d, TRUE, TRUE, << >>)

\* The depot is looked up by its name.
sw_parameter_add(c, n, v, d) ==
  /\ Calls(c)
  /\ IF d \in Range(depots) THEN SetWithDepot(c, n, v, d, FALSE, FALSE, << >>)
     ELSE Returns(c) /\ UNCHANGED <<table, flags, db, promised>>

\* Sets left to do, one after the other.
Sets(lines) ==
  [i \in 1..Len(lines) |-> [op |-> "set", i |-> 0, n |-> lines[i][1], v |-> lines[i][2]]]

\* sw_parameter_set_group, sw_parameter_updatefrom_depot: each is a sequence
\* of calls of sw_parameter_set_with_depot.
sw_parameter_set_group(c, lines) ==
  /\ Calls(c)
  /\ todo' = [todo EXCEPT ![c] = Sets(lines)]
  /\ UNCHANGED <<table, flags, db, promised>>

sw_parameter_updatefrom_depot(c, d) ==
  sw_parameter_set_group(c,
    IF d \notin FileDepots THEN Lines(db[d])
    ELSE disk[d].file.lines \o IF Accepted(disk[d].file) THEN << >> ELSE disk[d].bak.lines)

Realtime(e) == DType[e.depot] = JAVA /\ e.realtime /\ ~ e.readonly

\* A name that only the default depot knows.
NewRealtime(t, n, realtime) ==
  Added(t, [name |-> n, value |-> NULL, readonly |-> FALSE, realtime |-> realtime,
            depot |-> defdepot])

\* sw_parameter_get: a realtime parameter is read from its depot after the
\* mutex is released, by its index.
sw_parameter_get(c, n) ==
  /\ Calls(c)
  /\ LET known == Find(T, n) # 0
         t == IF known \/ DType[defdepot] # JAVA \/ pnum >= MaxPara THEN T
              ELSE NewRealtime(T, n, TRUE)
         i == Find(t, n)
         e == t.plist[i]
     IN CASE i = 0 -> Returns(c) /\ UNCHANGED <<table, promised>>
          [] i # 0 /\ Realtime(e) ->
               /\ Table([t EXCEPT !.plist[i].value = NULL], {})
               /\ todo' = [todo EXCEPT ![c] =
                    <<[op |-> "directget", i |-> i, n |-> n, v |-> NULL]>>]
          [] OTHER ->
               /\ Table(IF /\ e.value = NULL /\ e.depot \notin FileDepots
                           /\ ~ e.readonly \/ DepotGet(e.depot, n) # ""
                        THEN [t EXCEPT !.plist[i].value = DepotGet(e.depot, n)] ELSE t, {})
               /\ Returns(c)
  /\ UNCHANGED <<flags, db>>

sw_parameter_get_by_pos(c, i) ==
  /\ Calls(c) /\ i <= pnum
  /\ LET e == plist[i] IN
     Table(IF Realtime(e) \/ e.value = NULL
           THEN [T EXCEPT !.plist[i].value = DepotGet(e.depot, e.name)] ELSE T, {})
  /\ Returns(c)
  /\ UNCHANGED <<flags, db>>

sw_parameter_set_readonly(c, n, readonly) ==
  /\ Calls(c) /\ Find(T, n) # 0
  /\ plist' = [plist EXCEPT ![Find(T, n)].readonly = readonly]
  /\ Returns(c)
  /\ UNCHANGED <<pnum, flags, db, promised>>

sw_parameter_set_realtime(c, n, realtime) ==
  /\ Calls(c)
  /\ LET i == Find(T, n) IN
     Table(CASE i # 0 -> [T EXCEPT !.plist[i].realtime = realtime]
             [] i = 0 /\ pnum < MaxPara /\ DType[defdepot] = JAVA -> NewRealtime(T, n, realtime)
             [] OTHER -> T, {})
  /\ Returns(c)
  /\ UNCHANGED <<flags, db>>

\* sw_parameter_delete; the entries behind move up, and the last place is
\* left as it was.
sw_parameter_delete(c, n) ==
  /\ Calls(c) /\ Find(T, n) # 0
  /\ LET i == Find(T, n)
         e == plist[i]
     IN /\ ~ e.readonly /\ DType[e.depot] # JAVA
        /\ Table([plist |-> [j \in 1..MaxPara |->
                    IF i <= j /\ j < pnum THEN plist[j + 1] ELSE plist[j]],
                  pnum |-> pnum - 1], {})
        /\ modified' = [modified EXCEPT ![e.depot] = TRUE]
  /\ Returns(c)
  /\ UNCHANGED <<saveall, saveauto, signal, db>>

\* The entries sw_parameter_delete_all removes.
Deleted(t) == [i \in 1..t.pnum |-> ~ t.plist[i].readonly /\ t.plist[i].depot = defdepot]

sw_parameter_delete_all(c) ==
  /\ Calls(c)
  /\ Table(Without(T, Deleted(T)), {})
  /\ modified' = [modified EXCEPT ![defdepot] = TRUE]
  /\ Returns(c)
  /\ UNCHANGED <<saveall, saveauto, signal, db>>

\* sw_parameter_update_with_depot: the depot, the default value and the
\* properties of a parameter are given by the program as it starts: its
\* comment allows it to be called then only.
UpdateKnown(i, v, readonly, realtime, d) ==
  LET e == plist[i]
      t == [T EXCEPT !.plist[i].readonly = readonly, !.plist[i].realtime = realtime,
                     !.plist[i].depot = d]
      x == DepotGet(d, e.name)
      default == IF e.value \notin {NULL, ""} THEN e.value
                 ELSE IF v = "" THEN NULL ELSE v
  IN CASE DType[d] = FILE -> Table([t EXCEPT !.plist[i].value = default], {}) /\ UNCHANGED db
       [] DType[d] = JAVA /\ d # e.depot /\ x # "" ->
            Table([t EXCEPT !.plist[i].value = x], {}) /\ UNCHANGED db
       [] DType[d] = JAVA /\ d # e.depot /\ x = "" ->
            /\ Table(t, {})
            /\ IF readonly \/ e.value \in {NULL, ""} THEN UNCHANGED db
               ELSE DepotSet(d, e.name, e.value)
       [] OTHER -> Table(t, {}) /\ UNCHANGED db

UpdateNew(n, v, readonly, realtime, d) ==
  LET x == DepotGet(d, n)
      value == CASE DType[d] = JAVA -> IF x # "" THEN x ELSE IF readonly THEN NULL ELSE v
                 [] DType[d] = FILE -> IF v = "" THEN NULL ELSE v
                 [] OTHER -> NULL
  IN /\ Table(Added(T, [name |-> n, value |-> value, readonly |-> readonly,
                        realtime |-> realtime, depot |-> d]), {})
     /\ IF DType[d] = JAVA /\ x = "" /\ ~ readonly THEN DepotSet(d, n, v) ELSE UNCHANGED db

sw_parameter_update_with_depot(c, n, v, readonly, realtime, d) ==
  /\ Calls(c) /\ calls = 0
  /\ IF Find(T, n) # 0 THEN UpdateKnown(Find(T, n), v, readonly, realtime, d)
     ELSE IF pnum < MaxPara THEN UpdateNew(n, v, readonly, realtime, d)
     ELSE UNCHANGED <<table, promised, db>>
  /\ Returns(c)
  /\ UNCHANGED flags

\* sw_parameter_refresh: what is not read each time is read anew.
sw_parameter_refresh(c) ==
  /\ Calls(c)
  /\ Table([T EXCEPT !.plist = [i \in 1..MaxPara |->
       LET e == plist[i] IN
       IF i <= pnum /\ DType[e.depot] = JAVA /\ (e.readonly \/ ~ e.realtime)
       THEN [e EXCEPT !.value = IF DepotGet(e.depot, e.name) = "" THEN NULL
                                ELSE DepotGet(e.depot, e.name)]
       ELSE e]], {})
  /\ Returns(c)
  /\ UNCHANGED <<flags, db>>

\* sw_parameter_unregister_depot: the move of the depots behind it counts in
\* depots where it should count in pointers and overwrites what lies behind
\* the array, unless there is none to move.
sw_parameter_unregister_depot(c, d) ==
  /\ Idle(c) /\ \A b \in 1..(c - 1) : ~ Idle(b)
  /\ ~ booting /\ ~ corrupt /\ ~ exit /\ ~ Locked
  /\ calls < MaxCalls /\ calls' = calls + 1
  /\ d \in Range(depots)
  /\ IF d = Last(depots)
     THEN /\ depots' = Front(depots)
          /\ Table(Without(T, [i \in 1..pnum |-> plist[i].depot = d]), {})
          /\ UNCHANGED corrupt
     ELSE corrupt' = TRUE /\ UNCHANGED <<depots, table, promised>>
  /\ UNCHANGED <<defdepot, flags, exit, saving, db, todo, booting, seen, crashes>>

sw_parameter_save(c) ==
  /\ Calls(c)
  /\ \E d \in Range(depots) : modified[d]
  /\ saveall' = TRUE /\ signal' = 1
  /\ Returns(c)
  /\ UNCHANGED <<table, promised, modified, saveauto, db>>

\* What a call still does after it has released the mutex.
Continues(c) ==
  /\ ~ Idle(c) /\ ~ corrupt
  /\ UNCHANGED <<depots, defdepot, exit, saving, booting, corrupt, bounds>>

ContinueSet(c) ==
  /\ Continues(c) /\ Head(todo[c]).op = "set" /\ ~ Locked
  /\ LET s == Head(todo[c]) IN SetWithDepot(c, s.n, s.v, NULL, FALSE, FALSE, Tail(todo[c]))
  /\ UNCHANGED seen

Notify(c) ==
  /\ Continues(c) /\ Head(todo[c]).op = "notify"
  /\ seen' = [seen EXCEPT ![Head(todo[c]).n] = Head(todo[c]).v]
  /\ todo' = [todo EXCEPT ![c] = Tail(@)]
  /\ UNCHANGED <<table, promised, flags, db>>

\* The depot is that of the entry which is now at the index found before; an
\* entry that has been cleared has none, and the process dies.
Direct(c) ==
  /\ ~ Idle(c) /\ ~ corrupt /\ Head(todo[c]).op \in {"directget", "directset"}
  /\ LET s == Head(todo[c])
         d == plist[s.i].depot
     IN IF d = NULL THEN Down /\ UNCHANGED crashes
        ELSE /\ Continues(c)
             /\ IF s.op = "directset" THEN DepotSet(d, s.n, s.v) ELSE UNCHANGED db
             /\ todo' = [todo EXCEPT ![c] = Tail(@)]
             /\ UNCHANGED <<table, promised, flags, seen>>

\* External: another program changes the database.
DatabaseChanges(d, n, v) ==
  /\ calls < MaxCalls /\ calls' = calls + 1 /\ ~ corrupt
  /\ db' = [db EXCEPT ![d][n] = v]
  /\ UNCHANGED <<table, depots, defdepot, flags, exit, saving, todo, booting,
                 corrupt, seen, crashes, promised>>

-----------------------------------------------------------------------------
(* param_save_proc, the saving thread, and sw_parameter_exit               *)

NotSaver == UNCHANGED <<table, depots, defdepot, exit, db, todo, booting, corrupt,
                        seen, bounds, promised>>

SaverWait ==
  /\ saver.pc = "wait" /\ signal > 0 /\ ~ corrupt
  /\ signal' = signal - 1
  /\ saver' = [saver EXCEPT !.pc = "debounce"]
  /\ UNCHANGED <<modified, saveall, saveauto, disk, kept, whole, openfails>>
  /\ NotSaver

\* Mutant: the wait in the loop has no time-out.
SaverDebounceForever ==
  /\ saver.pc = "debounce" /\ ~ corrupt
  /\ IF ~ exit THEN signal > 0 /\ signal' = signal - 1 /\ UNCHANGED saver
     ELSE saver' = [saver EXCEPT !.pc = "lock"] /\ UNCHANGED signal
  /\ UNCHANGED <<modified, saveall, saveauto, disk, kept, whole, openfails>>
  /\ NotSaver

\* It waits on while signals come within the time.
SaverDebounce ==
  /\ saver.pc = "debounce" /\ ~ corrupt
  /\ IF ~ exit /\ signal > 0 THEN signal' = signal - 1 /\ UNCHANGED saver
     ELSE saver' = [saver EXCEPT !.pc = "lock"] /\ UNCHANGED signal
  /\ UNCHANGED <<modified, saveall, saveauto, disk, kept, whole, openfails>>
  /\ NotSaver

\* The depots that are to be saved.
ToSave ==
  SelectSeq(depots, LAMBDA d : modified[d] /\ (saveall \/ (saveauto /\ d \in AutoSave)))

\* It takes the mutex, and keeps it until all are saved.
SaverLock ==
  /\ saver.pc = "lock" /\ ~ corrupt
  /\ modified' = [d \in Depots |-> modified[d] /\ d \notin Range(ToSave)]
  /\ saver' = [pc |-> "open", todo |->
       FlattenSeq([i \in 1..Len(ToSave) |-> IF ToSave[i] \in FileDepots
         THEN <<<<ToSave[i], "file">>, <<ToSave[i], "bak">>>> ELSE << >>])]
  /\ kept' = [d \in FileDepots |-> IF d \in Range(ToSave)
                THEN kept[d] \cup {Content(Gathered(T, d))} ELSE kept[d]]
  /\ UNCHANGED <<saveall, saveauto, signal, disk, whole, openfails>>
  /\ NotSaver

\* ifile_save_file: the file is opened and loses what it held, or cannot be
\* opened and keeps it.
SaverOpen ==
  /\ saver.pc = "open" /\ saver.todo # << >>
  /\ \/ /\ disk' = [disk EXCEPT ![Head(saver.todo)[1]][Head(saver.todo)[2]] = NoFile]
        /\ saver' = [saver EXCEPT !.pc = "write"]
        /\ UNCHANGED openfails
     \/ /\ openfails < MaxOpenFails /\ openfails' = openfails + 1
        /\ saver' = [saver EXCEPT !.todo = Tail(@)]
        /\ UNCHANGED disk
  /\ UNCHANGED <<flags, kept, whole>>
  /\ NotSaver

\* The lines reach the file one by one, the number of them last.
SaverWrite ==
  /\ saver.pc = "write"
  /\ LET d == Head(saver.todo)[1]
         lines == Gathered(T, d)
         old == disk[d][Head(saver.todo)[2]]
         n == Len(old.lines)
         new == IF n < Len(lines) THEN [old EXCEPT !.lines = Append(@, lines[n + 1])]
                ELSE [old EXCEPT !.total = TRUE]
     IN /\ disk' = [disk EXCEPT ![d][Head(saver.todo)[2]] = new]
        /\ saver' = IF new.total THEN [pc |-> "open", todo |-> Tail(saver.todo)] ELSE saver
        /\ kept' = IF disk'[d].file = disk'[d].bak /\ new.total
                   THEN [kept EXCEPT ![d] = {Content(lines)}] ELSE kept
        /\ whole' = [whole EXCEPT ![d] = @ \/ Cardinality(kept'[d]) = 1]
  /\ UNCHANGED <<flags, openfails>>
  /\ NotSaver

\* Mutant: the request to save automatically is left.
SaverDoneHalf ==
  /\ saver.pc = "open" /\ saver.todo = << >>
  /\ saveall' = FALSE
  /\ saveauto' = (saveauto /\ saveall)
  /\ saver' = [saver EXCEPT !.pc = IF exit THEN "ended" ELSE "wait"]
  /\ UNCHANGED <<modified, signal, disk, kept, whole, openfails>>
  /\ NotSaver

SaverDone ==
  /\ saver.pc = "open" /\ saver.todo = << >>
  /\ saveall' = FALSE
  /\ saveauto' = FALSE
  /\ saver' = [saver EXCEPT !.pc = IF exit THEN "ended" ELSE "wait"]
  /\ UNCHANGED <<modified, signal, disk, kept, whole, openfails>>
  /\ NotSaver

Saver == SaverWait \/ SaverDebounce \/ SaverLock \/ SaverOpen \/ SaverWrite \/ SaverDone

\* sw_parameter_exit, when no call is under way: the thread is told, and is
\* given some time before it is cancelled wherever it is; to the files that
\* is a crash.
sw_parameter_exit ==
  /\ ~ booting /\ ~ corrupt /\ ~ exit /\ \A c \in Clients : Idle(c)
  /\ calls < MaxCalls /\ calls' = calls + 1
  /\ exit' = TRUE /\ signal' = 1
  /\ UNCHANGED <<table, depots, defdepot, modified, saveall, saveauto, saving, db, todo,
                 booting, corrupt, seen, crashes, promised>>

ExitDone ==
  /\ exit /\ Down
  /\ crashes' = IF Locked THEN crashes + 1 ELSE crashes

-----------------------------------------------------------------------------

Boot == \E d \in Depots, b \in BOOLEAN : sw_parameter_register_depot(d, b)

ClientCalls(c) ==
  \/ \E n \in Names :
       \/ sw_parameter_get(c, n) \/ sw_parameter_delete(c, n)
       \/ \E v \in Inputs \cup {NULL} : sw_parameter_set(c, n, v)
       \/ \E v \in Inputs, d \in Depots : sw_parameter_add(c, n, v, d)
       \/ \E b \in BOOLEAN : sw_parameter_set_readonly(c, n, b) \/ sw_parameter_set_realtime(c, n, b)
       \/ \E v \in Defaults, d \in Depots :
            \/ sw_parameter_set_default(c, n, v, d)
            \/ \E r, s \in BOOLEAN : sw_parameter_update_with_depot(c, n, v, r, s, d)
  \/ \E n, m \in Names, v, w \in Inputs :
       n < m /\ sw_parameter_set_group(c, <<<<n, v>>, <<m, w>>>>)
  \/ \E d \in Depots :
       sw_parameter_updatefrom_depot(c, d) \/ sw_parameter_unregister_depot(c, d)
  \/ \E i \in 1..MaxPara : sw_parameter_get_by_pos(c, i)
  \/ sw_parameter_delete_all(c) \/ sw_parameter_refresh(c) \/ sw_parameter_save(c)

Client(c) == ContinueSet(c) \/ Notify(c) \/ Direct(c)

Next ==
  \/ Boot \/ Saver \/ Crash \/ sw_parameter_exit \/ ExitDone
  \/ \E c \in Clients : ClientCalls(c) \/ Client(c)
  \/ \E d \in Depots \ FileDepots, n \in Names, v \in Inputs : DatabaseChanges(d, n, v)

Spec == Init /\ [][Next]_vars

\* The saving thread runs.
FairSpec == Spec /\ WF_vars(Saver)

-----------------------------------------------------------------------------
(* Properties                                                              *)

Line == Names \X Values
File == [lines : Seq(Line), total : BOOLEAN]
Todo == [op : {"set", "notify", "directget", "directset"}, i : 0..MaxPara, n : Names,
         v : Values \cup {NULL}]

\* The state has its type: the entries of the table have a name and a depot,
\* what the files hold are lines, and the indices left to use are places of
\* the table (para_desc_t, sw_parameter_t).
TypeOK ==
  /\ pnum \in 0..MaxPara
  /\ \A i \in 1..MaxPara :
       plist[i] \in [name : Names \cup {0}, value : Values \cup {NULL}, readonly : BOOLEAN,
                     realtime : BOOLEAN, depot : Depots \cup {NULL}]
  /\ \A i \in 1..pnum : plist[i].name # 0 /\ plist[i].depot # NULL
  /\ Range(depots) \subseteq Depots /\ defdepot \in Depots \cup {NULL}
  /\ modified \in [Depots -> BOOLEAN]
  /\ {saveall, saveauto, exit, booting, corrupt} \subseteq BOOLEAN /\ signal \in 0..1
  /\ saver.pc \in {"wait", "debounce", "lock", "open", "write", "ended"}
  /\ \A d \in FileDepots : {disk[d].file, disk[d].bak} \subseteq File
  /\ \A d \in Depots \ FileDepots : db[d] \in [Names -> Values \cup {NULL}]
  /\ \A c \in Clients : \A i \in DOMAIN todo[c] : todo[c][i] \in Todo
  /\ seen \in [Names -> Values \cup {NULL}]

\* The table is sorted and no name is in it twice, however parameters are
\* added, deleted and moved, so that the binary search of sw_parameter_find
\* finds each of them at its place.
TableSorted ==
  /\ TypeOK
  /\ \A i, j \in 1..pnum : i < j => plist[i].name < plist[j].name
  /\ \A i \in 1..pnum : Find(T, plist[i].name) = i

\* Whenever the process dies, in the middle of a save too, the next
\* ifile_load gives every parameter of the depot the value it had in the
\* latest save that completed both files, or in one begun since; none is
\* lost or half written (swifiledepot.c, ifile_save and ifile_load).  It
\* needs a backup that is complete: nothing repairs one that is not before
\* the file is overwritten.  Nor is the backup spared when a file that a
\* crash has left incomplete cannot be opened.  And the table must have room
\* for the names of both files.
RecoversSaved ==
  \A d \in FileDepots :
    /\ whole[d] /\ 0 \in {crashes, openfails}
    /\ Cardinality({l[1] : l \in Range(disk[d].file.lines) \cup Range(disk[d].bak.lines)}) <= MaxPara
    => \A n \in Names : Held(Loaded(NoTable, d), n)[2] \in {c[n] : c \in kept[d]}

\* The saving thread does not sleep on a request to save
\* (sw_parameter_save and the sets give the signal, param_save_proc takes it).
NoLostSave == saver.pc = "wait" /\ signal = 0 => ~ saveall /\ ~ saveauto

\* A file depot that is not marked as modified, and not being saved, has in
\* its file what sets have stored in it since the start; without files that
\* cannot be opened.
CleanMeansSaved ==
  openfails = 0 => \A d \in Range(depots) \cap FileDepots : \A n \in Names :
    /\ promised[n][1] = d /\ promised[n][2] # NULL /\ ~ modified[d]
    /\ \A j \in Range(saver.todo) : j[1] # d
    => Content(disk[d].file.lines)[n] = Stripped[promised[n][2]]

\* A request to save is carried out, however often sets postpone it, as long
\* as the process lives (param_save_proc).
SaveHappens == (saveall /\ ~ corrupt) ~> (~ saveall \/ corrupt)

-----------------------------------------------------------------------------
(* Properties that do not hold; the README says how                        *)

\* The same, whatever happened before the process started.
RecoversAlways ==
  \A d \in FileDepots : \A n \in Names :
    Held(Loaded(NoTable, d), n)[2] \in {c[n] : c \in kept[d]}

\* What is recovered is what one save wrote.
RecoversWhole ==
  \A d \in FileDepots : [n \in Names |-> Held(Loaded(NoTable, d), n)[2]] \in kept[d]

\* The entry used after the mutex was released is the one that was found.
DirectFindsOwn ==
  \A c \in Clients : \A i \in DOMAIN todo[c] :
    todo[c][i].op \in {"directget", "directset"} => plist[todo[c][i].i].name = todo[c][i].n

\* When no call is under way, an observer knows the value a set has stored.
ObserverCurrent ==
  (\A c \in Clients : Idle(c)) => \A n \in Names : seen[n] # NULL /\ promised[n][1] # NULL
    => seen[n] = promised[n][2]

\* Observers are told of every parameter a set has stored.
ObserverTold ==
  (\A c \in Clients : Idle(c)) => \A n \in Names : promised[n][2] # NULL => seen[n] # NULL

\* Unregistering a depot leaves the other state alone.
NotCorrupt == ~ corrupt

=============================================================================
