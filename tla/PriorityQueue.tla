--------------------------- MODULE PriorityQueue ---------------------------
(***************************************************************************)
(* What a swapi queue promises its users: LevelNum FIFO sequences.  A      *)
(* level of Cover keeps the Max[l] most recent elements.  Any other level  *)
(* takes an element when it has room, and loses all it holds when a post   *)
(* is let through beside a full level.  A read takes the oldest element of *)
(* the first non-empty level.  Elements are stamped in the order in which  *)
(* they are posted to their level.                                         *)
(***************************************************************************)
EXTENDS Integers, Sequences

CONSTANTS LevelNum, Max, Cover

Level == 0..(LevelNum - 1)

VARIABLES queue, stored, got

vars == <<queue, stored, got>>

Init ==
  /\ queue = [l \in Level |-> <<>>]
  /\ stored = [l \in Level |-> 0]
  /\ got = [l \in Level |-> 0]

\* A new handle: the old contents are gone.
Create ==
  /\ queue' = [l \in Level |-> <<>>]
  /\ stored' = [l \in Level |-> 0]
  /\ got' = [l \in Level |-> 0]

Post(l) ==
  LET q == Append(queue[l], stored[l] + 1) IN
  /\ stored' = [stored EXCEPT ![l] = @ + 1]
  /\ queue' = [queue EXCEPT ![l] = IF Len(q) <= Max[l] THEN q
                                   ELSE IF l \in Cover THEN Tail(q) ELSE <<>>]
  /\ UNCHANGED got

Read(l) ==
  /\ queue[l] # <<>>
  /\ \A k \in Level : k < l => queue[k] = <<>>
  /\ got' = [got EXCEPT ![l] = Head(queue[l])]
  /\ queue' = [queue EXCEPT ![l] = Tail(@)]
  /\ UNCHANGED stored

Clear(S) ==
  /\ queue' = [l \in Level |-> IF l \in S THEN <<>> ELSE queue[l]]
  /\ UNCHANGED <<stored, got>>

Next ==
  \/ Create
  \/ \E l \in Level : Post(l) \/ Read(l) \/ Clear({l})
  \/ Clear(Level)

Spec == Init /\ [][Next]_vars
=============================================================================
