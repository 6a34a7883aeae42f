---------------------------- MODULE SwMemProofs ----------------------------
(***************************************************************************)
(* Theorems about the memory pools of swapi, and the lemmas they rest on:  *)
(* rounding to the alignment, lists of blocks that lie apart, the hint in  *)
(* front of which all gaps are too small, and where the search of          *)
(* malloc_old finds room.                                                  *)
(***************************************************************************)
EXTENDS SwMem, TLAPS, WellFoundedInduction

-----------------------------------------------------------------------------
(* Sequences                                                               *)

(* The elements of a sequence.                                             *)
LEMMA SeqElements ==
  ASSUME NEW S, NEW seq \in Seq(S)
  PROVE  /\ Len(seq) \in Nat /\ seq \in [1..Len(seq) -> S] /\ DOMAIN seq = 1..Len(seq)
         /\ \A n \in 1..Len(seq) : seq[n] \in S
OBVIOUS

(* The empty sequence is the only one without elements.                    *)
LEMMA SeqEmpty ==
  ASSUME NEW S
  PROVE  /\ <<>> \in Seq(S) /\ Len(<<>>) = 0
         /\ \A seq \in Seq(S) : seq # <<>> => Len(seq) \in Nat \ {0}
OBVIOUS

(* A part of a sequence.                                                   *)
LEMMA SeqPart ==
  ASSUME NEW S, NEW s, NEW m \in Int, NEW n \in Int, \A i \in m..n : s[i] \in S
  PROVE  /\ SubSeq(s, m, n) \in Seq(S)
         /\ Len(SubSeq(s, m, n)) = IF m <= n THEN n - m + 1 ELSE 0
         /\ \A i \in 1..n - m + 1 : SubSeq(s, m, n)[i] = s[m + i - 1]
OBVIOUS

(* One sequence behind another.                                            *)
LEMMA SeqConcat ==
  ASSUME NEW S, NEW s \in Seq(S), NEW t \in Seq(S)
  PROVE  /\ s \o t \in Seq(S) /\ Len(s \o t) = Len(s) + Len(t)
         /\ \A i \in 1..Len(s) + Len(t) :
              (s \o t)[i] = IF i <= Len(s) THEN s[i] ELSE t[i - Len(s)]
OBVIOUS

(* An element behind a sequence.                                           *)
LEMMA SeqAppend ==
  ASSUME NEW S, NEW seq \in Seq(S), NEW e \in S
  PROVE  /\ Append(seq, e) \in Seq(S) /\ Append(seq, e) # <<>>
         /\ Len(Append(seq, e)) = Len(seq) + 1
         /\ \A i \in 1..Len(seq) : Append(seq, e)[i] = seq[i]
         /\ Append(seq, e)[Len(seq) + 1] = e
OBVIOUS

(* A sequence with another element at one place.                           *)
LEMMA SeqExcept ==
  ASSUME NEW S, NEW seq \in Seq(S), NEW i \in 1..Len(seq), NEW e \in S
  PROVE  /\ [seq EXCEPT ![i] = e] \in Seq(S) /\ Len([seq EXCEPT ![i] = e]) = Len(seq)
         /\ \A j \in 1..Len(seq) : [seq EXCEPT ![i] = e][j] = IF j = i THEN e ELSE seq[j]
OBVIOUS

-----------------------------------------------------------------------------
(* Rounding and lists                                                      *)

Aligned(n) == \E k \in Int : n = k * Align

(* Every number is some multiple of the alignment and a rest.              *)
LEMMA Division ==
  ASSUME NEW n \in Int
  PROVE  /\ n \div Align \in Int /\ n % Align \in 0..Align - 1
         /\ n = (n \div Align) * Align + (n % Align)
<1>1. Align \in Int /\ Align > 0
  BY SizeAssumption
<1>2. n \div Align \in Int
  BY <1>1
<1>3. n % Align \in 0..Align - 1
  BY <1>1
<1>4. \A q, r \in Int : q = n \div Align /\ r = n % Align => n = q * Align + r
  BY <1>1
<1>5. n % Align \in Int
  BY <1>1, <1>3
<1> QED
  BY <1>2, <1>3, <1>4, <1>5, Zenon

(* Aligned numbers are those without a rest.                               *)
LEMMA AlignedMod ==
  ASSUME NEW n \in Int
  PROVE  n % Align = 0 <=> Aligned(n)
<1>1. ASSUME n % Align = 0
      PROVE  Aligned(n)
  <2> DEFINE q == n \div Align
  <2>1. q \in Int /\ n = q * Align + 0 /\ q * Align \in Int
    BY <1>1, Division, SizeAssumption
  <2> HIDE DEF q
  <2>2. n = q * Align
    BY <2>1
  <2> QED
    BY <2>1, <2>2 DEF Aligned
<1>2. ASSUME Aligned(n)
      PROVE  n % Align = 0
  <2>1. PICK k \in Int : n = k * Align
    BY <1>2 DEF Aligned
  <2> DEFINE q == n \div Align
             r == n % Align
  <2>2. q \in Int /\ r \in 0..Align - 1 /\ n = q * Align + r
    BY Division, SizeAssumption
  <2> HIDE DEF q, r
  <2>3. r = (k - q) * Align
    BY <2>1, <2>2, SizeAssumption
  <2>4. k - q \in Int
    BY <2>1, <2>2
  <2>5. ~ (k - q >= 1)
    <3> SUFFICES ASSUME k - q >= 1
                 PROVE  (k - q) * Align >= Align
      BY <2>2, <2>3, SizeAssumption
    <3> QED
      BY <2>4, SizeAssumption
  <2>6. ~ (k - q <= -1)
    <3> SUFFICES ASSUME k - q <= -1
                 PROVE  (k - q) * Align <= -Align
      BY <2>2, <2>3, SizeAssumption
    <3> QED
      BY <2>4, SizeAssumption
  <2>7. k - q = 0
    BY <2>4, <2>5, <2>6
  <2> QED
    BY <2>3, <2>7, SizeAssumption DEF r
<1> QED
  BY <1>1, <1>2

(* Sums and differences of aligned numbers are aligned.                    *)
LEMMA AlignedSum ==
  ASSUME NEW m \in Int, NEW n \in Int, Aligned(m), Aligned(n)
  PROVE  Aligned(m + n) /\ Aligned(m - n)
<1>1. PICK j \in Int : m = j * Align
  BY DEF Aligned
<1>2. PICK k \in Int : n = k * Align
  BY DEF Aligned
<1>3. m + n = (j + k) * Align /\ m - n = (j - k) * Align
  BY <1>1, <1>2, SizeAssumption
<1> QED
  BY <1>3 DEF Aligned

(* ALIGN_SIZE rounds up to the next aligned number.                        *)
LEMMA UpRounds ==
  ASSUME NEW n \in Int
  PROVE  /\ Up(n) \in Int /\ Aligned(Up(n))
         /\ n <= Up(n) /\ Up(n) <= n + Align - 1
         /\ \A m \in Int : Aligned(m) /\ n <= m => Up(n) <= m
<1> DEFINE q == (n + Align - 1) \div Align
           r == (n + Align - 1) % Align
<1>1. q \in Int /\ r \in 0..Align - 1 /\ n + Align - 1 = q * Align + r
  BY Division, SizeAssumption
<1>2. Up(n) = q * Align
  BY DEF Up
<1> HIDE DEF q, r
<1>3. Up(n) \in Int /\ n <= Up(n) /\ Up(n) <= n + Align - 1
  BY <1>1, <1>2, SizeAssumption
<1>4. Aligned(Up(n))
  BY <1>1, <1>2 DEF Aligned
<1>5. ASSUME NEW m \in Int, Aligned(m), n <= m, m < Up(n)
      PROVE  FALSE
  <2>1. Aligned(Up(n) - m)
    BY <1>3, <1>4, <1>5, AlignedSum
  <2>2. PICK k \in Int : Up(n) - m = k * Align
    BY <2>1 DEF Aligned
  <2>3. 0 < k * Align /\ k * Align < Align
    BY <1>3, <1>5, <2>2, SizeAssumption
  <2>4. k >= 1 => k * Align >= Align
    BY SizeAssumption
  <2>5. k <= 0 => k * Align <= 0
    BY SizeAssumption
  <2>6. k * Align \in Int
    BY <2>2, <1>3
  <2> QED
    BY <2>3, <2>4, <2>5, <2>6, SizeAssumption
<1> QED
  BY <1>3, <1>4, <1>5

-----------------------------------------------------------------------------
(* Lists of blocks                                                         *)

Blocks == [at : 0..Size, size : 0..Size]

(* The blocks of a list lie apart, each in front of all that follow it.    *)
Apart(l) ==
  /\ l \in Seq(Blocks)
  /\ \A i \in 1..Len(l) : /\ Aligned(l[i].at) /\ Guard <= l[i].size
                          /\ Data(l[i].at) + l[i].size <= Size
  /\ \A i, j \in 1..Len(l) : i < j => End(l[i]) <= l[j].at

(* m is l with the block b inserted behind place i, and without place i.   *)
Inserted(l, m, i, b) ==
  /\ m \in Seq(Blocks) /\ Len(m) = Len(l) + 1
  /\ \A k \in 1..Len(l) + 1 :
       m[k] = IF k <= i THEN l[k] ELSE IF k = i + 1 THEN b ELSE l[k - 1]
Removed(l, m, i) ==
  /\ m \in Seq(Blocks) /\ Len(m) = Len(l) - 1
  /\ \A k \in 1..Len(l) - 1 : m[k] = IF k < i THEN l[k] ELSE l[k + 1]

(* m is l with the block b at place i.                                     *)
Replaced(l, m, i, b) ==
  /\ m \in Seq(Blocks) /\ Len(m) = Len(l)
  /\ \A k \in 1..Len(l) : m[k] = IF k = i THEN b ELSE l[k]

(* Where the bytes of a block begin and where it ends.                     *)
LEMMA BlockEnds ==
  ASSUME NEW b \in Blocks
  PROVE  /\ b.at \in 0..Size /\ b.size \in 0..Size
         /\ Data(b.at) \in Int /\ Aligned(Data(b.at)) /\ b.at < Data(b.at)
         /\ End(b) \in Int /\ Aligned(End(b)) /\ Data(b.at) + b.size <= End(b)
<1>1. b.at \in 0..Size /\ b.size \in 0..Size
  BY DEF Blocks
<1>2. Data(b.at) \in Int /\ Aligned(Data(b.at)) /\ b.at < Data(b.at)
  <2>1. b.at + Hdr \in Int /\ b.at < b.at + Hdr
    BY <1>1, SizeAssumption
  <2>2. /\ Up(b.at + Hdr) \in Int /\ Aligned(Up(b.at + Hdr))
        /\ b.at + Hdr <= Up(b.at + Hdr)
    BY <2>1, UpRounds
  <2> QED
    BY <1>1, <2>1, <2>2, SizeAssumption DEF Data
<1>3. Up(b.size) \in Int /\ Aligned(Up(b.size)) /\ b.size <= Up(b.size)
  BY <1>1, UpRounds
<1>4. End(b) = Data(b.at) + Up(b.size)
  BY DEF End
<1>5. Aligned(End(b))
  BY <1>2, <1>3, <1>4, AlignedSum
<1> QED
  BY <1>1, <1>2, <1>3, <1>4, <1>5, SizeAssumption

(* A block that fits in front of an aligned address ends there or before.  *)
LEMMA EndFitsBefore ==
  ASSUME NEW b \in Blocks, NEW m \in Int, Aligned(m), Data(b.at) + b.size <= m
  PROVE  End(b) <= m
<1>1. Data(b.at) \in Int /\ Aligned(Data(b.at)) /\ b.size \in Int
  BY BlockEnds
<1>2. m - Data(b.at) \in Int /\ Aligned(m - Data(b.at)) /\ b.size <= m - Data(b.at)
  <2>1. Aligned(m - Data(b.at))
    BY <1>1, AlignedSum
  <2> QED
    BY <1>1, <2>1
<1>3. Up(b.size) \in Int /\ Up(b.size) <= m - Data(b.at)
  BY <1>1, <1>2, UpRounds
<1> QED
  BY <1>1, <1>3 DEF End

(* What is left of a list behind place i.                                  *)
LEMMA TailFrom ==
  ASSUME NEW l \in Seq(Blocks), NEW i \in 1..Len(l)
  PROVE  /\ SubSeq(l, i + 1, Len(l)) \in Seq(Blocks)
         /\ Len(SubSeq(l, i + 1, Len(l))) = Len(l) - i
         /\ \A k \in 1..Len(l) - i : SubSeq(l, i + 1, Len(l))[k] = l[i + k]
<1> DEFINE a == i + 1
           n == Len(l)
           t == SubSeq(l, a, n)
<1>1. n \in Nat /\ i \in Int /\ 1 <= i /\ i <= n /\ \A k \in 1..n : l[k] \in Blocks
  BY SeqElements
<1>2. a \in Int /\ n \in Int /\ a = i + 1 /\ \A k \in a..n : k \in 1..n
  <2> HIDE DEF n
  <2> QED
    BY <1>1
<1>3. \A k \in a..n : l[k] \in Blocks
  BY <1>1, <1>2
<1> HIDE DEF a, n
<1>4. /\ t \in Seq(Blocks) /\ Len(t) = IF a <= n THEN n - a + 1 ELSE 0
      /\ \A k \in 1..n - a + 1 : t[k] = l[a + k - 1]
  BY <1>2, <1>3, SeqPart
<1> HIDE DEF t
<1>5. Len(t) = n - i /\ n - a + 1 = n - i /\ \A k \in 1..n - i : a + k - 1 = i + k
  BY <1>1, <1>2, <1>4
<1>6. \A k \in 1..n - i : t[k] = l[i + k]
  BY <1>4, <1>5
<1> QED
  BY <1>4, <1>5, <1>6, Zenon DEF t, a, n

(* INSERT_AFTER puts a block behind place i.                               *)
LEMMA InsertAfterInserts ==
  ASSUME NEW l \in Seq(Blocks), NEW i \in 1..Len(l), NEW b \in Blocks
  PROVE  Inserted(l, SubSeq(l, 1, i) \o <<b>> \o SubSeq(l, i + 1, Len(l)), i, b)
<1> DEFINE s == SubSeq(l, 1, i)
           t == SubSeq(l, i + 1, Len(l))
           m == s \o <<b>> \o t
<1>1. l \in [1..Len(l) -> Blocks] /\ Len(l) \in Nat
  BY SeqElements
<1>2. s \in Seq(Blocks) /\ Len(s) = i /\ \A k \in 1..i : s[k] = l[k]
  <2>1. \A k \in 1..i : l[k] \in Blocks
    BY <1>1
  <2> QED
    BY <1>1, <2>1, SeqPart
<1>3. t \in Seq(Blocks) /\ Len(t) = Len(l) - i /\ \A k \in 1..Len(l) - i : t[k] = l[i + k]
  BY TailFrom
<1>4. m = (s \o <<b>>) \o t
  OBVIOUS
<1> HIDE DEF s, t, m
<1>5. /\ s \o <<b>> \in Seq(Blocks) /\ Len(s \o <<b>>) = i + 1
      /\ \A k \in 1..i + 1 : (s \o <<b>>)[k] = IF k <= i THEN s[k] ELSE b
  BY <1>2, SeqConcat
<1>6. /\ m \in Seq(Blocks) /\ Len(m) = Len(l) + 1
      /\ \A k \in 1..Len(l) + 1 :
           m[k] = IF k <= i + 1 THEN (s \o <<b>>)[k] ELSE t[k - (i + 1)]
  <2> DEFINE u == s \o <<b>>
  <2>1. u \in Seq(Blocks) /\ Len(u) = i + 1
    BY <1>5
  <2>2. m = u \o t
    BY <1>4
  <2> HIDE DEF u
  <2>3. /\ m \in Seq(Blocks) /\ Len(m) = Len(l) + 1
        /\ \A k \in 1..Len(l) + 1 : m[k] = IF k <= i + 1 THEN u[k] ELSE t[k - (i + 1)]
    <3>1. /\ u \o t \in Seq(Blocks) /\ Len(u \o t) = Len(u) + Len(t)
          /\ \A k \in 1..Len(u) + Len(t) :
               (u \o t)[k] = IF k <= Len(u) THEN u[k] ELSE t[k - Len(u)]
      BY <1>3, <2>1, SeqConcat, Zenon
    <3>2. Len(u) + Len(t) = Len(l) + 1
      BY <1>1, <1>3, <2>1
    <3> QED
      BY <2>1, <2>2, <3>1, <3>2, Zenon
  <2> QED
    BY <2>3, Zenon DEF u
<1>7. \A k \in 1..Len(l) + 1 :
        m[k] = IF k <= i THEN l[k] ELSE IF k = i + 1 THEN b ELSE l[k - 1]
  <2> SUFFICES ASSUME NEW k \in 1..Len(l) + 1
               PROVE  m[k] = IF k <= i THEN l[k] ELSE IF k = i + 1 THEN b ELSE l[k - 1]
    OBVIOUS
  <2>1. CASE k <= i
    BY <1>2, <1>5, <1>6, <2>1
  <2>2. CASE k = i + 1
    BY <1>5, <1>6, <2>2
  <2>3. CASE k > i + 1
    <3>1. m[k] = t[k - (i + 1)] /\ k - (i + 1) \in 1..Len(l) - i
      BY <1>1, <1>6, <2>3
    <3>2. t[k - (i + 1)] = l[i + (k - (i + 1))] /\ i + (k - (i + 1)) = k - 1
      BY <1>1, <1>3, <3>1, SMTT(30)
    <3> QED
      BY <2>3, <3>1, <3>2
  <2> QED
    BY <1>1, <2>1, <2>2, <2>3
<1> QED
  BY <1>6, <1>7, Zenon DEF Inserted, m, s, t

(* So does a new head.                                                    *)
LEMMA HeadInserts ==
  ASSUME NEW l \in Seq(Blocks), NEW b \in Blocks
  PROVE  Inserted(l, <<b>> \o l, 0, b)
<1>1. <<b>> \in Seq(Blocks) /\ Len(<<b>>) = 1 /\ <<b>>[1] = b
  OBVIOUS
<1>2. <<b>> \o l \in Seq(Blocks)
  BY <1>1, SeqConcat
<1> QED
  BY <1>1, <1>2, SeqConcat DEF Inserted

(* So does Append.                                                         *)
LEMMA AppendInserts ==
  ASSUME NEW l \in Seq(Blocks), NEW b \in Blocks
  PROVE  Inserted(l, Append(l, b), Len(l), b)
  BY SeqAppend DEF Inserted

(* REMOVE_NODE takes place i out.                                          *)
LEMMA RemoveNodeRemoves ==
  ASSUME NEW l \in Seq(Blocks), NEW i \in 1..Len(l)
  PROVE  Removed(l, SubSeq(l, 1, i - 1) \o SubSeq(l, i + 1, Len(l)), i)
<1> DEFINE s == SubSeq(l, 1, i - 1)
           t == SubSeq(l, i + 1, Len(l))
           m == s \o t
<1>1. l \in [1..Len(l) -> Blocks] /\ Len(l) \in Nat
  BY SeqElements
<1>2. s \in Seq(Blocks) /\ Len(s) = i - 1 /\ \A k \in 1..i - 1 : s[k] = l[k]
  <2>1. \A k \in 1..i - 1 : l[k] \in Blocks
    BY <1>1
  <2> QED
    BY <1>1, <2>1, SeqPart
<1>3. t \in Seq(Blocks) /\ Len(t) = Len(l) - i /\ \A k \in 1..Len(l) - i : t[k] = l[i + k]
  BY TailFrom
<1>4. m = s \o t
  OBVIOUS
<1> HIDE DEF s, t, m
<1>5. /\ m \in Seq(Blocks) /\ Len(m) = Len(l) - 1
      /\ \A k \in 1..Len(l) - 1 : m[k] = IF k <= i - 1 THEN s[k] ELSE t[k - (i - 1)]
  <2>1. /\ s \o t \in Seq(Blocks) /\ Len(s \o t) = Len(s) + Len(t)
        /\ \A k \in 1..Len(s) + Len(t) :
             (s \o t)[k] = IF k <= Len(s) THEN s[k] ELSE t[k - Len(s)]
    BY <1>2, <1>3, SeqConcat, Zenon
  <2>2. Len(s) + Len(t) = Len(l) - 1
    BY <1>1, <1>2, <1>3
  <2> QED
    BY <1>2, <1>4, <2>1, <2>2, Zenon
<1>6. \A k \in 1..Len(l) - 1 : m[k] = IF k < i THEN l[k] ELSE l[k + 1]
  <2> SUFFICES ASSUME NEW k \in 1..Len(l) - 1
               PROVE  m[k] = IF k < i THEN l[k] ELSE l[k + 1]
    OBVIOUS
  <2>1. CASE k < i
    BY <1>2, <1>5, <2>1
  <2>2. CASE k >= i
    BY <1>1, <1>3, <1>5, <2>2
  <2> QED
    BY <1>1, <2>1, <2>2
<1> QED
  BY <1>5, <1>6, Zenon DEF Removed, m, s, t

(* A block put where it fits keeps the list apart.                         *)
LEMMA InsertApart ==
  ASSUME NEW l, NEW m, NEW i \in Nat, NEW b \in Blocks, Apart(l), i <= Len(l),
         Inserted(l, m, i, b), Aligned(b.at), Guard <= b.size,
         Data(b.at) + b.size <= Size,
         \A j \in 1..Len(l) : IF j <= i THEN End(l[j]) <= b.at ELSE End(b) <= l[j].at
  PROVE  Apart(m)
<1>1. Len(l) \in Nat /\ Len(m) = Len(l) + 1 /\ m \in Seq(Blocks)
  BY SeqElements DEF Apart, Inserted
<1>2. ASSUME NEW k \in 1..Len(m)
      PROVE  Aligned(m[k].at) /\ Guard <= m[k].size /\ Data(m[k].at) + m[k].size <= Size
  <2>1. CASE k <= i
    BY <1>1, <1>2, <2>1 DEF Apart, Inserted
  <2>2. CASE k = i + 1
    <3>1. m[k] = b
      BY <1>1, <2>2 DEF Inserted
    <3> QED
      BY <3>1
  <2>3. CASE k > i + 1
    BY <1>1, <1>2, <2>3 DEF Apart, Inserted
  <2> QED
    BY <1>1, <2>1, <2>2, <2>3
<1>3. ASSUME NEW j \in 1..Len(m), NEW k \in 1..Len(m), j < k
      PROVE  End(m[j]) <= m[k].at
  <2>1. CASE k <= i
    <3>1. j \in 1..Len(l) /\ k \in 1..Len(l) /\ j \in 1..i /\ k \in 1..i
      BY <1>1, <1>3, <2>1
    <3>2. m[j] = l[j] /\ m[k] = l[k]
      BY <1>1, <3>1 DEF Inserted
    <3> QED
      BY <1>3, <3>1, <3>2, Zenon DEF Apart
  <2>2. CASE k = i + 1
    <3>1. j \in 1..Len(l) /\ j <= i
      BY <1>1, <1>3, <2>2
    <3>2. m[j] = l[j] /\ m[k] = b
      BY <1>1, <2>2, <3>1 DEF Inserted
    <3> QED
      BY <3>1, <3>2, Zenon
  <2>3. CASE k > i + 1 /\ j = i + 1
    <3>1. k - 1 \in 1..Len(l) /\ ~ (k - 1 <= i)
      BY <1>1, <1>3, <2>3
    <3>2. m[j] = b /\ m[k] = l[k - 1]
      BY <1>1, <2>3 DEF Inserted
    <3> QED
      BY <3>1, <3>2, Zenon
  <2>4. CASE k > i + 1 /\ j <= i
    <3>1. j \in 1..Len(l) /\ k - 1 \in 1..Len(l) /\ j < k - 1
      BY <1>1, <1>3, <2>4
    <3>2. m[j] = l[j] /\ m[k] = l[k - 1]
      BY <1>1, <2>4 DEF Inserted
    <3> QED
      BY <3>1, <3>2, Zenon DEF Apart
  <2>5. CASE k > i + 1 /\ j > i + 1
    <3>1. j - 1 \in 1..Len(l) /\ k - 1 \in 1..Len(l) /\ j - 1 < k - 1
      BY <1>1, <1>3, <2>5
    <3>2. m[j] = l[j - 1] /\ m[k] = l[k - 1]
      BY <1>1, <2>5 DEF Inserted
    <3> QED
      BY <3>1, <3>2, Zenon DEF Apart
  <2> QED
    BY <1>1, <2>1, <2>2, <2>3, <2>4, <2>5
<1> QED
  BY <1>1, <1>2, <1>3 DEF Apart

(* Taking a block out keeps the list apart.                                *)
LEMMA RemoveApart ==
  ASSUME NEW l, NEW m, Apart(l), NEW i \in 1..Len(l), Removed(l, m, i)
  PROVE  Apart(m)
<1>1. Len(l) \in Nat /\ Len(m) = Len(l) - 1 /\ m \in Seq(Blocks)
  BY SeqElements DEF Apart, Removed
<1>2. ASSUME NEW k \in 1..Len(m)
      PROVE  Aligned(m[k].at) /\ Guard <= m[k].size /\ Data(m[k].at) + m[k].size <= Size
  <2>1. \E x \in 1..Len(l) : m[k] = l[x]
    <3>1. k \in 1..Len(l) /\ k + 1 \in 1..Len(l) /\ k \in 1..Len(l) - 1
      BY <1>1, <1>2
    <3> QED
      BY <3>1, Zenon DEF Removed
  <2> QED
    BY <2>1, Zenon DEF Apart
<1>3. ASSUME NEW j \in 1..Len(m), NEW k \in 1..Len(m), j < k
      PROVE  End(m[j]) <= m[k].at
  <2> DEFINE p(x) == IF x < i THEN x ELSE x + 1
  <2>1. m[j] = l[p(j)] /\ m[k] = l[p(k)]
    BY <1>1, <1>3 DEF Removed
  <2>2. p(j) \in 1..Len(l) /\ p(k) \in 1..Len(l) /\ p(j) < p(k)
    BY <1>1, <1>3
  <2> HIDE DEF p
  <2> QED
    BY <2>1, <2>2 DEF Apart
<1> QED
  BY <1>1, <1>2, <1>3, Zenon DEF Apart

(* So does a new size for a block that leaves the next one alone.          *)
LEMMA ResizeApart ==
  ASSUME NEW l, Apart(l), NEW i \in 1..Len(l), NEW b \in Blocks, b.at = l[i].at,
         NEW m, Replaced(l, m, i, b),
         Guard <= b.size, Data(b.at) + b.size <= Size,
         \A j \in 1..Len(l) : i < j => Data(b.at) + b.size <= l[j].at
  PROVE  Apart(m) /\ Len(m) = Len(l) /\ \A k \in 1..Len(l) : m[k].at = l[k].at
<1>1. l \in Seq(Blocks) /\ l[i] \in Blocks /\ Len(l) \in Nat
  BY SeqElements DEF Apart
<1>2. /\ m \in Seq(Blocks) /\ Len(m) = Len(l)
      /\ \A k \in 1..Len(l) : m[k] = IF k = i THEN b ELSE l[k]
  BY DEF Replaced
<1>3. \A j \in 1..Len(l) : i < j => End(b) <= l[j].at
  <2> SUFFICES ASSUME NEW j \in 1..Len(l), i < j
               PROVE  End(b) <= l[j].at
    OBVIOUS
  <2>1. l[j] \in Blocks
    BY <1>1, SeqElements
  <2>2. l[j].at \in Int /\ Aligned(l[j].at)
    <3>1. l[j].at \in 0..Size
      BY <2>1, BlockEnds
    <3>2. Aligned(l[j].at)
      BY DEF Apart
    <3> QED
      BY <3>1, <3>2, SizeAssumption
  <2> QED
    BY <2>2, EndFitsBefore
<1>4. \A k \in 1..Len(m) :
        Aligned(m[k].at) /\ Guard <= m[k].size /\ Data(m[k].at) + m[k].size <= Size
  BY <1>2 DEF Apart
<1>5. \A j, k \in 1..Len(m) : j < k => End(m[j]) <= m[k].at
  BY <1>1, <1>2, <1>3 DEF Apart
<1> QED
  BY <1>2, <1>4, <1>5 DEF Apart

(* The addresses of a list ascend, so that a block is found by its own.    *)
LEMMA Ascending ==
  ASSUME NEW l, Apart(l)
  PROVE  /\ \A i \in 1..Len(l) : l[i] \in Blocks /\ l[i].at < End(l[i])
         /\ \A i, j \in 1..Len(l) : (i < j <=> l[i].at < l[j].at)
         /\ \A i, j \in 1..Len(l) : l[i].at = l[j].at => i = j
<1>1. Len(l) \in Nat /\ \A i \in 1..Len(l) : l[i] \in Blocks
  BY SeqElements DEF Apart
<1>2. \A i \in 1..Len(l) :
        /\ l[i].at \in Int /\ End(l[i]) \in Int /\ l[i].at < End(l[i])
  <2> SUFFICES ASSUME NEW i \in 1..Len(l)
               PROVE  l[i].at \in Int /\ End(l[i]) \in Int /\ l[i].at < End(l[i])
    OBVIOUS
  <2>1. /\ l[i].at \in 0..Size /\ l[i].size \in 0..Size
        /\ Data(l[i].at) \in Int /\ l[i].at < Data(l[i].at)
        /\ End(l[i]) \in Int /\ Data(l[i].at) + l[i].size <= End(l[i])
    BY <1>1, BlockEnds
  <2> QED
    BY <2>1, SizeAssumption
<1>3. \A i, j \in 1..Len(l) : i < j => l[i].at < l[j].at
  BY <1>1, <1>2 DEF Apart
<1>4. \A i, j \in 1..Len(l) : l[i].at < l[j].at => i < j
  BY <1>1, <1>2, <1>3
<1>5. \A i, j \in 1..Len(l) : l[i].at = l[j].at => i = j
  BY <1>1, <1>2, <1>3
<1> QED
  BY <1>1, <1>2, <1>3, <1>4, <1>5

-----------------------------------------------------------------------------
(* The hint: all gaps in front of it are too small for any request.        *)
Hint(l, f) ==
  f # NULL =>
    /\ TooSmall(l[1].at - Up(Hdr))
    /\ \A i \in 1..Len(l) - 1 :
         l[i].at < f => TooSmall(l[i + 1].at - Up(End(l[i]) + Hdr))

(* A larger end of a block makes the gap behind it smaller.                *)
LEMMA UpMonotonic ==
  ASSUME NEW m \in Int, NEW n \in Int, m <= n
  PROVE  Up(m) \in Int /\ Up(n) \in Int /\ Up(m) <= Up(n)
<1>1. Up(m) \in Int /\ Up(n) \in Int /\ Aligned(Up(n)) /\ n <= Up(n)
  BY UpRounds
<1>2. m <= Up(n)
  BY <1>1
<1> QED
  BY <1>1, <1>2, UpRounds

(* A block inserted behind the hint, at place i, leaves it right.          *)
LEMMA HintInsert ==
  ASSUME NEW l, NEW m, NEW i \in Nat, NEW b \in Blocks, Apart(l), Apart(m), i <= Len(l),
         Inserted(l, m, i, b), NEW p \in 1..i, TooSmall(l[1].at - Up(Hdr)),
         \A k \in 1..p - 1 : TooSmall(l[k + 1].at - Up(End(l[k]) + Hdr))
  PROVE  Hint(m, l[p].at)
<1>1. Len(l) \in Nat /\ Len(m) = Len(l) + 1
  BY SeqElements DEF Apart, Inserted
<1>2. \A k \in 1..i : m[k] = l[k]
  BY <1>1 DEF Inserted
<1>3. \A k \in 1..Len(m) - 1 : m[k].at < l[p].at => k \in 1..p - 1
  <2>1. \A k \in 1..Len(m) : m[k].at < m[p].at => k < p
    BY <1>1, Ascending
  <2>2. m[p] = l[p]
    BY <1>2
  <2> QED
    BY <1>1, <2>1, <2>2
<1>4. \A k \in 1..p - 1 : m[k] = l[k] /\ m[k + 1] = l[k + 1]
  BY <1>1, <1>2
<1>5. m[1] = l[1]
  BY <1>2
<1> QED
  BY <1>3, <1>4, <1>5, SMTT(30) DEF Hint

(* A block that was taken out takes the hint to the block before it.       *)
LEMMA HintRemove ==
  ASSUME NEW l, NEW m, NEW i \in 1..Len(l), Apart(l), Removed(l, m, i),
         NEW f, f = NULL \/ \E p \in 1..Len(l) : f = l[p].at, Hint(l, f)
  PROVE  Hint(m, IF f >= l[i].at THEN IF i = 1 THEN NULL ELSE l[i - 1].at ELSE f)
<1>1. Len(l) \in Nat /\ Len(m) = Len(l) - 1 /\ Apart(m)
  BY SeqElements, RemoveApart, Zenon DEF Apart, Removed
<1>2. \A k \in 1..i - 1 : m[k] = l[k]
  BY <1>1 DEF Removed
<1>3. \A k \in 1..Len(l) : l[k].at \in 0..Size
  BY Ascending, BlockEnds
<1>4. (f = NULL => ~ (f >= l[i].at)) /\ f \in Int
  BY <1>3, SizeAssumption DEF NULL
<1>5. CASE f = NULL
  BY <1>4, <1>5 DEF Hint
<1>6. CASE f # NULL /\ f >= l[i].at /\ i = 1
  BY <1>6 DEF Hint
<1>7. ASSUME f # NULL, NEW q \in 1..i - 1, l[q].at < f \/ l[q].at = f
      PROVE  Hint(m, l[q].at)
  <2>1. TooSmall(m[1].at - Up(Hdr))
    BY <1>2, <1>7 DEF Hint
  <2>2. ASSUME NEW k \in 1..Len(m) - 1, m[k].at < l[q].at
        PROVE  TooSmall(m[k + 1].at - Up(End(m[k]) + Hdr))
    <3>1. m[q] = l[q] /\ q \in 1..Len(m) /\ k \in 1..Len(m)
      BY <1>1, <1>2
    <3>2. k < q
      BY <1>1, <2>2, <3>1, Ascending, SMTT(30)
    <3>3. k \in 1..Len(l) - 1 /\ m[k] = l[k] /\ m[k + 1] = l[k + 1]
      BY <1>1, <1>2, <3>2
    <3>4. l[k].at < f
      <4>1. l[k].at \in Int /\ l[q].at \in Int /\ l[k].at < l[q].at
        BY <1>1, <1>3, <2>2, <3>3, SizeAssumption
      <4> QED
        <5>1. f \in Int
          BY <1>4
        <5> QED
          BY <1>7, <4>1, <5>1, SMTT(30)
    <3> QED
      BY <1>7, <3>3, <3>4 DEF Hint
  <2> QED
    BY <2>1, <2>2 DEF Hint
<1>8. CASE f # NULL /\ f >= l[i].at /\ i # 1
  <2>1. i - 1 \in 1..i - 1 /\ l[i - 1].at < l[i].at
    BY <1>1, <1>8, Ascending
  <2>2. f \in Int /\ l[i - 1].at < f
    BY <1>1, <1>3, <1>8, <2>1, SizeAssumption, SMTT(30)
  <2> QED
    BY <1>7, <1>8, <2>1, <2>2
<1>9. CASE f # NULL /\ ~ (f >= l[i].at)
  <2>1. PICK p \in 1..Len(l) : f = l[p].at
    BY <1>9
  <2>2. p < i
    BY <1>3, <1>9, <2>1, Ascending, SizeAssumption
  <2>3. p \in 1..i - 1
    BY <1>1, <2>1, <2>2
  <2> QED
    BY <1>7, <1>9, <2>1, <2>3
<1> QED
  BY <1>5, <1>6, <1>8, <1>9

(* A block that does not become smaller leaves the hint right.             *)
LEMMA HintResize ==
  ASSUME NEW l, NEW m, Apart(l), Apart(m), Len(m) = Len(l),
         \A k \in 1..Len(l) : m[k].at = l[k].at /\ l[k].size <= m[k].size,
         NEW f, Hint(l, f), Len(l) # 0
  PROVE  Hint(m, f)
<1>1. Len(l) \in Nat
  BY SeqElements DEF Apart
<1>2. \A k \in 1..Len(l) : l[k] \in Blocks /\ m[k] \in Blocks
  BY Ascending
<1>3. ASSUME NEW k \in 1..Len(l)
      PROVE  /\ l[k].at \in Int
             /\ Up(End(l[k]) + Hdr) \in Int /\ Up(End(m[k]) + Hdr) \in Int
             /\ Up(End(l[k]) + Hdr) <= Up(End(m[k]) + Hdr)
  <2>1. /\ l[k].at \in 0..Size /\ l[k].size \in 0..Size /\ m[k].size \in 0..Size
        /\ Data(l[k].at) \in Int /\ End(l[k]) \in Int /\ End(m[k]) \in Int
    BY <1>2, <1>3, BlockEnds
  <2>2. Up(l[k].size) \in Int /\ Up(m[k].size) \in Int /\ Up(l[k].size) <= Up(m[k].size)
    <3>1. l[k].size \in Int /\ m[k].size \in Int /\ l[k].size <= m[k].size
      BY <1>3, <2>1, SizeAssumption
    <3> QED
      BY <3>1, UpMonotonic, Zenon
  <2>3. End(l[k]) <= End(m[k])
    <3>1. /\ End(l[k]) = Data(l[k].at) + Up(l[k].size)
          /\ End(m[k]) = Data(l[k].at) + Up(m[k].size)
      BY <1>3, Zenon DEF End
    <3> QED
      BY <2>1, <2>2, <3>1, SMTT(30)
  <2>4. End(l[k]) + Hdr \in Int /\ End(m[k]) + Hdr \in Int /\ End(l[k]) + Hdr <= End(m[k]) + Hdr
    BY <2>1, <2>3, SizeAssumption, SMTT(30)
  <2> QED
    <3>1. l[k].at \in Int
      BY <2>1, SizeAssumption
    <3> QED
      BY <2>4, <3>1, UpMonotonic, Zenon
<1>4. ASSUME f # NULL
      PROVE  TooSmall(m[1].at - Up(Hdr))
  BY <1>1, <1>4 DEF Hint
<1>5. ASSUME f # NULL, NEW k \in 1..Len(m) - 1, m[k].at < f
      PROVE  TooSmall(m[k + 1].at - Up(End(m[k]) + Hdr))
  <2>1. k \in 1..Len(l) /\ k + 1 \in 1..Len(l) /\ m[k].at = l[k].at /\ m[k + 1].at = l[k + 1].at
    BY <1>1
  <2>2. l[k + 1].at - Up(End(l[k]) + Hdr) <= Align - 1 + Guard
    BY <1>1, <1>5, <2>1 DEF Hint, TooSmall
  <2> QED
    BY <1>3, <2>1, <2>2, SizeAssumption, GuardAssumption, SMTT(30) DEF TooSmall
<1> QED
  BY <1>4, <1>5 DEF Hint

-----------------------------------------------------------------------------
(* The state of the pool                                                   *)

Pool ==
  /\ Apart(list) /\ first \in Addresses \cup {NULL}
  /\ tail = IF list = <<>> THEN NULL ELSE list[Len(list)].at
  /\ alloc_size \in Int /\ maxpos \in 0..Size /\ alarm \in {"none", "raised"}
  /\ shrunk = "no" => Hint(list, first)

(* The block b can be put behind place i.                                  *)
Fit(i, b) ==
  /\ b \in Blocks /\ Aligned(b.at) /\ Guard <= b.size /\ Data(b.at) + b.size <= Size
  /\ \A j \in 1..Len(list) : IF j <= i THEN End(list[j]) <= b.at ELSE End(b) <= list[j].at

(* What the list of a pool is.                                             *)
LEMMA ListFacts ==
  ASSUME Pool
  PROVE  /\ list \in Seq(Blocks) /\ Len(list) \in Nat /\ DOMAIN list = 1..Len(list)
         /\ (list = <<>> <=> Len(list) = 0)
         /\ \A i \in 1..Len(list) :
              /\ list[i] \in Blocks /\ list[i].at \in 0..Size /\ Aligned(list[i].at)
              /\ End(list[i]) \in Int /\ Aligned(End(list[i])) /\ list[i].at < End(list[i])
<1>1. list \in Seq(Blocks)
  BY DEF Pool, Apart
<1>2. Len(list) \in Nat /\ DOMAIN list = 1..Len(list) /\ (list = <<>> <=> Len(list) = 0)
  BY <1>1, SeqElements, SeqEmpty
<1>3. \A i \in 1..Len(list) : list[i] \in Blocks /\ list[i].at < End(list[i])
  BY Ascending DEF Pool
<1>4. \A i \in 1..Len(list) :
        list[i].at \in 0..Size /\ End(list[i]) \in Int /\ Aligned(End(list[i]))
  BY <1>3, BlockEnds
<1>5. \A i \in 1..Len(list) : Aligned(list[i].at)
  BY DEF Pool, Apart
<1> QED
  BY <1>1, <1>2, <1>3, <1>4, <1>5

(* IndexOf finds the block with an address.                                *)
LEMMA IndexFound ==
  ASSUME Pool
  PROVE  /\ \A at \in Addresses : IndexOf(at) \in 1..Len(list) /\ list[IndexOf(at)].at = at
         /\ \A i \in 1..Len(list) : list[i].at \in Addresses /\ IndexOf(list[i].at) = i
         /\ NULL \notin Addresses
<1>1. DOMAIN list = 1..Len(list)
  BY ListFacts
<1>2. \A at \in Addresses : \E i \in DOMAIN list : list[i].at = at
  BY DEF Addresses
<1>3. \A at \in Addresses : IndexOf(at) \in DOMAIN list /\ list[IndexOf(at)].at = at
  BY <1>2, Zenon DEF IndexOf
<1>4. \A i \in 1..Len(list) : list[i].at \in Addresses
  BY <1>1 DEF Addresses
<1>5. \A i, j \in 1..Len(list) : list[i].at = list[j].at => i = j
  BY Ascending DEF Pool
<1>6. \A i \in 1..Len(list) : IndexOf(list[i].at) = i
  BY <1>1, <1>3, <1>4, <1>5, Zenon
<1>7. \A i \in 1..Len(list) : list[i].at # NULL
  BY ListFacts, SizeAssumption DEF NULL
<1>8. NULL \notin Addresses
  BY <1>1, <1>7 DEF Addresses
<1> QED
  BY <1>1, <1>3, <1>4, <1>6, <1>8

(* A non-empty set of places has a first one.                              *)
LEMMA LeastIn ==
  ASSUME NEW S \in SUBSET Nat, S # {}
  PROVE  Least(S) \in S /\ \A y \in S : Least(S) <= y
<1>1. \E x \in S : \A y \in S : ~ (<<y, x>> \in OpToRel(<, Nat))
  BY NatLessThanWellFounded, WFMin, Zenon
<1>2. PICK x \in S : \A y \in S : ~ (<<y, x>> \in OpToRel(<, Nat))
  BY <1>1, Zenon
<1>3. \A y \in S : x <= y
  <2> SUFFICES ASSUME NEW y \in S
               PROVE  x <= y
    OBVIOUS
  <2>1. ~ (y < x)
    BY <1>2, Zenon DEF OpToRel
  <2> QED
    BY <2>1
<1> QED
  BY <1>3, Zenon DEF Least

(* Where the scan of malloc_old starts.                                    *)
LEMMA ScanStarts ==
  ASSUME Pool, list # <<>>
  PROVE  /\ ScanFrom \in 1..Len(list)
         /\ first = NULL => ScanFrom = 1
         /\ first # NULL => list[ScanFrom].at = first
<1>1. Len(list) \in Nat /\ Len(list) # 0
  BY ListFacts
<1>2. CASE first = NULL
  BY <1>1, <1>2 DEF ScanFrom
<1>3. CASE first # NULL
  <2>1. first \in Addresses
    BY <1>3 DEF Pool
  <2> QED
    BY <1>3, <2>1, IndexFound DEF ScanFrom
<1> QED
  BY <1>2, <1>3

(* Where the scan leaves the hint.                                         *)
LEMMA FirstAfterPlace ==
  ASSUME Pool, list # <<>>, NEW last \in 0..Len(list) - 1, FirstAfter(last) # NULL
  PROVE  \E p \in 1..Len(list) :
           /\ FirstAfter(last) = list[p].at
           /\ ScanFrom <= last => p <= last
           /\ shrunk = "no" =>
                TooSmall(HeadGap) /\ \A k \in 1..p - 1 : TooSmall(Gap(k))
<1>1. Len(list) \in Nat /\ ScanFrom \in 1..Len(list)
  BY ListFacts, ScanStarts
<1>2. ASSUME shrunk = "no", first # NULL
      PROVE  TooSmall(HeadGap) /\ \A k \in 1..ScanFrom - 1 : TooSmall(Gap(k))
  <2>1. list[ScanFrom].at = first /\ Hint(list, first)
    BY <1>2, ScanStarts DEF Pool
  <2>2. \A k \in 1..ScanFrom - 1 : k \in 1..Len(list) - 1 /\ list[k].at < first
    BY <1>1, <2>1, Ascending DEF Pool
  <2> QED
    BY <1>2, <2>1, <2>2 DEF Hint, HeadGap, Gap
<1>3. CASE last < ScanFrom
  <2>1. FirstAfter(last) = first
    BY <1>3 DEF FirstAfter
  <2> QED
    BY <1>1, <1>2, <1>3, <2>1, ScanStarts
<1>4. CASE ~ (last < ScanFrom)
  <2> DEFINE big == {i \in ScanFrom..last : ~ TooSmall(Gap(i))}
             p == IF big = {} THEN last ELSE Least(big)
  <2>1. ~ (first = NULL /\ ~ TooSmall(HeadGap)) /\ FirstAfter(last) = list[p].at
    BY <1>4 DEF FirstAfter
  <2>2. big \in SUBSET Nat
    BY <1>1
  <2>3. big # {} => Least(big) \in big /\ \A y \in big : Least(big) <= y
    <3> HIDE DEF big
    <3> QED
      BY <2>2, LeastIn
  <2>4. p \in 1..Len(list) /\ p <= last
    BY <1>1, <1>4, <2>3
  <2>5. \A k \in ScanFrom..p - 1 : TooSmall(Gap(k))
    <3> SUFFICES ASSUME NEW k \in ScanFrom..p - 1
                 PROVE  TooSmall(Gap(k))
      OBVIOUS
    <3>1. k \in ScanFrom..last /\ ~ (p <= k)
      BY <1>1, <2>4
    <3>2. k \notin big
      BY <2>3, <3>1
    <3> QED
      BY <3>1, <3>2
  <2> HIDE DEF big, p
  <2>6. shrunk = "no" => TooSmall(HeadGap) /\ \A k \in 1..p - 1 : TooSmall(Gap(k))
    <3> SUFFICES ASSUME shrunk = "no"
                 PROVE  TooSmall(HeadGap) /\ \A k \in 1..p - 1 : TooSmall(Gap(k))
      OBVIOUS
    <3>1. CASE first = NULL
      BY <1>1, <2>1, <2>5, <3>1, ScanStarts
    <3>2. CASE first # NULL
      BY <1>1, <1>2, <2>4, <2>5, <3>2
    <3> QED
      BY <3>1, <3>2
  <2> QED
    BY <2>1, <2>4, <2>6
<1> QED
  BY <1>3, <1>4

-----------------------------------------------------------------------------
(* Allocation                                                              *)

(* Up(Hdr) is where the bytes of a block at the start of the buffer begin. *)
LEMMA FirstData ==
  Data(0) = Up(Hdr) /\ Up(Hdr) \in Int /\ Aligned(Up(Hdr)) /\ 0 < Up(Hdr) /\ Aligned(0)
<1>1. 0 + Hdr = Hdr /\ Hdr \in Int /\ 0 < Hdr
  BY SizeAssumption
<1>2. Up(Hdr) \in Int /\ Aligned(Up(Hdr)) /\ Hdr <= Up(Hdr)
  BY <1>1, UpRounds
<1>3. Aligned(0)
  <2>1. 0 = 0 * Align /\ 0 \in Int
    BY SizeAssumption
  <2> QED
    BY <2>1 DEF Aligned
<1> QED
  BY <1>1, <1>2, <1>3 DEF Data

(* A request that fits in front of the first block.                        *)
LEMMA HeadFit ==
  ASSUME Pool, NEW size \in Nat, Guard <= size, HeadFits(size)
  PROVE  Fit(0, [at |-> 0, size |-> size])
<1> DEFINE b == [at |-> 0, size |-> size]
<1>1. Len(list) \in Nat /\ 1 \in 1..Len(list) /\ list[1].at \in 0..Size /\ Aligned(list[1].at)
  BY ListFacts DEF HeadFits
<1>2. size <= list[1].at - Up(Hdr)
  BY DEF HeadFits, HeadGap
<1>3. b.at = 0 /\ b.size = size /\ Data(b.at) = Up(Hdr)
  BY FirstData
<1>4. Data(b.at) + b.size <= list[1].at /\ b.size <= Size /\ Data(b.at) + b.size <= Size
  BY <1>1, <1>2, <1>3, FirstData, SizeAssumption
<1>5. b \in Blocks
  BY <1>3, <1>4, SizeAssumption DEF Blocks
<1> HIDE DEF b
<1>6. End(b) \in Int /\ End(b) <= list[1].at
  BY <1>1, <1>4, <1>5, EndFitsBefore, BlockEnds, SizeAssumption
<1>7. \A j \in 1..Len(list) : ~ (j <= 0) /\ End(b) <= list[j].at
  <2>1. \A j \in 1..Len(list) : list[j].at \in Int /\ (j = 1 \/ list[1].at < list[j].at)
    BY <1>1, ListFacts, Ascending, SizeAssumption DEF Pool
  <2> QED
    BY <1>1, <1>6, <2>1, SizeAssumption
<1>8. Fit(0, b)
  BY <1>3, <1>4, <1>5, <1>7, FirstData DEF Fit
<1> QED
  BY <1>8 DEF b

(* A request that fits between two blocks.                                 *)
LEMMA GapFit ==
  ASSUME Pool, NEW size \in Nat, Guard <= size, NEW i \in Fits(size)
  PROVE  /\ list # <<>> /\ i \in 1..Len(list) - 1 /\ ScanFrom <= i
         /\ Fit(i, [at |-> End(list[i]), size |-> size])
<1> DEFINE b == [at |-> End(list[i]), size |-> size]
<1>1. list # <<>> /\ i \in ScanFrom..Len(list) - 1 /\ size <= Gap(i)
  BY DEF Fits
<1>2. Len(list) \in Nat /\ i \in 1..Len(list) - 1 /\ ScanFrom <= i
  BY <1>1, ListFacts, ScanStarts
<1>3. /\ i \in 1..Len(list) /\ i + 1 \in 1..Len(list)
      /\ list[i] \in Blocks /\ list[i].at \in 0..Size /\ list[i].at < End(list[i])
      /\ End(list[i]) \in Int /\ Aligned(End(list[i]))
      /\ list[i + 1].at \in 0..Size /\ Aligned(list[i + 1].at)
  BY <1>2, ListFacts
<1>4. Data(End(list[i])) \in Int /\ End(list[i]) < Data(End(list[i]))
  <2>1. End(list[i]) + Hdr \in Int
    BY <1>3, SizeAssumption
  <2>2. Up(End(list[i]) + Hdr) \in Int /\ End(list[i]) + Hdr <= Up(End(list[i]) + Hdr)
    BY <2>1, UpRounds
  <2> QED
    BY <1>3, <2>2, SizeAssumption DEF Data
<1>5. b.at = End(list[i]) /\ b.size = size
  OBVIOUS
<1>6. Data(b.at) + b.size <= list[i + 1].at
  <2> DEFINE d == Data(End(list[i]))
             e == list[i + 1].at
  <2>1. size <= e - d
    BY <1>1, Zenon DEF Gap, Data
  <2>2. d \in Int /\ e \in Int /\ Data(b.at) = d
    BY <1>3, <1>4, <1>5, SizeAssumption
  <2> HIDE DEF d, e, b
  <2>3. d + size <= e
    BY <2>1, <2>2
  <2> QED
    BY <1>5, <2>2, <2>3 DEF e
<1>7. Data(b.at) + b.size <= Size /\ b.at \in 0..Size /\ b.size \in 0..Size
  BY <1>3, <1>4, <1>5, <1>6, SizeAssumption, SMTT(30)
<1>8. b \in Blocks
  BY <1>5, <1>7 DEF Blocks
<1> HIDE DEF b
<1>9. End(b) \in Int /\ End(b) <= list[i + 1].at
  <2>1. list[i + 1].at \in Int
    BY <1>3, SizeAssumption
  <2> QED
    BY <1>3, <1>6, <1>8, <2>1, EndFitsBefore, BlockEnds
<1>10. \A j \in 1..Len(list) : IF j <= i THEN End(list[j]) <= b.at ELSE End(b) <= list[j].at
  <2> SUFFICES ASSUME NEW j \in 1..Len(list)
               PROVE  IF j <= i THEN End(list[j]) <= b.at ELSE End(b) <= list[j].at
    OBVIOUS
  <2>1. CASE j < i
    <3>1. End(list[j]) <= list[i].at /\ End(list[j]) \in Int
      BY <1>3, <2>1, ListFacts DEF Pool, Apart
    <3> QED
      BY <1>2, <1>3, <1>5, <2>1, <3>1, SizeAssumption, SMTT(30)
  <2>2. CASE j = i
    BY <1>3, <1>5, <2>2
  <2>3. CASE j = i + 1
    BY <1>2, <1>9, <2>3
  <2>4. CASE j > i + 1
    <3>1. list[i + 1].at < list[j].at /\ list[j].at \in Int
      <4>1. Apart(list) /\ i + 1 < j /\ list[j].at \in 0..Size
        BY <1>2, <2>4, ListFacts DEF Pool
      <4>2. list[i + 1].at < list[j].at
        BY <1>3, <4>1, Ascending
      <4> QED
        BY <4>1, <4>2, SizeAssumption
    <3> QED
      <4>1. ~ (j <= i)
        BY <1>2, <2>4
      <4>2. list[i + 1].at \in Int
        BY <1>3, SizeAssumption
      <4>3. End(b) <= list[j].at
        BY <1>9, <3>1, <4>2
      <4> QED
        BY <4>1, <4>3, Zenon
  <2> QED
    BY <1>2, <2>1, <2>2, <2>3, <2>4
<1>11. Fit(i, b)
  BY <1>3, <1>5, <1>7, <1>8, <1>10 DEF Fit
<1> QED
  BY <1>1, <1>2, <1>11 DEF b

(* A request that fits behind the last block.                              *)
LEMMA EndFit ==
  ASSUME Pool, NEW size \in Nat, Guard <= size, EndFits(size)
  PROVE  Fit(Len(list), [at |-> TailEnd, size |-> size])
<1> DEFINE b == [at |-> TailEnd, size |-> size]
<1>1. Len(list) \in Nat
  BY ListFacts
<1>2. /\ TailEnd \in Nat /\ Aligned(TailEnd)
      /\ \A j \in 1..Len(list) : End(list[j]) \in Int /\ End(list[j]) <= TailEnd
  <2>1. CASE list = <<>>
    <3>1. TailEnd = 0 /\ Len(list) = 0
      BY <2>1, ListFacts DEF TailEnd
    <3> QED
      BY <3>1, FirstData
  <2>2. CASE list # <<>>
    <3>1. Len(list) \in 1..Len(list)
      BY <1>1, <2>2, ListFacts
    <3>2. TailEnd = End(list[Len(list)])
      BY <2>2, <3>1, IndexFound DEF TailEnd, Pool
    <3>3. /\ TailEnd \in Int /\ Aligned(TailEnd)
          /\ list[Len(list)].at \in 0..Size /\ list[Len(list)].at < TailEnd
      BY <3>1, <3>2, ListFacts
    <3>4. ASSUME NEW j \in 1..Len(list), j # Len(list)
          PROVE  End(list[j]) <= list[Len(list)].at
      BY <1>1, <3>1, <3>4 DEF Pool, Apart
    <3>5. \A j \in 1..Len(list) : End(list[j]) \in Int
      BY ListFacts
    <3> QED
      BY <3>2, <3>3, <3>4, <3>5, SizeAssumption
  <2> QED
    BY <2>1, <2>2
<1>3. Data(TailEnd) \in Int /\ TailEnd < Data(TailEnd)
  <2>1. TailEnd + Hdr \in Int
    BY <1>2, SizeAssumption
  <2>2. Up(TailEnd + Hdr) \in Int /\ TailEnd + Hdr <= Up(TailEnd + Hdr)
    BY <2>1, UpRounds
  <2> QED
    BY <1>2, <2>2, SizeAssumption DEF Data
<1>4. b.at = TailEnd /\ b.size = size /\ Data(TailEnd) + size <= Size
  BY DEF EndFits
<1>5. b.at \in 0..Size /\ b.size \in 0..Size
  BY <1>2, <1>3, <1>4, SizeAssumption
<1>6. b \in Blocks
  BY <1>4, <1>5 DEF Blocks
<1> HIDE DEF b
<1>7. Fit(Len(list), b)
  BY <1>1, <1>2, <1>4, <1>6 DEF Fit
<1> QED
  BY <1>7 DEF b

(* A block put where it fits: the list stays apart and gains an address.   *)
LEMMA InsertPool ==
  ASSUME Pool, NEW i \in 0..Len(list), NEW b, Fit(i, b), Inserted(list, list', i, b)
  PROVE  /\ Apart(list') /\ list' # <<>>
         /\ b.at \notin Addresses /\ Addresses' = Addresses \cup {b.at}
         /\ list'[Len(list')].at = IF i = Len(list) THEN b.at ELSE list[Len(list)].at
<1>1. Len(list) \in Nat /\ DOMAIN list = 1..Len(list) /\ i \in Nat /\ i <= Len(list)
  BY ListFacts
<1>2. b \in Blocks
  BY DEF Fit
<1>3. Apart(list')
  BY <1>1, <1>2, InsertApart DEF Fit, Pool
<1>4. /\ list' \in Seq(Blocks) /\ Len(list') = Len(list) + 1 /\ DOMAIN list' = 1..Len(list) + 1
      /\ \A k \in 1..Len(list) + 1 :
           list'[k] = IF k <= i THEN list[k] ELSE IF k = i + 1 THEN b ELSE list[k - 1]
  <2>1. list' \in Seq(Blocks) /\ Len(list') = Len(list) + 1
    BY DEF Inserted
  <2>2. DOMAIN list' = 1..Len(list')
    BY <2>1, SeqElements
  <2> QED
    BY <2>1, <2>2 DEF Inserted
<1>5. list' # <<>>
  BY <1>1, <1>4, SeqEmpty
<1>6. b.at \notin Addresses
  <2>1. \A j \in 1..Len(list) : list[j].at # b.at
    <3> SUFFICES ASSUME NEW j \in 1..Len(list), list[j].at = b.at
                 PROVE  FALSE
      OBVIOUS
    <3>1. list[j].at < End(list[j]) /\ End(list[j]) \in Int /\ list[j].at \in Int
      BY ListFacts, SizeAssumption
    <3>2. b.at < Data(b.at) /\ Data(b.at) + b.size <= End(b)
          /\ b.size \in 0..Size /\ b.at \in 0..Size /\ End(b) \in Int /\ Data(b.at) \in Int
      BY <1>2, BlockEnds
    <3>3. b.at < End(b)
      BY <3>2, SizeAssumption
    <3>4. IF j <= i THEN End(list[j]) <= b.at ELSE End(b) <= list[j].at
      BY DEF Fit
    <3> QED
      BY <3>1, <3>2, <3>3, <3>4, SizeAssumption
  <2> QED
    BY <1>1, <2>1 DEF Addresses
<1>7. Addresses' = Addresses \cup {b.at}
  <2>1. ASSUME NEW k \in 1..Len(list) + 1
        PROVE  list'[k].at \in Addresses \cup {b.at}
    <3>1. CASE k <= i
      BY <1>1, <1>4, <3>1 DEF Addresses
    <3>2. CASE k = i + 1
      BY <1>1, <1>4, <3>2
    <3>3. CASE k > i + 1
      <4>1. k - 1 \in DOMAIN list /\ list'[k] = list[k - 1]
        BY <1>1, <1>4, <3>3
      <4> QED
        BY <4>1 DEF Addresses
    <3> QED
      BY <1>1, <3>1, <3>2, <3>3
  <2>2. ASSUME NEW k \in 1..Len(list)
        PROVE  list[k].at \in Addresses'
    <3>1. CASE k <= i
      <4>1. k \in DOMAIN list' /\ list'[k] = list[k]
        BY <1>1, <1>4, <3>1
      <4> QED
        BY <4>1 DEF Addresses
    <3>2. CASE k > i
      <4>1. k + 1 \in DOMAIN list' /\ list'[k + 1] = list[k]
        BY <1>1, <1>4, <3>2
      <4> QED
        BY <4>1 DEF Addresses
    <3> QED
      BY <1>1, <3>1, <3>2
  <2>3. b.at \in Addresses'
    <3>1. i + 1 \in DOMAIN list' /\ list'[i + 1] = b
      BY <1>1, <1>4
    <3> QED
      BY <3>1 DEF Addresses
  <2>4. Addresses' \subseteq Addresses \cup {b.at}
    BY <1>4, <2>1 DEF Addresses
  <2>5. Addresses \subseteq Addresses'
    BY <1>1, <2>2 DEF Addresses
  <2> QED
    BY <2>3, <2>4, <2>5
<1>8. list'[Len(list')].at = IF i = Len(list) THEN b.at ELSE list[Len(list)].at
  <2> DEFINE n == Len(list)
  <2>1. n \in Nat /\ i <= n /\ i \in Nat /\ Len(list') = n + 1 /\ n + 1 \in 1..n + 1
    BY <1>1, <1>4
  <2>2. list'[n + 1] = IF n + 1 <= i THEN list[n + 1] ELSE IF n + 1 = i + 1 THEN b ELSE list[(n + 1) - 1]
    BY <1>4, <2>1
  <2> HIDE DEF n
  <2>3. ~ (n + 1 <= i) /\ (n + 1 = i + 1 <=> i = n) /\ (n + 1) - 1 = n
    BY <2>1
  <2>4. list'[n + 1] = IF i = n THEN b ELSE list[n]
    BY <2>2, <2>3
  <2> QED
    BY <2>1, <2>4 DEF n
<1> QED
  BY <1>3, <1>5, <1>6, <1>7, <1>8

-----------------------------------------------------------------------------
(* Allocation                                                              *)

(* An allocation that finds room keeps the pool in order, and the new node *)
(* is at an address no block had.                                          *)
LEMMA AllocPool ==
  ASSUME Pool, NEW n \in Requests, AllocSome(n + Guard)
  PROVE  /\ Pool' /\ NewAt(n + Guard) \in Int /\ NewAt(n + Guard) # NULL
         /\ NewAt(n + Guard) \notin Addresses
         /\ Addresses' = Addresses \cup {NewAt(n + Guard)}
<1> DEFINE size == n + Guard
           b == [at |-> NewAt(size), size |-> size]
<1>1. size \in Nat /\ Guard <= size /\ size \in Int
  BY SizeAssumption, GuardAssumption
<1>2. Len(list) \in Nat
  BY ListFacts
<1>3. b.at = NewAt(size) /\ b.size = size
  OBVIOUS
<1>4. /\ maxpos' = IF maxpos < Data(b.at) + size THEN Data(b.at) + size ELSE maxpos
      /\ alloc_size' = alloc_size + size + Hdr
      /\ alarm' = alarm /\ shrunk' = shrunk
  BY DEF AllocSome
<1> HIDE DEF size
<1>5. ASSUME NEW i \in 0..Len(list), Fit(i, b), Inserted(list, list', i, b),
             first' \in Addresses \cup {NULL, b.at},
             tail' = IF i = Len(list) THEN b.at ELSE tail,
             shrunk = "no" => Hint(list', first')
      PROVE  /\ Pool' /\ NewAt(size) \in Int /\ NewAt(size) # NULL
             /\ NewAt(size) \notin Addresses
             /\ Addresses' = Addresses \cup {NewAt(size)}
  <2> HIDE DEF b
  <2>1. /\ Apart(list') /\ list' # <<>>
        /\ b.at \notin Addresses /\ Addresses' = Addresses \cup {b.at}
        /\ list'[Len(list')].at = IF i = Len(list) THEN b.at ELSE list[Len(list)].at
    BY <1>5, InsertPool
  <2>2. /\ b.at \in 0..Size /\ b.size \in 0..Size /\ Data(b.at) \in Int /\ b.at < Data(b.at)
        /\ Data(b.at) + b.size <= Size
    BY <1>5, BlockEnds DEF Fit
  <2>3. maxpos' \in 0..Size /\ alloc_size' \in Int
    BY <1>1, <1>3, <1>4, <2>2, SizeAssumption DEF Pool
  <2>4. tail' = list'[Len(list')].at
    <3>1. CASE i = Len(list)
      BY <1>5, <2>1, <3>1
    <3>2. CASE i # Len(list)
      <4>1. Len(list) # 0
        BY <1>2, <1>5, <3>2
      <4>2. list # <<>>
        BY <4>1, ListFacts, Zenon
      <4> QED
        BY <1>5, <2>1, <3>2, <4>2 DEF Pool
    <3> QED
      BY <3>1, <3>2
  <2>5. first' \in Addresses' \cup {NULL}
    BY <1>5, <2>1
  <2>6. alarm' \in {"none", "raised"}
    BY <1>4 DEF Pool
  <2>7. (shrunk = "no" => Hint(list, first))'
    BY <1>4, <1>5
  <2>8. Pool'
    BY <2>1, <2>3, <2>4, <2>5, <2>6, <2>7, Zenon DEF Pool
  <2>9. b.at \in Int /\ b.at # NULL
    BY <2>2, SizeAssumption DEF NULL
  <2> QED
    BY <1>3, <2>1, <2>8, <2>9
<1>6. CASE /\ HeadFits(size) /\ list' = <<b>> \o list /\ first' = b.at /\ tail' = tail
  <2>1. NewAt(size) = 0 /\ b = [at |-> 0, size |-> size]
    BY <1>6 DEF NewAt
  <2>2. Fit(0, b)
    BY <1>1, <1>6, <2>1, HeadFit
  <2>3. b.at = 0
    BY <2>1
  <2> HIDE DEF b
  <2>4. Inserted(list, list', 0, b) /\ list # <<>> /\ 0 \in 0..Len(list) /\ 0 # Len(list)
    BY <1>2, <1>6, <2>2, HeadInserts, ListFacts DEF Fit, Pool, Apart, HeadFits
  <2>5. list'[1] = b /\ Apart(list')
    BY <1>2, <2>2, <2>4, InsertPool DEF Inserted
  <2>6. Hint(list', first')
    <3>1. TooSmall(list'[1].at - Up(Hdr))
      BY <2>3, <2>5, FirstData, SizeAssumption, GuardAssumption DEF TooSmall
    <3>2. ASSUME NEW k \in 1..Len(list') - 1
          PROVE  ~ (list'[k].at < first')
      <4>1. list'[k].at \in 0..Size
        BY <2>5, <3>2, Ascending, BlockEnds, SeqElements DEF Apart
      <4> QED
        BY <1>6, <2>3, <4>1, SizeAssumption
    <3> QED
      BY <3>1, <3>2 DEF Hint
  <2>7. tail' = IF 0 = Len(list) THEN b.at ELSE tail
    BY <1>6, <2>4
  <2> QED
    BY <1>5, <1>6, <2>2, <2>4, <2>6, <2>7, Zenon DEF size
<1>7. CASE /\ ~ HeadFits(size) /\ Fits(size) # {}
           /\ list' = InsertAfter(Least(Fits(size)), b)
           /\ first' = FirstAfter(Least(Fits(size))) /\ tail' = tail
  <2> DEFINE i == Least(Fits(size))
  <2>1. Fits(size) \in SUBSET Nat
    BY <1>2, ScanStarts DEF Fits
  <2>2. i \in Fits(size)
    BY <1>7, <2>1, LeastIn
  <2>3. NewAt(size) = End(list[i]) /\ b = [at |-> End(list[i]), size |-> size]
    BY <1>7 DEF NewAt
  <2>4. list # <<>> /\ i \in 1..Len(list) - 1 /\ ScanFrom <= i /\ Fit(i, b)
    BY <1>1, <2>2, <2>3, GapFit
  <2>5. list' = InsertAfter(i, b) /\ first' = FirstAfter(i)
    BY <1>7
  <2> HIDE DEF i, b
  <2>6. Inserted(list, list', i, b) /\ i \in 0..Len(list) /\ i # Len(list) /\ i \in 1..Len(list)
    BY <1>2, <2>4, <2>5, InsertAfterInserts DEF Fit, Pool, Apart, InsertAfter
  <2>7. ASSUME first' # NULL
        PROVE  first' \in Addresses /\ (shrunk = "no" => Hint(list', first'))
    <3>1. i \in 0..Len(list) - 1
      BY <1>2, <2>4
    <3>2. PICK p \in 1..Len(list) :
            /\ FirstAfter(i) = list[p].at /\ p <= i
            /\ shrunk = "no" => TooSmall(HeadGap) /\ \A k \in 1..p - 1 : TooSmall(Gap(k))
      BY <2>4, <2>5, <2>7, <3>1, FirstAfterPlace
    <3>3. first' \in Addresses
      BY <2>5, <3>2, IndexFound
    <3>4. ASSUME shrunk = "no"
          PROVE  Hint(list', list[p].at)
      <4>1. Apart(list') /\ Apart(list) /\ b \in Blocks /\ i \in Nat /\ i <= Len(list) /\ p \in 1..i
        <5>1. Apart(list')
          BY <2>4, <2>6, InsertPool
        <5>2. Apart(list) /\ b \in Blocks
          BY <2>4 DEF Pool, Fit
        <5> QED
          BY <1>2, <2>6, <3>2, <5>1, <5>2
      <4> QED
        BY <2>6, <3>2, <3>4, <4>1, HintInsert DEF HeadGap, Gap
    <3> QED
      BY <2>5, <3>2, <3>3, <3>4
  <2>8. first' = NULL => Hint(list', first')
    BY DEF Hint
  <2>9. tail' = IF i = Len(list) THEN b.at ELSE tail
    BY <1>7, <2>6
  <2>10. first' \in Addresses \cup {NULL, b.at} /\ (shrunk = "no" => Hint(list', first'))
    BY <2>7, <2>8
  <2> QED
    BY <1>5, <2>4, <2>6, <2>9, <2>10, Zenon DEF size
<1>8. CASE /\ NothingFits(size) /\ EndFits(size) /\ list' = Append(list, b)
           /\ first' = FirstAfterScan /\ tail' = b.at
  <2>1. NewAt(size) = TailEnd /\ b = [at |-> TailEnd, size |-> size]
    BY <1>8 DEF NewAt, NothingFits
  <2>2. Fit(Len(list), b)
    BY <1>1, <1>8, <2>1, EndFit
  <2> HIDE DEF b
  <2>3. Inserted(list, list', Len(list), b) /\ Len(list) \in 0..Len(list)
    BY <1>2, <1>8, <2>2, AppendInserts DEF Fit, Pool, Apart
  <2>4. ASSUME first' # NULL
        PROVE  first' \in Addresses /\ (shrunk = "no" => Hint(list', first'))
    <3>1. list # <<>>
      <4> SUFFICES ASSUME list = <<>>
                   PROVE  FALSE
        OBVIOUS
      <4>1. first' = first /\ Len(list) = 0
        BY <1>8, ListFacts DEF FirstAfterScan
      <4>2. first \notin Addresses
        BY <4>1, ListFacts DEF Addresses
      <4> QED
        BY <2>4, <4>1, <4>2 DEF Pool
    <3>2. first' = FirstAfter(Len(list) - 1) /\ Len(list) - 1 \in 0..Len(list) - 1
      BY <1>2, <1>8, <3>1, ListFacts DEF FirstAfterScan
    <3>3. PICK p \in 1..Len(list) :
            /\ FirstAfter(Len(list) - 1) = list[p].at
            /\ shrunk = "no" => TooSmall(HeadGap) /\ \A k \in 1..p - 1 : TooSmall(Gap(k))
      BY <2>4, <3>1, <3>2, FirstAfterPlace
    <3>4. first' \in Addresses
      BY <3>2, <3>3, IndexFound
    <3>5. ASSUME shrunk = "no"
          PROVE  Hint(list', list[p].at)
      <4>1. Apart(list') /\ Apart(list) /\ b \in Blocks /\ Len(list) \in Nat /\ Len(list) <= Len(list)
        BY <1>2, <2>2, <2>3, InsertPool DEF Pool, Fit
      <4> QED
        BY <2>3, <3>3, <3>5, <4>1, HintInsert, Zenon DEF HeadGap, Gap
    <3> QED
      BY <3>2, <3>3, <3>4, <3>5
  <2>5. first' = NULL => Hint(list', first')
    BY DEF Hint
  <2>6. tail' = IF Len(list) = Len(list) THEN b.at ELSE tail
    BY <1>8
  <2>7. first' \in Addresses \cup {NULL, b.at} /\ (shrunk = "no" => Hint(list', first'))
    BY <2>4, <2>5
  <2> QED
    BY <1>5, <2>2, <2>3, <2>6, <2>7, Zenon DEF size
<1>9. \/ /\ HeadFits(size) /\ list' = <<b>> \o list /\ first' = b.at /\ tail' = tail
      \/ /\ ~ HeadFits(size) /\ Fits(size) # {}
         /\ list' = InsertAfter(Least(Fits(size)), b)
         /\ first' = FirstAfter(Least(Fits(size))) /\ tail' = tail
      \/ /\ NothingFits(size) /\ EndFits(size) /\ list' = Append(list, b)
         /\ first' = FirstAfterScan /\ tail' = b.at
  BY Zenon DEF AllocSome, size
<1> QED
  BY <1>6, <1>7, <1>8, <1>9, Zenon DEF size

(* An allocation that finds no room moves only the hint.                   *)
LEMMA NonePool ==
  ASSUME Pool, NEW size, AllocNone(size)
  PROVE  Pool' /\ Addresses' = Addresses
<1>1. /\ list' = list /\ tail' = tail /\ alloc_size' = alloc_size /\ maxpos' = maxpos
      /\ shrunk' = shrunk /\ first' = FirstAfterScan /\ alarm' \in {"none", "raised"}
  BY DEF AllocNone, Pool
<1>2. Addresses' = Addresses
  BY <1>1 DEF Addresses
<1>3. first' \in Addresses \cup {NULL} /\ (shrunk = "no" => Hint(list, first'))
  <2>1. CASE list = <<>>
    BY <1>1, <2>1 DEF FirstAfterScan, Pool
  <2>2. CASE first' = NULL
    BY <2>2 DEF Hint
  <2>3. CASE list # <<>> /\ first' # NULL
    <3>1. Len(list) \in Nat /\ Len(list) # 0
      BY <2>3, ListFacts
    <3>2. first' = FirstAfter(Len(list) - 1) /\ Len(list) - 1 \in 0..Len(list) - 1
      BY <1>1, <2>3, <3>1 DEF FirstAfterScan
    <3>3. PICK p \in 1..Len(list) :
            /\ first' = list[p].at
            /\ shrunk = "no" => TooSmall(HeadGap) /\ \A k \in 1..p - 1 : TooSmall(Gap(k))
      BY <2>3, <3>2, FirstAfterPlace
    <3>4. \A k \in 1..Len(list) - 1 : list[k].at < list[p].at => k \in 1..p - 1
      BY <3>1, Ascending DEF Pool
    <3>5. list[p].at \in Addresses
      BY IndexFound
    <3> QED
      BY <3>3, <3>4, <3>5 DEF Hint, HeadGap, Gap
  <2> QED
    BY <2>1, <2>2, <2>3
<1>4. Pool'
  BY <1>1, <1>2, <1>3, Zenon DEF Pool
<1> QED
  BY <1>2, <1>4

-----------------------------------------------------------------------------
(* Giving back and resizing                                                *)

(* sw_mem_free keeps the pool in order and takes one address off the list. *)
LEMMA ReleasePool ==
  ASSUME Pool, NEW at \in Addresses, Release(at)
  PROVE  Pool' /\ Addresses' = Addresses \ {at}
<1> DEFINE i == IndexOf(at)
<1>1. i \in 1..Len(list) /\ list[i].at = at /\ Len(list) \in Nat /\ DOMAIN list = 1..Len(list)
  BY IndexFound, ListFacts
<1>2. /\ list' = RemoveNode(i) /\ maxpos' = maxpos /\ alarm' = alarm /\ shrunk' = shrunk
      /\ alloc_size' = alloc_size - (list[i].size + Hdr)
      /\ first' = IF first >= at THEN PrevOf(at) ELSE first
      /\ tail' = IF tail = at THEN PrevOf(at) ELSE tail
  BY DEF Release, FirstAfterFree
<1>3. PrevOf(at) = IF i = 1 THEN NULL ELSE list[i - 1].at
  BY DEF PrevOf
<1> HIDE DEF i
<1>4. Removed(list, list', i) /\ Apart(list') /\ Apart(list) /\ list \in Seq(Blocks)
  BY <1>1, <1>2, RemoveNodeRemoves, RemoveApart, Zenon DEF Pool, Apart, RemoveNode
<1>5. /\ Len(list') = Len(list) - 1 /\ DOMAIN list' = 1..Len(list) - 1
      /\ \A k \in 1..Len(list) - 1 : list'[k] = IF k < i THEN list[k] ELSE list[k + 1]
  <2>1. list' \in Seq(Blocks) /\ Len(list') = Len(list) - 1
    BY <1>4 DEF Removed
  <2>2. DOMAIN list' = 1..Len(list')
    BY <2>1, SeqElements
  <2> QED
    BY <1>4, <2>1, <2>2 DEF Removed
<1>6. Addresses' = Addresses \ {at}
  <2>1. \A k \in 1..Len(list) : list[k].at = at => k = i
    BY <1>1, <1>4, Ascending
  <2>2. ASSUME NEW k \in 1..Len(list) - 1
        PROVE  list'[k].at \in Addresses \ {at}
    <3>1. CASE k < i
      <4>1. k \in DOMAIN list /\ list'[k] = list[k] /\ k # i
        BY <1>1, <1>5, <3>1
      <4> QED
        BY <1>1, <2>1, <4>1 DEF Addresses
    <3>2. CASE ~ (k < i)
      <4>1. k + 1 \in DOMAIN list /\ list'[k] = list[k + 1] /\ k + 1 # i
        BY <1>1, <1>5, <3>2
      <4> QED
        BY <1>1, <2>1, <4>1 DEF Addresses
    <3> QED
      BY <3>1, <3>2
  <2>3. ASSUME NEW k \in 1..Len(list), k # i
        PROVE  list[k].at \in Addresses'
    <3>1. CASE k < i
      <4>1. k \in DOMAIN list' /\ list'[k] = list[k]
        BY <1>1, <1>5, <3>1
      <4> QED
        BY <4>1 DEF Addresses
    <3>2. CASE k > i
      <4>1. k - 1 \in DOMAIN list' /\ list'[k - 1] = list[k]
        BY <1>1, <1>5, <3>2
      <4> QED
        BY <4>1 DEF Addresses
    <3> QED
      BY <1>1, <2>3, <3>1, <3>2
  <2>4. Addresses' \subseteq Addresses \ {at}
    BY <1>5, <2>2 DEF Addresses
  <2>5. Addresses \ {at} \subseteq Addresses'
    BY <1>1, <2>3 DEF Addresses
  <2> QED
    BY <2>4, <2>5
<1>7. PrevOf(at) \in Addresses' \cup {NULL}
  <2>1. CASE i = 1
    BY <1>3, <2>1
  <2>2. CASE i # 1
    <3>1. i - 1 \in 1..Len(list) - 1 /\ list'[i - 1] = list[i - 1]
      BY <1>1, <1>5, <2>2
    <3> QED
      BY <1>3, <1>5, <2>2, <3>1 DEF Addresses
  <2> QED
    BY <2>1, <2>2
<1>8. at \in Int /\ at >= 0 /\ NULL # at
  BY <1>1, ListFacts, SizeAssumption DEF NULL
<1>9. first' \in Addresses' \cup {NULL}
  <2>1. CASE first >= at
    BY <1>2, <1>7, <2>1
  <2>2. CASE ~ (first >= at)
    <3>1. first # at
      BY <1>8, <2>2
    <3> QED
      BY <1>2, <1>6, <2>2, <3>1 DEF Pool
  <2> QED
    BY <2>1, <2>2
<1>10. tail' = IF list' = <<>> THEN NULL ELSE list'[Len(list')].at
  <2>1. list # <<>> /\ tail = list[Len(list)].at /\ (list' = <<>> <=> Len(list') = 0)
    BY <1>1, <1>4, ListFacts, SeqEmpty, SMTT(30) DEF Pool, Removed
  <2>2. CASE i = Len(list)
    <3>1. tail' = PrevOf(at)
      BY <1>1, <1>2, <2>1, <2>2
    <3>2. CASE i = 1
      BY <1>3, <1>5, <2>1, <2>2, <3>1, <3>2
    <3>3. CASE i # 1
      <4>1. Len(list') = i - 1 /\ i - 1 \in 1..Len(list) - 1 /\ i - 1 < i /\ Len(list') # 0
        BY <1>1, <1>5, <2>2, <3>3
      <4>2. list'[Len(list')] = list[i - 1]
        BY <1>5, <4>1
      <4> QED
        BY <1>3, <2>1, <3>1, <3>3, <4>1, <4>2
    <3> QED
      BY <3>2, <3>3
  <2>3. CASE i # Len(list)
    <3> DEFINE n == Len(list)
    <3>1. n \in Nat /\ i \in 1..n /\ i # n
      BY <1>1, <2>3, Zenon
    <3>2. \A k \in 1..n : list[k].at = at => k = i
      BY <1>1, <1>4, Ascending
    <3>3. Len(list') = n - 1 /\ \A k \in 1..n - 1 : list'[k] = IF k < i THEN list[k] ELSE list[k + 1]
      BY <1>5
    <3>4. tail = list[n].at
      BY <2>1
    <3> HIDE DEF n
    <3>5. n \in 1..n /\ n - 1 \in 1..n - 1 /\ ~ (n - 1 < i) /\ (n - 1) + 1 = n /\ n - 1 # 0
      BY <3>1
    <3>6. tail' = list[n].at
      BY <1>2, <3>1, <3>2, <3>4, <3>5
    <3>7. list'[n - 1] = list[n]
      BY <3>3, <3>5
    <3> QED
      BY <2>1, <3>3, <3>5, <3>6, <3>7
  <2> QED
    BY <2>2, <2>3
<1>11. (shrunk = "no" => Hint(list, first))'
  <2> SUFFICES ASSUME shrunk = "no"
               PROVE  Hint(list', first')
    BY <1>2
  <2>1. first = NULL \/ \E p \in 1..Len(list) : first = list[p].at
    BY <1>1 DEF Pool, Addresses
  <2>2. Hint(list', IF first >= list[i].at THEN IF i = 1 THEN NULL ELSE list[i - 1].at ELSE first)
    BY <1>1, <1>4, <2>1, HintRemove DEF Pool
  <2> QED
    BY <1>1, <1>2, <1>3, <2>2
<1>12. alloc_size' \in Int
  BY <1>1, <1>2, ListFacts, BlockEnds, SizeAssumption DEF Pool
<1>13. maxpos' \in 0..Size /\ alarm' \in {"none", "raised"}
  BY <1>2 DEF Pool
<1>14. Pool'
  BY <1>4, <1>9, <1>10, <1>11, <1>12, <1>13, Zenon DEF Pool
<1> QED
  BY <1>6, <1>14

(* A resize in place keeps the pool in order and every block where it is.  *)
LEMMA ResizePool ==
  ASSUME Pool, NEW at \in Addresses, NEW n \in Requests,
         InPlace(IndexOf(at), n + Guard), Resized(IndexOf(at), n + Guard),
         shrunk' = IF n + Guard < list[IndexOf(at)].size THEN "yes" ELSE shrunk,
         UNCHANGED <<first, tail, maxpos, alarm>>
  PROVE  Pool' /\ Addresses' = Addresses
<1> DEFINE i == IndexOf(at)
           size == n + Guard
<1>1. i \in 1..Len(list) /\ list[i].at = at /\ Len(list) \in Nat /\ DOMAIN list = 1..Len(list)
  BY IndexFound, ListFacts
<1>2. size \in Nat /\ Guard <= size
  BY SizeAssumption, GuardAssumption
<1>3. /\ list' = [list EXCEPT ![i].size = size]
      /\ alloc_size' = alloc_size - list[i].size + size
      /\ shrunk' = IF size < list[i].size THEN "yes" ELSE shrunk
      /\ \/ size <= list[i].size
         \/ Data(list[i].at) + size <= IF i < Len(list) THEN list[i + 1].at ELSE Size
  BY DEF Resized, InPlace
<1> HIDE DEF i, size
<1>4. /\ list[i] \in Blocks /\ list[i].at \in 0..Size /\ list[i].size \in 0..Size
      /\ Data(list[i].at) \in Int /\ list[i].at < Data(list[i].at)
      /\ Data(list[i].at) + list[i].size <= Size
      /\ End(list[i]) \in Int /\ Data(list[i].at) + list[i].size <= End(list[i])
  <2>1. list[i] \in Blocks
    BY <1>1, ListFacts, Zenon
  <2>2. Data(list[i].at) + list[i].size <= Size
    BY <1>1, Zenon DEF Pool, Apart
  <2> QED
    BY <2>1, <2>2, BlockEnds, Zenon
<1>5. ASSUME NEW j \in 1..Len(list), i < j
      PROVE  Data(list[i].at) + size <= list[j].at
  <2>1. End(list[i]) <= list[j].at /\ list[j].at \in 0..Size
    BY <1>1, <1>5, ListFacts, SMTT(30) DEF Pool, Apart
  <2>2. CASE size <= list[i].size
    <3> DEFINE d == Data(list[i].at)
               w == list[i].size
               e == End(list[i])
               f == list[j].at
    <3>1. /\ d \in Int /\ w \in Int /\ e \in Int /\ f \in Int /\ size \in Int
          /\ size <= w /\ d + w <= e /\ e <= f
      BY <1>2, <1>4, <2>1, <2>2, SizeAssumption, SMTT(30)
    <3> HIDE DEF d, w, e, f
    <3>2. d + size <= f
      BY <3>1
    <3> QED
      BY <3>2 DEF d, f
  <2>3. CASE Data(list[i].at) + size <= IF i < Len(list) THEN list[i + 1].at ELSE Size
    <3>1. i < Len(list) /\ i + 1 \in 1..Len(list) /\ i + 1 <= j
      BY <1>1, <1>5
    <3>2. list[i + 1].at \in 0..Size /\ list[i + 1].at <= list[j].at
      <4>1. CASE i + 1 = j
        BY <2>1, <4>1, SMTT(30)
      <4>2. CASE i + 1 < j
        <5>1. Apart(list) /\ list[i + 1].at \in 0..Size
          BY <3>1, ListFacts, Zenon DEF Pool
        <5>2. list[i + 1].at < list[j].at
          BY <1>5, <3>1, <4>2, <5>1, Ascending, Zenon
        <5> QED
          BY <2>1, <5>1, <5>2, SizeAssumption, SMTT(30)
      <4> QED
        BY <1>1, <1>5, <3>1, <4>1, <4>2
    <3>3. Data(list[i].at) + size <= list[i + 1].at
      BY <2>3, <3>1, Zenon
    <3>4. Data(list[i].at) + size \in Int /\ list[j].at \in Int /\ list[i + 1].at \in Int
      <4>1. Data(list[i].at) + size \in Int
        BY <1>2, <1>4, SMTT(30)
      <4>2. list[j].at \in Int /\ list[i + 1].at \in Int
        BY <2>1, <3>2, SizeAssumption, SMTT(30)
      <4> QED
        BY <4>1, <4>2, Zenon
    <3> QED
      BY <3>2, <3>3, <3>4
  <2> QED
    BY <1>3, <2>2, <2>3
<1>6. Data(list[i].at) + size <= Size /\ size \in 0..Size
  <2>1. Data(list[i].at) + size <= Size
    <3>1. CASE size <= list[i].size
      BY <1>2, <1>4, <3>1, SizeAssumption
    <3>2. CASE Data(list[i].at) + size <= IF i < Len(list) THEN list[i + 1].at ELSE Size
      <4>1. CASE i < Len(list)
        <5>1. list[i + 1].at \in 0..Size
          BY <1>1, <4>1, ListFacts
        <5> QED
          BY <1>2, <1>4, <3>2, <4>1, <5>1, SizeAssumption
      <4>2. CASE ~ (i < Len(list))
        BY <3>2, <4>2
      <4> QED
        BY <4>1, <4>2
    <3> QED
      BY <1>3, <3>1, <3>2
  <2> QED
    BY <1>2, <1>4, <2>1, SizeAssumption
<1>7. Apart(list') /\ Len(list') = Len(list) /\ \A k \in 1..Len(list) : list'[k].at = list[k].at
  <2> DEFINE b == [list[i] EXCEPT !.size = size]
  <2>1. b \in Blocks /\ b.at = list[i].at /\ b.size = size
    BY <1>4, <1>6, Zenon DEF Blocks
  <2>2. list' = [list EXCEPT ![i] = b]
    BY <1>3
  <2> HIDE DEF b
  <2>3. Guard <= b.size /\ Data(b.at) + b.size <= Size
    BY <1>2, <1>6, <2>1
  <2>4. Apart(list) /\ \A j \in 1..Len(list) : i < j => Data(b.at) + b.size <= list[j].at
    BY <1>5, <2>1 DEF Pool
  <2>5. Replaced(list, list', i, b)
    BY <1>1, <2>1, <2>2, ListFacts, SeqExcept, SMTT(30) DEF Replaced
  <2> QED
    BY <1>1, <2>1, <2>3, <2>4, <2>5, ResizeApart
<1>8. DOMAIN list' = 1..Len(list) /\ list' # <<>> /\ list # <<>>
  <2>1. list' \in Seq(Blocks)
    BY <1>7 DEF Apart
  <2>2. DOMAIN list' = 1..Len(list)
    BY <1>7, <2>1, SeqElements
  <2>3. Len(list) # 0 /\ Len(list') # 0
    BY <1>1, <1>7
  <2> QED
    BY <2>1, <2>2, <2>3, SeqEmpty, ListFacts, SMTT(30)
<1>9. Addresses' = Addresses
  BY <1>1, <1>7, <1>8, SMTT(30) DEF Addresses
<1>10. tail' = list'[Len(list')].at
  <2>1. tail' = list[Len(list)].at
    BY <1>8 DEF Pool
  <2>2. Len(list) \in 1..Len(list)
    BY <1>1
  <2> QED
    BY <1>7, <2>1, <2>2
<1>11. (shrunk = "no" => Hint(list, first))'
  <2> SUFFICES ASSUME shrunk' = "no"
               PROVE  Hint(list', first')
    OBVIOUS
  <2>1. shrunk = "no" /\ list[i].size <= size
    BY <1>2, <1>3, <1>4, SMTT(30)
  <2>2. ASSUME NEW k \in 1..Len(list)
        PROVE  list'[k].at = list[k].at /\ list[k].size <= list'[k].size
    <3>1. CASE k = i
      <4>1. list'[i] = [list[i] EXCEPT !.size = size]
        BY <1>1, <1>3
      <4>2. list'[i].size = size
        BY <1>4, <4>1 DEF Blocks
      <4> QED
        BY <1>7, <2>1, <3>1, <4>2
    <3>2. CASE k # i
      <4>1. list'[k] = list[k] /\ list[k].size \in 0..Size
        BY <1>1, <1>3, <3>2, ListFacts, BlockEnds, SMTT(30)
      <4> QED
        BY <4>1, SizeAssumption
    <3> QED
      BY <3>1, <3>2, SMTT(30)
  <2>3. Len(list) # 0 /\ Hint(list, first) /\ Apart(list)
    BY <1>1, <2>1 DEF Pool
  <2> QED
    BY <1>7, <2>2, <2>3, HintResize, SMTT(30)
<1>12. alloc_size' \in Int
  BY <1>2, <1>3, <1>4, SizeAssumption, SMTT(30) DEF Pool
<1>13. first' \in Addresses' \cup {NULL} /\ maxpos' \in 0..Size /\ alarm' \in {"none", "raised"}
  BY <1>9 DEF Pool
<1>14. Pool'
  BY <1>7, <1>8, <1>10, <1>11, <1>12, <1>13, Zenon DEF Pool
<1> QED
  BY <1>9, <1>14

-----------------------------------------------------------------------------
(* What the threads work on                                                *)

Todos == {"none", "guard", "alloc", "move", "free"}
JobRecords == [todo : Todos, at : Int, new : Int, size : Nat]

(* The job j is about blocks at the addresses A, where its step needs any. *)
Sound(j, A) ==
  /\ j.at \in IF j.todo \in {"alloc", "move", "free"} THEN A ELSE {NULL}
  /\ j.new \in IF j.todo \in {"guard", "move", "free"} THEN A ELSE {NULL}
  /\ j.todo \in {"alloc", "move"} => j.size \in Requests

(* No block is in the hands of two jobs.                                   *)
Disjoint(i, j) == {i.at, i.new} \cap {j.at, j.new} \subseteq {NULL}

Jobs ==
  /\ job \in [Thread -> JobRecords]
  /\ \A t \in Thread : Sound(job[t], Addresses)
  /\ \A t, u \in Thread : t # u => Disjoint(job[t], job[u])

(* The inductive invariant.                                                *)
IInv == Pool /\ Jobs

(* A thread that takes up the job r on blocks nobody else works on.        *)
LEMMA TakesUp ==
  ASSUME Jobs, NEW t \in Thread, NEW r \in JobRecords, job' = [job EXCEPT ![t] = r],
         Sound(r, Addresses'),
         \A u \in Thread : u # t => Sound(job[u], Addresses') /\ Disjoint(r, job[u])
  PROVE  Jobs'
<1>1. job \in [Thread -> JobRecords]
  BY DEF Jobs
<1>2. job' \in [Thread -> JobRecords] /\ job'[t] = r
  BY <1>1
<1>3. \A u \in Thread : u # t => job'[u] = job[u]
  BY <1>1
<1>4. \A u \in Thread : Sound(job'[u], Addresses')
  BY <1>2, <1>3
<1>5. ASSUME NEW u \in Thread, NEW v \in Thread, u # v
      PROVE  Disjoint(job'[u], job'[v])
  <2>1. CASE u = t
    BY <1>2, <1>3, <1>5, <2>1
  <2>2. CASE v = t
    <3>1. Disjoint(r, job[u]) /\ job'[u] = job[u] /\ job'[v] = r
      BY <1>2, <1>3, <1>5, <2>2
    <3> QED
      BY <3>1 DEF Disjoint
  <2>3. CASE u # t /\ v # t
    BY <1>3, <1>5, <2>3 DEF Jobs
  <2> QED
    BY <2>1, <2>2, <2>3
<1> QED
  BY <1>2, <1>4, <1>5 DEF Jobs

(* More blocks on the list, or one fewer that the job is not about.        *)
LEMMA SoundStays ==
  ASSUME NEW j, NEW A, NEW B, Sound(j, A),
         \/ A \subseteq B
         \/ \E at : at \notin {j.at, j.new} /\ B = A \ {at}
  PROVE  Sound(j, B)
BY DEF Sound

(* Where the addresses in a job come from.                                 *)
LEMMA SoundHolds ==
  ASSUME NEW j, NEW A, Sound(j, A)
  PROVE  {j.at, j.new} \subseteq A \cup {NULL}
BY DEF Sound

(* An idle thread has no block in its hands.                               *)
LEMMA IdleJob ==
  /\ NoJob \in JobRecords /\ NoJob.todo = "none" /\ NoJob.at = NULL /\ NoJob.new = NULL
  /\ \A A : Sound(NoJob, A)
  /\ \A j : Disjoint(NoJob, j)
<1>1. NULL \in Int
  BY DEF NULL
<1>2. NoJob \in JobRecords /\ NoJob.todo = "none" /\ NoJob.at = NULL /\ NoJob.new = NULL
  BY <1>1 DEF NoJob, JobRecords, Todos
<1> HIDE DEF NoJob
<1> QED
  BY <1>2 DEF Sound, Disjoint

(* The job j with another todo and another new.                            *)
Turned(j, a, b) == [[j EXCEPT !.todo = a] EXCEPT !.new = b]

(* It keeps the rest of the record.                                        *)
LEMMA TurnedJob ==
  ASSUME NEW j \in JobRecords, NEW a \in Todos, NEW b \in Int
  PROVE  /\ Turned(j, a, b) \in JobRecords
         /\ Turned(j, a, b).todo = a /\ Turned(j, a, b).new = b
         /\ Turned(j, a, b).at = j.at /\ Turned(j, a, b).size = j.size
<1> DEFINE s == [j EXCEPT !.todo = a]
<1>1. s \in JobRecords /\ s.todo = a /\ s.at = j.at /\ s.size = j.size
  BY Zenon DEF JobRecords
<1>2. Turned(j, a, b) = [s EXCEPT !.new = b]
  BY Zenon DEF Turned
<1> HIDE DEF s
<1>3. /\ [s EXCEPT !.new = b] \in JobRecords /\ [s EXCEPT !.new = b].todo = s.todo
      /\ [s EXCEPT !.new = b].at = s.at /\ [s EXCEPT !.new = b].new = b
      /\ [s EXCEPT !.new = b].size = s.size
  BY <1>1, Zenon DEF JobRecords
<1> QED
  BY <1>1, <1>2, <1>3, Zenon

-----------------------------------------------------------------------------
(* The steps                                                               *)

(* The pool of sw_mem_init is in order and no thread is at work.           *)
LEMMA InitIInv == Init => IInv
<1> SUFFICES ASSUME Init
             PROVE  IInv
  OBVIOUS
<1>1. list = <<>> /\ list \in Seq(Blocks) /\ Len(list) = 0 /\ DOMAIN list = 1..0
  BY DEF Init
<1>2. Apart(list) /\ Hint(list, first)
  BY <1>1 DEF Apart, Hint, Init
<1>3. Pool
  BY <1>1, <1>2, SizeAssumption DEF Pool, Init
<1>4. Jobs
  BY IdleJob DEF Jobs, Init
<1> QED
  BY <1>3, <1>4 DEF IInv

(* Blocks nobody works on are on the list.                                 *)
LEMMA OwnBlocks ==
  ASSUME NEW at \in Own
  PROVE  at \in Addresses /\ \A t \in Thread : at # job[t].at /\ at # job[t].new
BY DEF Own

(* What a thread does in sw_mem_alloc and sw_mem_free.                     *)
LEMMA AllocIInv ==
  ASSUME IInv, NEW t \in Thread, Alloc(t)
  PROVE  IInv'
<1>1. Pool /\ Jobs /\ job \in [Thread -> JobRecords] /\ job[t] = NoJob
  BY DEF IInv, Jobs, Alloc
<1>2. ASSUME NEW n \in Requests, AllocSome(n + Guard),
             job' = [job EXCEPT ![t].todo = "guard", ![t].new = NewAt(n + Guard)]
      PROVE  IInv'
  <2> DEFINE a == NewAt(n + Guard)
  <2>1. Pool' /\ a \in Int /\ a # NULL /\ a \notin Addresses /\ Addresses' = Addresses \cup {a}
    BY <1>1, <1>2, AllocPool
  <2>2. job' = [job EXCEPT ![t].todo = "guard", ![t].new = a]
    BY <1>2
  <2> HIDE DEF a
  <2>3. "guard" \in Todos
    BY DEF Todos
  <2> DEFINE r == Turned(job[t], "guard", a)
  <2>4. /\ r \in JobRecords /\ r.todo = "guard" /\ r.at = job[t].at /\ r.new = a
        /\ job' = [job EXCEPT ![t] = r]
    <3>1. job' = [job EXCEPT ![t] = r]
      BY <2>2, Zenon DEF Turned
    <3> QED
      BY <1>1, <2>1, <2>3, <3>1, TurnedJob
  <2> HIDE DEF r
  <2>5. r.todo = "guard" /\ r.at = NULL /\ r.new = a
    BY <1>1, <2>4, IdleJob
  <2>6. Sound(r, Addresses')
    BY <2>1, <2>5, SMTT(30) DEF Sound
  <2>7. ASSUME NEW u \in Thread, u # t
        PROVE  Sound(job[u], Addresses') /\ Disjoint(r, job[u])
    <3>1. Sound(job[u], Addresses)
      BY <1>1 DEF Jobs
    <3>2. {job[u].at, job[u].new} \subseteq Addresses \cup {NULL}
      BY <3>1, SoundHolds
    <3>3. Addresses \subseteq Addresses'
      BY <2>1
    <3>4. Sound(job[u], Addresses')
      BY <3>1, <3>3, SoundStays
    <3> QED
      BY <2>1, <2>5, <3>2, <3>4 DEF Disjoint
  <2>8. Jobs'
    BY <1>1, <2>4, <2>6, <2>7, TakesUp, Zenon
  <2> QED
    BY <2>1, <2>8 DEF IInv
<1>3. ASSUME NEW n \in Requests, AllocNone(n + Guard), job' = job
      PROVE  IInv'
  <2>1. Pool' /\ Addresses' = Addresses
    BY <1>1, <1>3, NonePool
  <2> QED
    BY <1>1, <1>3, <2>1 DEF IInv, Jobs
<1> QED
  BY <1>2, <1>3, Zenon DEF Alloc

(* A thread drops its job while the list stays as it is.                   *)
LEMMA DropsJob ==
  ASSUME Jobs, NEW t \in Thread, job' = [job EXCEPT ![t] = NoJob], Addresses' = Addresses
  PROVE  Jobs'
<1>1. \A u \in Thread : u # t => Sound(job[u], Addresses') /\ Disjoint(NoJob, job[u])
  BY IdleJob DEF Jobs
<1> QED
  BY <1>1, IdleJob, TakesUp, Zenon

(* The pool does not change.                                               *)
LEMMA PoolStays ==
  ASSUME Pool, UNCHANGED <<list, first, tail, alloc_size, maxpos, alarm, shrunk>>
  PROVE  Pool' /\ Addresses' = Addresses
<1>1. Addresses' = Addresses
  BY DEF Addresses
<1> QED
  BY <1>1 DEF Pool

(* Writing the guard bytes ends an allocation or a resize in place.        *)
LEMMA WriteGuardIInv ==
  ASSUME IInv, NEW t \in Thread, WriteGuard(t)
  PROVE  IInv'
<1>1. Pool' /\ Addresses' = Addresses
  BY PoolStays DEF IInv, WriteGuard
<1>2. Jobs'
  BY <1>1, DropsJob, Zenon DEF IInv, WriteGuard
<1> QED
  BY <1>1, <1>2 DEF IInv

(* sw_mem_free of a block no other call works on.                          *)
LEMMA FreeIInv ==
  ASSUME IInv, NEW t \in Thread, Free(t)
  PROVE  IInv'
<1>1. PICK at \in Own : Release(at)
  BY DEF Free
<1>2. at \in Addresses /\ \A u \in Thread : at # job[u].at /\ at # job[u].new
  BY OwnBlocks
<1>3. Pool' /\ Addresses' = Addresses \ {at}
  BY <1>1, <1>2, ReleasePool DEF IInv
<1>4. job' = job
  BY DEF Free
<1>5. \A u \in Thread : Sound(job[u], Addresses')
  <2> SUFFICES ASSUME NEW u \in Thread
               PROVE  Sound(job[u], Addresses')
    OBVIOUS
  <2>1. Sound(job[u], Addresses) /\ at \notin {job[u].at, job[u].new}
    BY <1>2 DEF IInv, Jobs
  <2> QED
    BY <1>3, <2>1, SoundStays
<1>6. Jobs'
  BY <1>4, <1>5 DEF IInv, Jobs
<1> QED
  BY <1>3, <1>6 DEF IInv

(* sw_mem_realloc: in place, and the start of a move.                      *)
LEMMA InPlaceIInv ==
  ASSUME IInv, NEW t \in Thread, ReallocInPlace(t)
  PROVE  IInv'
<1>1. Pool /\ Jobs /\ job \in [Thread -> JobRecords] /\ job[t] = NoJob
  BY DEF IInv, Jobs, ReallocInPlace
<1>2. PICK at \in Own, n \in Requests :
        /\ InPlace(IndexOf(at), n + Guard) /\ Resized(IndexOf(at), n + Guard)
        /\ shrunk' = IF n + Guard < list[IndexOf(at)].size THEN "yes" ELSE shrunk
        /\ job' = [job EXCEPT ![t].todo = "guard", ![t].new = at]
  BY Zenon DEF ReallocInPlace
<1>3. at \in Addresses /\ \A u \in Thread : at # job[u].at /\ at # job[u].new
  BY OwnBlocks
<1>4. UNCHANGED <<first, tail, maxpos, alarm>>
  BY DEF ReallocInPlace
<1>5. Pool' /\ Addresses' = Addresses
  BY <1>1, <1>2, <1>3, <1>4, ResizePool, SMTT(30)
<1>6. at \in Int
  BY <1>1, <1>3, IndexFound, ListFacts, SizeAssumption
<1>7. "guard" \in Todos
  BY DEF Todos
<1> DEFINE r == Turned(job[t], "guard", at)
<1>8. /\ r \in JobRecords /\ r.todo = "guard" /\ r.at = job[t].at /\ r.new = at
      /\ job' = [job EXCEPT ![t] = r]
  <2>1. job' = [job EXCEPT ![t] = r]
    BY <1>2, Zenon DEF Turned
  <2> QED
    BY <1>1, <1>6, <1>7, <2>1, TurnedJob
<1> HIDE DEF r
<1>9. r.todo = "guard" /\ r.at = NULL /\ r.new = at
  BY <1>1, <1>8, IdleJob
<1>10. Sound(r, Addresses')
  BY <1>3, <1>5, <1>9, SMTT(30) DEF Sound
<1>11. \A u \in Thread : u # t => Sound(job[u], Addresses') /\ Disjoint(r, job[u])
  BY <1>1, <1>3, <1>5, <1>9 DEF Jobs, Disjoint
<1>12. Jobs'
  BY <1>1, <1>8, <1>10, <1>11, TakesUp, Zenon
<1> QED
  BY <1>5, <1>12 DEF IInv

(* A block that cannot grow where it is has to move.                       *)
LEMMA MoveIInv ==
  ASSUME IInv, NEW t \in Thread, ReallocMove(t)
  PROVE  IInv'
<1>1. Pool' /\ Addresses' = Addresses
  BY PoolStays DEF IInv, ReallocMove
<1>2. Pool /\ Jobs
  BY DEF IInv
<1>3. PICK at \in Own, n \in Requests :
        job' = [job EXCEPT ![t] = [todo |-> "alloc", at |-> at, new |-> NULL, size |-> n]]
  BY Zenon DEF ReallocMove
<1>4. at \in Addresses /\ \A u \in Thread : at # job[u].at /\ at # job[u].new
  BY OwnBlocks
<1>5. at \in Int /\ n \in Nat /\ NULL \in Int
  BY <1>2, <1>4, IndexFound, ListFacts, SizeAssumption, SMTT(30) DEF NULL
<1> DEFINE r == [todo |-> "alloc", at |-> at, new |-> NULL, size |-> n]
<1>6. r \in JobRecords
  BY <1>5 DEF JobRecords, Todos
<1>7. r.todo = "alloc" /\ r.at = at /\ r.new = NULL /\ r.size = n
  OBVIOUS
<1>8. job' = [job EXCEPT ![t] = r]
  BY <1>3
<1> HIDE DEF r
<1>9. Sound(r, Addresses')
  BY <1>1, <1>4, <1>7, SMTT(30) DEF Sound
<1>10. \A u \in Thread : u # t => Sound(job[u], Addresses') /\ Disjoint(r, job[u])
  BY <1>1, <1>2, <1>4, <1>7 DEF Jobs, Disjoint
<1>11. Jobs'
  BY <1>2, <1>6, <1>8, <1>9, <1>10, TakesUp, Zenon
<1> QED
  BY <1>1, <1>11 DEF IInv

(* The allocation of a move, the old block staying on the list.            *)
LEMMA MoveAllocIInv ==
  ASSUME IInv, NEW t \in Thread, ReallocAlloc(t)
  PROVE  IInv'
<1> DEFINE n == job[t].size
<1>1. Pool /\ Jobs /\ job \in [Thread -> JobRecords] /\ job[t].todo = "alloc" /\ Sound(job[t], Addresses)
  BY DEF IInv, Jobs, ReallocAlloc
<1>2. n \in Requests /\ job[t].at \in Addresses
  BY <1>1 DEF Sound
<1>3. ASSUME AllocSome(n + Guard),
             job' = [job EXCEPT ![t].todo = "move", ![t].new = NewAt(n + Guard)]
      PROVE  IInv'
  <2> DEFINE a == NewAt(n + Guard)
  <2>1. Pool' /\ a \in Int /\ a # NULL /\ a \notin Addresses /\ Addresses' = Addresses \cup {a}
    BY <1>1, <1>2, <1>3, AllocPool
  <2>2. job' = [job EXCEPT ![t].todo = "move", ![t].new = a]
    BY <1>3
  <2> HIDE DEF a
  <2>3. "move" \in Todos
    BY DEF Todos
  <2> DEFINE r == Turned(job[t], "move", a)
  <2>4. /\ r \in JobRecords /\ r.todo = "move" /\ r.at = job[t].at /\ r.new = a /\ r.size = n
        /\ job' = [job EXCEPT ![t] = r]
    <3>1. job' = [job EXCEPT ![t] = r]
      BY <2>2, Zenon DEF Turned
    <3> QED
      BY <1>1, <2>1, <2>3, <3>1, TurnedJob
  <2> HIDE DEF r
  <2>5. r.todo = "move" /\ r.at = job[t].at /\ r.new = a /\ r.size = n
    BY <2>4
  <2>6. Sound(r, Addresses')
    BY <1>2, <2>1, <2>5 DEF Sound
  <2>7. ASSUME NEW u \in Thread, u # t
        PROVE  Sound(job[u], Addresses') /\ Disjoint(r, job[u])
    <3>1. Sound(job[u], Addresses) /\ Disjoint(job[t], job[u])
      BY <1>1, <2>7 DEF Jobs
    <3>2. {job[u].at, job[u].new} \subseteq Addresses \cup {NULL}
      BY <3>1, SoundHolds
    <3>3. Addresses \subseteq Addresses'
      BY <2>1
    <3>4. Sound(job[u], Addresses')
      BY <3>1, <3>3, SoundStays, SMTT(30)
    <3>5. Disjoint(r, job[u])
      BY <2>1, <2>5, <3>1, <3>2 DEF Disjoint
    <3> QED
      BY <3>4, <3>5
  <2>8. Jobs'
    BY <1>1, <2>4, <2>6, <2>7, TakesUp, Zenon
  <2> QED
    BY <2>1, <2>8 DEF IInv
<1>4. ASSUME AllocNone(n + Guard), job' = [job EXCEPT ![t] = NoJob]
      PROVE  IInv'
  <2>1. Pool' /\ Addresses' = Addresses
    BY <1>1, <1>4, NonePool
  <2>2. Jobs'
    BY <1>1, <1>4, <2>1, DropsJob, ZenonT(60)
  <2> QED
    BY <2>1, <2>2 DEF IInv
<1> QED
  BY <1>3, <1>4, Zenon DEF ReallocAlloc

(* The copy of a move.                                                     *)
LEMMA CopyIInv ==
  ASSUME IInv, NEW t \in Thread, ReallocCopy(t)
  PROVE  IInv'
<1>1. Pool' /\ Addresses' = Addresses
  BY PoolStays DEF IInv, ReallocCopy
<1>2. /\ Jobs /\ job \in [Thread -> JobRecords] /\ job[t] \in JobRecords
      /\ job[t].todo = "move" /\ Sound(job[t], Addresses)
  BY DEF IInv, Jobs, ReallocCopy
<1> DEFINE r == [job[t] EXCEPT !.todo = "free"]
<1>3. r \in JobRecords
  BY <1>2, Zenon DEF JobRecords, Todos
<1>4. r.todo = "free" /\ r.at = job[t].at /\ r.new = job[t].new
  BY <1>2, Zenon DEF JobRecords
<1>5. job' = [job EXCEPT ![t] = r]
  BY DEF ReallocCopy
<1> HIDE DEF r
<1>6. Sound(r, Addresses')
  BY <1>1, <1>2, <1>4, SMTT(30) DEF Sound
<1>7. \A u \in Thread : u # t => Sound(job[u], Addresses') /\ Disjoint(r, job[u])
  BY <1>1, <1>2, <1>4 DEF Jobs, Disjoint
<1>8. Jobs'
  BY <1>2, <1>3, <1>5, <1>6, <1>7, TakesUp, Zenon
<1> QED
  BY <1>1, <1>8 DEF IInv

(* The end of a move gives the old block back.                             *)
LEMMA MoveFreeIInv ==
  ASSUME IInv, NEW t \in Thread, ReallocFree(t)
  PROVE  IInv'
<1>1. /\ Pool /\ Jobs /\ job[t].todo = "free" /\ Sound(job[t], Addresses)
      /\ Release(job[t].at) /\ job' = [job EXCEPT ![t] = NoJob]
  BY DEF IInv, Jobs, ReallocFree
<1>2. job[t].at \in Addresses /\ job[t].at # NULL
  BY <1>1, IndexFound DEF Sound
<1>3. Pool' /\ Addresses' = Addresses \ {job[t].at}
  BY <1>1, <1>2, ReleasePool, SMTT(30)
<1>4. ASSUME NEW u \in Thread, u # t
      PROVE  Sound(job[u], Addresses') /\ Disjoint(NoJob, job[u])
  <2>1. Sound(job[u], Addresses) /\ Disjoint(job[t], job[u])
    BY <1>1, <1>4 DEF Jobs
  <2>2. job[t].at \notin {job[u].at, job[u].new}
    BY <1>2, <2>1, Zenon DEF Disjoint
  <2> QED
    BY <1>3, <2>1, <2>2, SoundStays, IdleJob, SMTT(30)
<1>5. Jobs'
  BY <1>1, <1>4, IdleJob, TakesUp, Zenon
<1> QED
  BY <1>3, <1>5 DEF IInv

(* sw_mem_reset.                                                           *)
LEMMA ResetIInv ==
  ASSUME IInv, Reset
  PROVE  IInv'
<1>1. /\ list' = <<>> /\ list' \in Seq(Blocks) /\ Len(list') = 0 /\ first' = NULL /\ tail' = NULL
      /\ alloc_size' = alloc_size /\ maxpos' = maxpos /\ alarm' = alarm /\ job' = job
  BY DEF Reset
<1>2. Apart(list') /\ Hint(list', first')
  BY <1>1 DEF Apart, Hint
<1>3. Pool'
  BY <1>1, <1>2 DEF Pool, IInv
<1>4. \A t \in Thread : job[t] = NoJob
  BY DEF Reset
<1>5. \A t \in Thread : Sound(job'[t], Addresses')
  BY <1>1, <1>4, IdleJob
<1>6. Jobs'
  BY <1>1, <1>5 DEF Jobs, IInv
<1> QED
  BY <1>3, <1>6 DEF IInv

-----------------------------------------------------------------------------
(* The theorems                                                            *)

(* In every reachable state the pool is in order and no block is in the    *)
(* hands of two calls of swmem.c.                                          *)
THEOREM Inductive == Spec => []IInv
<1>1. Init => IInv
  BY InitIInv
<1>2. IInv /\ [Next]_vars => IInv'
  <2> SUFFICES ASSUME IInv, [Next]_vars
               PROVE  IInv'
    OBVIOUS
  <2>1. ASSUME NEW t \in Thread,
               \/ Alloc(t) \/ WriteGuard(t) \/ Free(t)
               \/ ReallocInPlace(t) \/ ReallocMove(t) \/ ReallocAlloc(t)
               \/ ReallocCopy(t) \/ ReallocFree(t)
        PROVE  IInv'
    BY <2>1, AllocIInv, WriteGuardIInv, FreeIInv, InPlaceIInv, MoveIInv, MoveAllocIInv,
       CopyIInv, MoveFreeIInv, Zenon
  <2>2. CASE Reset
    BY <2>2, ResetIInv
  <2>3. CASE UNCHANGED vars
    <3>1. Pool' /\ Addresses' = Addresses
      BY <2>3, PoolStays DEF vars, IInv
    <3> QED
      BY <2>3, <3>1 DEF vars, IInv, Jobs
  <2> QED
    BY <2>1, <2>2, <2>3, Zenon DEF Next
<1> QED
  BY <1>1, <1>2, PTL DEF Spec

(* Whatever is allocated, freed, resized and moved, by any number of       *)
(* threads, no block of the pool overlaps another one or the end of the    *)
(* buffer, the list is in the order of the addresses and tail is its end.  *)
THEOREM BlocksApartHolds == Spec => []BlocksApart
<1>1. IInv => BlocksApart
  <2> SUFFICES ASSUME IInv
               PROVE  BlocksApart
    OBVIOUS
  <2>1. Pool /\ Jobs
    BY DEF IInv
  <2>2. /\ Len(list) \in Nat /\ DOMAIN list = 1..Len(list) /\ list \in Seq(Blocks)
        /\ (list = <<>> <=> Len(list) = 0)
    BY <2>1, ListFacts
  <2>3. tail \in Addresses \cup {NULL}
    <3>1. CASE list = <<>>
      BY <2>1, <3>1 DEF Pool
    <3>2. CASE list # <<>>
      <4>1. Len(list) \in DOMAIN list
        BY <2>2, <3>2, SMTT(30)
      <4> QED
        BY <2>1, <3>2, <4>1 DEF Pool, Addresses
    <3> QED
      BY <3>1, <3>2
  <2>4. ASSUME NEW t \in Thread
        PROVE  /\ job[t].todo \in {"none", "guard", "alloc", "move", "free"}
               /\ {job[t].at, job[t].new} \subseteq Addresses \union {NULL}
    <3>1. job[t].todo \in {"none", "guard", "alloc", "move", "free"}
      BY <2>1, Zenon DEF Jobs, JobRecords, Todos
    <3> QED
      BY <2>1, <3>1, SoundHolds DEF Jobs
  <2>5. TypeOK
    BY <2>1, <2>2, <2>3, <2>4, SMTT(30) DEF TypeOK, Pool, Blocks
  <2>6. ASSUME NEW i \in DOMAIN list
        PROVE  /\ list[i].at % Align = 0
               /\ Data(list[i].at) + list[i].size <= Size
               /\ i < Len(list) => End(list[i]) <= list[i + 1].at
    <3>1. i \in 1..Len(list) /\ (i < Len(list) => i + 1 \in 1..Len(list) /\ i < i + 1)
      BY <2>2
    <3>2. list[i].at \in Int /\ Aligned(list[i].at)
      BY <2>1, <3>1, ListFacts, SizeAssumption, SMTT(30)
    <3>3. list[i].at % Align = 0
      BY <3>2, AlignedMod, SMTT(30)
    <3> QED
      BY <2>1, <3>1, <3>3 DEF Pool, Apart
  <2> QED
    BY <2>1, <2>5, <2>6 DEF BlocksApart, Pool
<1> QED
  BY <1>1, Inductive, PTL

(* A move of sw_mem_realloc copies all the bytes the caller had, or as     *)
(* many as fit in the new block, and reads none behind the old block,      *)
(* whatever the other threads did to the pool since the move began.        *)
THEOREM CopyExactHolds == Spec => []CopyExact
<1>1. IInv => CopyExact
  <2> SUFFICES ASSUME IInv, NEW t \in Thread, job[t].todo = "move"
               PROVE  LET old == list[IndexOf(job[t].at)].size
                          len == CopyLen(old, job[t].size)
                      IN  /\ len <= old /\ len <= job[t].size
                          /\ len >= old - Guard \/ len = job[t].size
    BY DEF CopyExact
  <2> DEFINE old == list[IndexOf(job[t].at)].size
             n == job[t].size
  <2>1. n \in Nat /\ job[t].at \in Addresses
    BY SizeAssumption, Zenon DEF IInv, Jobs, Sound
  <2>2. IndexOf(job[t].at) \in 1..Len(list)
    BY <2>1, IndexFound, ZenonT(60) DEF IInv
  <2>3. old \in 0..Size /\ Guard <= old
    BY <2>2, ListFacts, BlockEnds, ZenonT(60) DEF IInv, Pool, Apart
  <2> HIDE DEF old, n
  <2>4. /\ CopyLen(old, n) <= old /\ CopyLen(old, n) <= n
        /\ CopyLen(old, n) >= old - Guard \/ CopyLen(old, n) = n
    BY <2>1, <2>3, SizeAssumption, GuardAssumption DEF CopyLen
  <2> QED
    BY <2>4, ZenonT(60) DEF old, n
<1> QED
  BY <1>1, Inductive, PTL

(* A gap that is too small to start from has no room for any request.      *)
LEMMA NoRoomInSmall ==
  ASSUME NEW g \in Int, Aligned(g), TooSmall(g), NEW n \in Requests
  PROVE  n + Guard > g
<1>1. Aligned(Guard) /\ Guard \in Int
  BY AlignedMod, GuardAssumption
<1>2. PICK j \in Int : g = j * Align
  BY DEF Aligned
<1>3. PICK k \in Int : Guard = k * Align
  BY <1>1 DEF Aligned
<1>4. j * Align <= Align - 1 + k * Align
  BY <1>2, <1>3 DEF TooSmall
<1>5. ~ (j >= k + 1)
  <2> SUFFICES ASSUME j >= k + 1
               PROVE  FALSE
    OBVIOUS
  <2>1. (j - k) * Align >= Align
    BY SizeAssumption
  <2>2. (j - k) * Align = j * Align - k * Align
    BY SizeAssumption
  <2>3. j * Align \in Int /\ k * Align \in Int /\ Align \in Int
    BY SizeAssumption
  <2> QED
    BY <1>4, <2>1, <2>2, <2>3
<1>6. j * Align <= k * Align
  <2>1. k - j \in Nat
    BY <1>5
  <2>2. (k - j) * Align >= 0
    BY <2>1, SizeAssumption
  <2>3. (k - j) * Align = k * Align - j * Align
    BY SizeAssumption
  <2>4. j * Align \in Int /\ k * Align \in Int
    BY SizeAssumption
  <2> QED
    BY <2>2, <2>3, <2>4
<1> QED
  BY <1>1, <1>2, <1>3, <1>6, SizeAssumption

(* The search of malloc_old from the hint first misses no gap, as long as  *)
(* no block has been made smaller in place.                                *)
THEOREM NoGapMissedHolds == Spec => []NoGapMissed
<1>1. IInv => NoGapMissed
  <2> SUFFICES ASSUME IInv, shrunk = "no", NEW n \in Requests, NothingFits(n + Guard), list # <<>>
               PROVE  /\ n + Guard > HeadGap
                      /\ \A i \in 1..Len(list) - 1 : n + Guard > Gap(i)
    BY DEF NoGapMissed, NoRoom
  <2> DEFINE size == n + Guard
  <2>1. Pool /\ Hint(list, first) /\ Apart(list) /\ size \in Int
    BY SizeAssumption, GuardAssumption DEF IInv, Pool
  <2>2. Len(list) \in Nat /\ 1 \in 1..Len(list) /\ ScanFrom \in 1..Len(list)
    BY <2>1, ListFacts, ScanStarts
  <2>3. HeadGap \in Int /\ Aligned(HeadGap)
    <3>1. list[1].at \in Int /\ Aligned(list[1].at)
      BY <2>1, <2>2, ListFacts, SizeAssumption
    <3>2. Up(Hdr) \in Int /\ Aligned(Up(Hdr))
      BY FirstData
    <3>3. Aligned(list[1].at - Up(Hdr))
      BY <3>1, <3>2, AlignedSum, Zenon
    <3> QED
      BY <3>1, <3>2, <3>3, SMTT(30) DEF HeadGap
  <2>4. ASSUME NEW i \in 1..Len(list) - 1
        PROVE  Gap(i) \in Int /\ Aligned(Gap(i))
    <3>1. i \in 1..Len(list) /\ i + 1 \in 1..Len(list)
      BY <2>2
    <3>2. list[i + 1].at \in Int /\ Aligned(list[i + 1].at) /\ End(list[i]) + Hdr \in Int
      BY <2>1, <3>1, ListFacts, SizeAssumption, SMTT(30)
    <3>3. Up(End(list[i]) + Hdr) \in Int /\ Aligned(Up(End(list[i]) + Hdr))
      BY <3>2, UpRounds
    <3>4. Aligned(list[i + 1].at - Up(End(list[i]) + Hdr))
      BY <3>2, <3>3, AlignedSum, Zenon
    <3> QED
      BY <3>2, <3>3, <3>4 DEF Gap
  <2>5. size > HeadGap
    <3>1. CASE first = NULL
      <4>1. ~ (size <= HeadGap)
        BY <3>1 DEF NothingFits, HeadFits
      <4> QED
        BY <2>1, <2>3, <4>1
    <3>2. CASE first # NULL
      BY <2>1, <2>3, <3>2, NoRoomInSmall DEF Hint, HeadGap
    <3> QED
      BY <3>1, <3>2
  <2>6. ASSUME NEW i \in 1..Len(list) - 1
        PROVE  size > Gap(i)
    <3>1. CASE i >= ScanFrom
      <4>1. i \in ScanFrom..Len(list) - 1
        BY <2>2, <3>1
      <4>2. ~ (size <= Gap(i))
        BY <4>1 DEF NothingFits, Fits
      <4> QED
        BY <2>1, <2>4, <4>2
    <3>2. CASE i < ScanFrom
      <4>1. first # NULL /\ list[ScanFrom].at = first
        BY <2>1, <2>2, <3>2, ScanStarts, SMTT(30)
      <4>2. i \in 1..Len(list) /\ list[i].at < first
        BY <2>1, <2>2, <3>2, <4>1, Ascending, SMTT(30)
      <4>3. TooSmall(Gap(i))
        BY <2>1, <4>1, <4>2 DEF Hint, Gap
      <4> QED
        BY <2>4, <4>3, NoRoomInSmall
    <3> QED
      BY <2>2, <3>1, <3>2
  <2> QED
    BY <2>5, <2>6
<1> QED
  BY <1>1, Inductive, PTL

=============================================================================
