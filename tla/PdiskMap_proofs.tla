---------------------------- MODULE PdiskMap_proofs ----------------------------
(***************************************************************************)
(* The editor of tivopart keeps a map that accounts for every block once a *)
(* map that does: for every drive, every width of block numbers and every  *)
(* sequence of commands (StaysSound).  The argument looks at the entries   *)
(* in base order only, a row of them: an insertion puts one into the row,  *)
(* a deletion takes one out, and reordering leaves the row alone.          *)
(* And what it writes is what it reads, even when a block fails            *)
(* (ReadsBackWhole): the argument says of each block on the drive which    *)
(* map it is a block of.                                                   *)
(***************************************************************************)
EXTENDS PdiskMap, FiniteSetTheorems, SequenceTheorems, WellFoundedInduction, TLAPS

-----------------------------------------------------------------------------
(* Induction.  A set of numbers has a least one: the intervals that end in  *)
(* it are well-founded.  So has the set of those where something fails.     *)

LEMMA LeastNumber ==
  ASSUME NEW T, T \subseteq Nat, T # {}
  PROVE  \E x \in T : \A y \in T : x <= y
<1>1. PICK n \in T : TRUE
  OBVIOUS
<1> DEFINE S == 1..n
           R == StrictSubsetOrdering(S)
           U == {1..k : k \in {j \in T : j <= n}}
<1>2. IsWellFoundedOn(R, FiniteSubsetsOf(S))
  BY FS_StrictSubsetOrderingWellFounded
<1>3. IsFiniteSet(S)
  BY FS_Interval
<1>4. FiniteSubsetsOf(S) = SUBSET S
  BY <1>3, FS_FiniteSubsetsOfFinite
<1>5. U \subseteq SUBSET S /\ U # {}
  OBVIOUS
<1> HIDE DEF U, R
<1>6. PICK x \in U : \A y \in U : <<y, x>> \notin R
  <2>1. IsWellFoundedOn(R, SUBSET S)
    BY <1>2, <1>4
  <2> HIDE DEF S
  <2> QED
    BY <2>1, <1>5, WFMin, Zenon
<1>7. PICK k \in T : k <= n /\ x = 1..k
  BY <1>6 DEF U
<1>8. ASSUME NEW y \in T, y < k PROVE FALSE
  <2>1. 1..y \in U
    BY <1>7, <1>8 DEF U
  <2>2. <<1..y, 1..k>> \in R
    <3>1. 1..y \subseteq 1..k /\ k \in 1..k /\ k \notin 1..y
      BY <1>8
    <3>2. 1..k \in SUBSET S /\ 1..y \in SUBSET S
      BY <1>7, <1>8
    <3> QED
      BY <3>1, <3>2 DEF R, StrictSubsetOrdering
  <2> QED
    BY <2>1, <2>2, <1>6, <1>7
<1> QED
  BY <1>7, <1>8

\* f begins with a and goes on by G, up to N.
Defined(f, S, N, a, G) ==
  f \in [0..N -> S] /\ f[0] = a /\ \A k \in 1..N : f[k] = G[<<f[k - 1], k>>]

(* A function may be defined by its first value and a step.                 *)
LEMMA Recursion ==
  ASSUME NEW S, NEW N \in Nat, NEW a \in S, NEW G \in [S \X (1..N) -> S]
  PROVE  \E f : Defined(f, S, N, a, G)
<1> DEFINE Upto(n) == \E f \in [0..n -> S] : f[0] = a /\ \A k \in 1..n : f[k] = G[<<f[k - 1], k>>]
           Bad == {n \in 0..N : ~Upto(n)}
<1>1. SUFFICES ASSUME Bad # {} PROVE FALSE
  <2>1. CASE Bad = {}
    <3>1. Upto(N)
      <4> HIDE DEF Upto
      <4> QED
        BY <2>1
    <3> QED
      BY <3>1 DEF Defined
  <2> QED
    BY <2>1
<1>2. Bad \subseteq Nat
  OBVIOUS
<1>3. PICK n \in Bad : \A y \in Bad : n <= y
  <2> HIDE DEF Bad
  <2> QED
    BY <1>1, <1>2, LeastNumber
<1>4. n # 0
  <2> DEFINE f == [i \in 0..0 |-> a]
  <2>1. f \in [0..0 -> S] /\ f[0] = a
    OBVIOUS
  <2>2. Upto(0)
    <3> HIDE DEF f
    <3>1. \A k \in 1..0 : f[k] = G[<<f[k - 1], k>>]
      OBVIOUS
    <3> QED
      BY <2>1, <3>1
  <2> QED
    BY <2>2
<1>5. n - 1 \in 0..N /\ n \in 1..N
  BY <1>4
<1>6. Upto(n - 1)
  <2>1. n - 1 \notin Bad
    <3> HIDE DEF Bad
    <3> QED
      BY <1>3, <1>5
  <2> HIDE DEF Upto
  <2> QED
    BY <2>1, <1>5
<1>7. PICK g \in [0..(n - 1) -> S] : g[0] = a /\ \A k \in 1..(n - 1) : g[k] = G[<<g[k - 1], k>>]
  BY <1>6
<1> DEFINE h == [i \in 0..n |-> IF i = n THEN G[<<g[n - 1], n>>] ELSE g[i]]
<1>8. h \in [0..n -> S]
  <2>1. G[<<g[n - 1], n>>] \in S
    <3>1. g[n - 1] \in S
      BY <1>5, <1>7
    <3>2. <<g[n - 1], n>> \in S \X (1..N)
      BY <3>1, <1>5
    <3> QED
      BY <3>2
  <2>2. \A i \in 0..n : i # n => g[i] \in S
    BY <1>5, <1>7
  <2> QED
    BY <2>1, <2>2
<1>9. h[0] = a
  BY <1>5, <1>7
<1>10. \A k \in 1..n : h[k] = G[<<h[k - 1], k>>]
  <2> TAKE k \in 1..n
  <2>1. h[k - 1] = g[k - 1]
    BY <1>5
  <2>2. h[k] = IF k = n THEN G[<<g[n - 1], n>>] ELSE g[k]
    BY <1>5
  <2>3. k # n => k \in 1..(n - 1)
    BY <1>5
  <2> HIDE DEF h
  <2> QED
    BY <2>1, <2>2, <2>3, <1>7
<1>11. Upto(n)
  <2> HIDE DEF h
  <2> QED
    BY <1>8, <1>9, <1>10
<1> QED
  BY <1>11

-----------------------------------------------------------------------------
(* Sequences.                                                               *)

LEMMA FunIsSeq ==
  ASSUME NEW S, NEW n \in Nat, NEW f \in [1..n -> S]
  PROVE  f \in Seq(S) /\ Len(f) = n
OBVIOUS

LEMMA InsertAtFacts ==
  ASSUME NEW S, NEW q \in Seq(S), NEW i \in 1..(Len(q) + 1), NEW e \in S
  PROVE  /\ InsertAt(q, i, e) \in Seq(S) /\ Len(InsertAt(q, i, e)) = Len(q) + 1
         /\ \A j \in 1..(Len(q) + 1) :
              InsertAt(q, i, e)[j] = IF j < i THEN q[j] ELSE IF j = i THEN e ELSE q[j - 1]
<1> DEFINE a == SubSeq(q, 1, i - 1)
           b == SubSeq(q, i, Len(q))
           c == a \o <<e>>
<1>1. Len(q) \in Nat /\ i \in Nat
  OBVIOUS
<1>2. a \in Seq(S) /\ Len(a) = i - 1 /\ \A j \in 1..(i - 1) : a[j] = q[j]
  BY <1>1
<1>3. /\ b \in Seq(S) /\ Len(b) = Len(q) - i + 1
      /\ \A j \in 1..(Len(q) - i + 1) : b[j] = q[i + j - 1]
  BY <1>1
<1>4. <<e>> \in Seq(S) /\ Len(<<e>>) = 1 /\ <<e>>[1] = e
  OBVIOUS
<1> HIDE DEF a, b
<1>5. /\ c \in Seq(S) /\ Len(c) = i
      /\ \A j \in 1..i : c[j] = IF j <= i - 1 THEN a[j] ELSE e
  BY <1>1, <1>2, <1>4
<1> HIDE DEF c
<1>6. /\ c \o b \in Seq(S) /\ Len(c \o b) = Len(c) + Len(b)
      /\ \A j \in 1..(Len(c) + Len(b)) :
           (c \o b)[j] = IF j <= Len(c) THEN c[j] ELSE b[j - Len(c)]
  BY <1>3, <1>5, ConcatProperties
<1>7. Len(c) = i /\ Len(c) + Len(b) = Len(q) + 1
  BY <1>1, <1>3, <1>5
<1>8. \A j \in 1..(Len(q) + 1) :
        (c \o b)[j] = IF j < i THEN q[j] ELSE IF j = i THEN e ELSE q[j - 1]
  <2> TAKE j \in 1..(Len(q) + 1)
  <2>0. j \in Int /\ i \in Int
    BY <1>1
  <2>1. CASE j <= i
    BY <2>1, <1>1, <1>2, <1>5, <1>6, <1>7
  <2>2. CASE ~(j <= i)
    <3>1. j - i \in 1..(Len(q) - i + 1) /\ i + (j - i) - 1 = j - 1
      BY <2>2, <2>0, <1>1
    <3>2. b[j - i] = q[j - 1]
      BY <3>1, <1>3
    <3> QED
      BY <3>2, <2>2, <2>0, <1>6, <1>7
  <2> QED
    BY <2>0, <2>1, <2>2
<1>9. InsertAt(q, i, e) = c \o b
  BY DEF InsertAt, a, b, c
<1> QED
  BY <1>6, <1>7, <1>8, <1>9

LEMMA InsertAtNats ==
  ASSUME NEW q \in Seq(Nat), NEW i \in 1..(Len(q) + 1), NEW e \in Nat
  PROVE  /\ InsertAt(q, i, e) \in Seq(Nat) /\ Len(InsertAt(q, i, e)) = Len(q) + 1
         /\ \A j \in 1..(Len(q) + 1) :
              InsertAt(q, i, e)[j] = IF j < i THEN q[j] ELSE IF j = i THEN e ELSE q[j - 1]
<1> DEFINE S == Nat
<1>1. q \in Seq(S) /\ e \in S
  OBVIOUS
<1> HIDE DEF S
<1>2. /\ InsertAt(q, i, e) \in Seq(S) /\ Len(InsertAt(q, i, e)) = Len(q) + 1
      /\ \A j \in 1..(Len(q) + 1) :
           InsertAt(q, i, e)[j] = IF j < i THEN q[j] ELSE IF j = i THEN e ELSE q[j - 1]
  BY <1>1, InsertAtFacts
<1> QED
  BY <1>2 DEF S

LEMMA RemoveAtFacts ==
  ASSUME NEW S, NEW q \in Seq(S), NEW i \in 1..Len(q)
  PROVE  /\ RemoveAt(q, i) \in Seq(S) /\ Len(RemoveAt(q, i)) = Len(q) - 1
         /\ \A j \in 1..(Len(q) - 1) : RemoveAt(q, i)[j] = IF j < i THEN q[j] ELSE q[j + 1]
<1> DEFINE a == SubSeq(q, 1, i - 1)
           b == SubSeq(q, i + 1, Len(q))
<1>1. Len(q) \in Nat /\ i \in Nat
  OBVIOUS
<1>2. a \in Seq(S) /\ Len(a) = i - 1 /\ \A j \in 1..(i - 1) : a[j] = q[j]
  BY <1>1
<1>3. /\ b \in Seq(S) /\ Len(b) = Len(q) - i
      /\ \A j \in 1..(Len(q) - i) : b[j] = q[i + j]
  <2>1. \A j \in (i + 1)..Len(q) : q[j] \in S
    BY <1>1
  <2>2. /\ b \in Seq(S)
        /\ Len(b) = IF i + 1 <= Len(q) THEN Len(q) - (i + 1) + 1 ELSE 0
        /\ \A j \in 1..(Len(q) - (i + 1) + 1) : b[j] = q[i + 1 + j - 1]
    BY <1>1, <2>1, SubSeqProperties
  <2> HIDE DEF b
  <2> QED
    BY <1>1, <2>2
<1> HIDE DEF a, b
<1>4. /\ a \o b \in Seq(S) /\ Len(a \o b) = Len(a) + Len(b)
      /\ \A j \in 1..(Len(a) + Len(b)) :
           (a \o b)[j] = IF j <= Len(a) THEN a[j] ELSE b[j - Len(a)]
  BY <1>2, <1>3, ConcatProperties
<1>5. Len(a) = i - 1 /\ Len(a) + Len(b) = Len(q) - 1
  BY <1>1, <1>2, <1>3
<1>6. \A j \in 1..(Len(q) - 1) : (a \o b)[j] = IF j < i THEN q[j] ELSE q[j + 1]
  <2> TAKE j \in 1..(Len(q) - 1)
  <2>0. j \in Int /\ i \in Int
    BY <1>1
  <2>1. CASE j < i
    <3>1. j \in 1..(i - 1) /\ j <= Len(a) /\ j \in 1..(Len(a) + Len(b))
      BY <2>0, <2>1, <1>1, <1>5
    <3> QED
      BY <3>1, <2>1, <1>2, <1>4
  <2>2. CASE ~(j < i)
    <3>1. /\ j - (i - 1) \in 1..(Len(q) - i) /\ i + (j - (i - 1)) = j + 1
          /\ ~(j <= Len(a)) /\ j - Len(a) = j - (i - 1) /\ j \in 1..(Len(a) + Len(b))
      BY <2>2, <2>0, <1>1, <1>5
    <3>2. b[j - (i - 1)] = q[j + 1]
      BY <3>1, <1>3
    <3> QED
      BY <3>1, <3>2, <2>2, <1>4
  <2> QED
    BY <2>1, <2>2
<1>7. RemoveAt(q, i) = a \o b
  BY DEF RemoveAt, a, b
<1> QED
  BY <1>4, <1>5, <1>6, <1>7

LEMMA RemoveAtNats ==
  ASSUME NEW q \in Seq(Nat), NEW i \in 1..Len(q)
  PROVE  /\ RemoveAt(q, i) \in Seq(Nat) /\ Len(RemoveAt(q, i)) = Len(q) - 1
         /\ \A j \in 1..(Len(q) - 1) : RemoveAt(q, i)[j] = IF j < i THEN q[j] ELSE q[j + 1]
<1> DEFINE S == Nat
<1>1. q \in Seq(S)
  OBVIOUS
<1> HIDE DEF S
<1>2. /\ RemoveAt(q, i) \in Seq(S) /\ Len(RemoveAt(q, i)) = Len(q) - 1
      /\ \A j \in 1..(Len(q) - 1) : RemoveAt(q, i)[j] = IF j < i THEN q[j] ELSE q[j + 1]
  BY <1>1, RemoveAtFacts
<1> QED
  BY <1>2 DEF S

-----------------------------------------------------------------------------
(* Slot.  Wherever the keys are not in order an insertion still finds a     *)
(* place, and where they are it is the only one that keeps them so.         *)

LEMMA SlotBetween ==
  ASSUME NEW keys \in Seq(Nat), NEW key \in Nat
  PROVE  LET s == Slot(keys, key)
         IN  /\ s \in 1..(Len(keys) + 1)
             /\ s = 1 \/ keys[s - 1] <= key
             /\ s = Len(keys) + 1 \/ key <= keys[s]
<1>1. CASE keys = <<>> \/ key <= Head(keys)
  BY <1>1 DEF Slot
<1>2. CASE ~(keys = <<>> \/ key <= Head(keys))
  <2> DEFINE n == Len(keys)
             T == {j \in 1..n : j = n \/ keys[j + 1] >= key}
             Here(i) == /\ keys[i] <= key /\ (i = Len(keys) \/ key <= keys[i + 1])
                        /\ \A j \in 1..(i - 1) : ~(keys[j] <= key /\ key <= keys[j + 1])
  <2>1. n \in Nat /\ n > 0 /\ keys[1] = Head(keys) /\ keys[1] < key /\ \A j \in 1..n : keys[j] \in Nat
    BY <1>2
  <2> HIDE DEF n
  <2>2. T \subseteq Nat /\ n \in T
    BY <2>1
  <2>3. PICK i \in T : \A j \in T : i <= j
    <3> HIDE DEF T
    <3> QED
      BY <2>2, LeastNumber
  <2>4. \A j \in 1..(i - 1) : j + 1 \in 1..n /\ keys[j + 1] < key
    <3> TAKE j \in 1..(i - 1)
    <3>1. j \notin T /\ j \in 1..n /\ j # n
      <4>1. ~(i <= j) /\ i \in 1..n
        BY <2>1, <2>3
      <4> QED
        BY <4>1, <2>1, <2>3
    <3> QED
      BY <3>1, <2>1
  <2>5. keys[i] <= key
    <3>1. CASE i = 1
      BY <3>1, <2>1
    <3>2. CASE i # 1
      <4>1. i - 1 \in 1..(i - 1) /\ i - 1 + 1 = i
        BY <3>2, <2>3
      <4>2. keys[i - 1 + 1] < key
        BY <4>1, <2>4
      <4>3. keys[i] < key /\ keys[i] \in Nat
        BY <4>1, <4>2, <2>1, <2>3
      <4> QED
        BY <4>3
    <3> QED
      BY <3>1, <3>2
  <2>6. i \in 1..n /\ (i = n \/ key <= keys[i + 1])
    BY <2>3
  <2>7. Here(i)
    <3>1. \A j \in 1..(i - 1) : ~(keys[j] <= key /\ key <= keys[j + 1])
      BY <2>1, <2>4
    <3> QED
      BY <3>1, <2>5, <2>6 DEF n
  <2>8. Slot(keys, key) = 1 + CHOOSE j \in 1..Len(keys) : Here(j)
    BY <1>2 DEF Slot
  <2> HIDE DEF Here
  <2> DEFINE h == CHOOSE j \in 1..Len(keys) : Here(j)
  <2>9. h \in 1..Len(keys) /\ Here(h)
    BY <2>6, <2>7 DEF n
  <2>10. Slot(keys, key) = 1 + h
    BY <2>8
  <2> HIDE DEF h
  <2>11. keys[h] <= key /\ (h = Len(keys) \/ key <= keys[h + 1])
    BY <2>9 DEF Here
  <2>12. 1 + h \in 1..(Len(keys) + 1) /\ (1 + h) - 1 = h /\ 1 + h = h + 1 /\ 1 + h # 1
         /\ (h = Len(keys) => 1 + h = Len(keys) + 1)
    <3>1. h \in 1..Len(keys) /\ Len(keys) \in Nat
      BY <2>9, <2>1 DEF n
    <3> QED
      BY <3>1
  <2> QED
    BY <2>10, <2>11, <2>12
<1> QED
  BY <1>1, <1>2

LEMMA SlotRange ==
  ASSUME NEW keys \in Seq(Nat), NEW key \in Nat
  PROVE  Slot(keys, key) \in 1..(Len(keys) + 1)
BY SlotBetween

LEMMA SlotOrdered ==
  ASSUME NEW keys \in Seq(Nat), NEW key \in Nat, NEW i \in 1..(Len(keys) + 1),
         \A j \in 1..Len(keys) : j < i => keys[j] < key,
         i = Len(keys) + 1 \/ key <= keys[i]
  PROVE  Slot(keys, key) = i
<1>0. Len(keys) \in Nat /\ i \in Nat /\ \A j \in 1..Len(keys) : keys[j] \in Nat
  OBVIOUS
<1>1. CASE keys = <<>>
  BY <1>1, <1>0 DEF Slot
<1>2. CASE keys # <<>> /\ key <= Head(keys)
  <2>1. 1 \in 1..Len(keys) /\ Head(keys) = keys[1]
    BY <1>2
  <2>2. i = 1
    BY <2>1, <1>0, <1>2
  <2> QED
    BY <2>2, <1>2 DEF Slot
<1>3. CASE keys # <<>> /\ ~(key <= Head(keys))
  <2> DEFINE Here(h) == /\ keys[h] <= key /\ (h = Len(keys) \/ key <= keys[h + 1])
                        /\ \A j \in 1..(h - 1) : ~(keys[j] <= key /\ key <= keys[j + 1])
  <2>1. 1 \in 1..Len(keys) /\ Head(keys) = keys[1]
    BY <1>3
  <2>2. i # 1
    BY <2>1, <1>0, <1>3
  <2> DEFINE p == i - 1
  <2>3. p \in 1..Len(keys) /\ p + 1 = i /\ p \in Nat
    BY <2>2, <1>0
  <2> HIDE DEF p
  <2>4. keys[p] < key /\ (p = Len(keys) \/ key <= keys[p + 1])
    BY <2>3, <1>0
  <2>5. \A j \in 1..(p - 1) : ~(keys[j] <= key /\ key <= keys[j + 1])
    <3> TAKE j \in 1..(p - 1)
    <3>1. j + 1 \in 1..Len(keys) /\ j + 1 < i
      BY <2>3, <1>0
    <3>2. keys[j + 1] < key /\ keys[j + 1] \in Nat
      BY <3>1, <1>0
    <3> QED
      BY <3>2
  <2>6. Here(p)
    BY <2>3, <2>4, <2>5, <1>0
  <2>7. \A h \in 1..Len(keys) : Here(h) => h = p
    <3> SUFFICES ASSUME NEW h \in 1..Len(keys), Here(h), h # p
                 PROVE  FALSE
      OBVIOUS
    <3>1. CASE h < p
      <4>1. h + 1 \in 1..Len(keys) /\ h + 1 < i /\ h # Len(keys)
        BY <3>1, <2>3, <1>0
      <4>2. keys[h + 1] < key /\ keys[h + 1] \in Nat
        BY <4>1, <1>0
      <4> QED
        BY <4>1, <4>2
    <3>2. CASE p < h
      <4>1. p \in 1..(h - 1) /\ p # Len(keys)
        BY <3>2, <2>3, <1>0
      <4>2. ~(keys[p] <= key /\ key <= keys[p + 1])
        BY <4>1
      <4> QED
        BY <4>1, <4>2, <2>4, <2>3, <1>0
    <3> QED
      BY <3>1, <3>2, <2>3, <1>0
  <2>8. Slot(keys, key) = 1 + CHOOSE h \in 1..Len(keys) : Here(h)
    BY <1>3 DEF Slot
  <2> HIDE DEF Here
  <2>9. (CHOOSE h \in 1..Len(keys) : Here(h)) = p
    BY <2>3, <2>6, <2>7
  <2>10. Slot(keys, key) = 1 + p
    BY <2>8, <2>9, Zenon
  <2> QED
    BY <2>3, <2>10
<1> QED
  BY <1>1, <1>2, <1>3

-----------------------------------------------------------------------------
(* Rows of entries: what Tiled and Joined say of a map in base order.       *)

Row(v) ==
  /\ \A i \in 1..Len(v) : v[i].len > 0 /\ v[i].start + v[i].len < Word
  /\ v[1].start = 1 /\ v[Len(v)].start + v[Len(v)].len = MediaSize
  /\ \A i \in 1..(Len(v) - 1) : v[i].start + v[i].len = v[i + 1].start

Loose(v) == \A i \in 1..(Len(v) - 1) : ~IsFree(v[i]) \/ ~IsFree(v[i + 1])

\* w is v with the entries lo to top in the place of lo to hi.
Patched(v, w, lo, hi, top) ==
  /\ lo \in 1..Len(v) /\ hi \in lo..Len(v) /\ top \in lo..Len(w)
  /\ Len(w) - top = Len(v) - hi
  /\ \A j \in 1..(lo - 1) : w[j] = v[j]
  /\ \A j \in (top + 1)..Len(w) : w[j] = v[j - top + hi]

LEMMA EntryFacts ==
  ASSUME NEW v \in Seq(Entry), NEW i \in 1..Len(v)
  PROVE  v[i] \in Entry /\ v[i].start \in Nat /\ v[i].len \in Nat /\ v[i].type \in Types
<1>1. v[i] \in Entry
  OBVIOUS
<1>2. Word \in Nat
  BY SizesAssumption
<1> QED
  BY <1>1, <1>2 DEF Entry

(* The starts of a row go up.                                               *)
LEMMA RowGoesUp ==
  ASSUME NEW v \in Seq(Entry), Row(v), NEW i \in 1..Len(v), NEW j \in 1..Len(v), i < j
  PROVE  v[i].start + v[i].len <= v[j].start
<1> DEFINE Bad == {b \in 1..Len(v) : i < b /\ ~(v[i].start + v[i].len <= v[b].start)}
<1>1. SUFFICES ASSUME Bad # {} PROVE FALSE
  OBVIOUS
<1>2. Bad \subseteq Nat
  OBVIOUS
<1>3. PICK b \in Bad : \A c \in Bad : b <= c
  <2> HIDE DEF Bad
  <2> QED
    BY <1>1, <1>2, LeastNumber
<1>4. b \in 1..Len(v) /\ i < b /\ ~(v[i].start + v[i].len <= v[b].start)
  OBVIOUS
<1>5. b - 1 \in 1..Len(v) /\ b - 1 \notin Bad /\ b - 1 \in 1..(Len(v) - 1)
  <2>1. b - 1 \notin Bad
    <3> HIDE DEF Bad
    <3> QED
      BY <1>3, <1>4
  <2> QED
    BY <2>1, <1>4
<1> HIDE DEF Bad
<1>6. v[b - 1].start + v[b - 1].len = v[b].start /\ v[b - 1].len > 0
  <2>1. b - 1 + 1 = b
    BY <1>4
  <2> QED
    BY <2>1, <1>5 DEF Row
<1>7. /\ v[b].start \in Nat /\ v[b - 1].start \in Nat /\ v[b - 1].len \in Nat
      /\ v[i].start \in Nat /\ v[i].len \in Nat
  BY <1>4, <1>5, EntryFacts
<1>8. i < b - 1
  <2>1. CASE i = b - 1
    BY <2>1, <1>4, <1>6, <1>7
  <2> QED
    BY <2>1, <1>4
<1>9. v[i].start + v[i].len <= v[b - 1].start
  BY <1>5, <1>8 DEF Bad
<1> QED
  BY <1>4, <1>6, <1>7, <1>9, SMTT(20)

(* A patch that fits keeps a row a row.                                     *)
LEMMA RowPatch ==
  ASSUME NEW v \in Seq(Entry), NEW w \in Seq(Entry), Row(v),
         NEW lo, NEW hi, NEW top, Patched(v, w, lo, hi, top),
         \A j \in lo..top : w[j].len > 0 /\ w[j].start + w[j].len < Word,
         \A j \in lo..(top - 1) : w[j].start + w[j].len = w[j + 1].start,
         w[lo].start = v[lo].start,
         w[top].start + w[top].len = v[hi].start + v[hi].len
  PROVE  Row(w)
<1>1. /\ Len(v) \in Nat /\ Len(w) \in Nat /\ lo \in 1..Len(v) /\ hi \in lo..Len(v)
      /\ top \in lo..Len(w) /\ Len(w) - top = Len(v) - hi
      /\ lo \in Nat /\ hi \in Nat /\ top \in Nat
  BY DEF Patched
<1>2. /\ \A j \in 1..(lo - 1) : w[j] = v[j]
      /\ \A j \in (top + 1)..Len(w) : w[j] = v[j - top + hi]
  BY DEF Patched
<1>3. \A i \in 1..Len(w) : w[i].len > 0 /\ w[i].start + w[i].len < Word
  <2> TAKE i \in 1..Len(w)
  <2>1. CASE i < lo
    <3>1. i \in 1..(lo - 1) /\ i \in 1..Len(v)
      BY <2>1, <1>1
    <3> QED
      BY <3>1, <1>2 DEF Row
  <2>2. CASE i > top
    <3>1. i \in (top + 1)..Len(w) /\ i - top + hi \in 1..Len(v)
      BY <2>2, <1>1
    <3> QED
      BY <3>1, <1>2 DEF Row
  <2>3. CASE i \in lo..top
    BY <2>3
  <2> QED
    BY <2>1, <2>2, <2>3, <1>1
<1>4. w[1].start = 1
  <2>1. v[1].start = 1
    BY DEF Row
  <2>2. CASE lo = 1
    BY <2>1, <2>2
  <2>3. CASE lo # 1
    <3>1. 1 \in 1..(lo - 1)
      BY <2>3, <1>1
    <3> QED
      BY <2>1, <3>1, <1>2
  <2> QED
    BY <2>2, <2>3
<1>5. w[Len(w)].start + w[Len(w)].len = MediaSize
  <2>1. v[Len(v)].start + v[Len(v)].len = MediaSize
    BY DEF Row
  <2>2. CASE top = Len(w)
    <3>1. hi = Len(v)
      BY <2>2, <1>1
    <3> QED
      BY <2>1, <2>2, <3>1
  <2>3. CASE top # Len(w)
    <3>1. Len(w) \in (top + 1)..Len(w) /\ Len(w) - top + hi = Len(v)
      BY <2>3, <1>1
    <3> QED
      BY <2>1, <3>1, <1>2
  <2> QED
    BY <2>2, <2>3
<1>6. \A i \in 1..(Len(w) - 1) : w[i].start + w[i].len = w[i + 1].start
  <2> TAKE i \in 1..(Len(w) - 1)
  <2>0. i \in Nat /\ i <= Len(w) - 1
    BY <1>1
  <2>1. CASE i + 1 < lo
    <3>1. i \in 1..(lo - 1) /\ i + 1 \in 1..(lo - 1) /\ i \in 1..(Len(v) - 1)
      BY <2>0, <2>1, <1>1
    <3> QED
      BY <3>1, <1>2 DEF Row
  <2>2. CASE i + 1 = lo
    <3>1. i \in 1..(lo - 1) /\ i \in 1..(Len(v) - 1)
      BY <2>0, <2>2, <1>1
    <3>2. w[i] = v[i] /\ v[i].start + v[i].len = v[i + 1].start
      BY <3>1, <1>2 DEF Row
    <3> QED
      BY <2>2, <3>2
  <2>3. CASE i \in lo..(top - 1)
    BY <2>3
  <2>4. CASE i = top
    <3>1. i + 1 \in (top + 1)..Len(w) /\ (i + 1) - top + hi = hi + 1 /\ hi \in 1..(Len(v) - 1)
      BY <2>0, <2>4, <1>1
    <3>2. w[i + 1] = v[(i + 1) - top + hi]
      BY <3>1, <1>2
    <3>3. v[hi].start + v[hi].len = v[hi + 1].start
      BY <3>1 DEF Row
    <3> QED
      BY <2>4, <3>1, <3>2, <3>3
  <2>5. CASE i > top
    <3>1. /\ i \in (top + 1)..Len(w) /\ i + 1 \in (top + 1)..Len(w)
          /\ i - top + hi \in 1..(Len(v) - 1) /\ (i + 1) - top + hi = (i - top + hi) + 1
      BY <2>0, <2>5, <1>1
    <3>2. w[i] = v[i - top + hi] /\ w[i + 1] = v[(i - top + hi) + 1]
      <4>1. w[i] = v[i - top + hi] /\ w[i + 1] = v[(i + 1) - top + hi]
        BY <3>1, <1>2
      <4> QED
        BY <4>1, <3>1
    <3>3. v[i - top + hi].start + v[i - top + hi].len = v[(i - top + hi) + 1].start
      BY <3>1 DEF Row
    <3> QED
      BY <3>2, <3>3
  <2> QED
    BY <2>0, <2>1, <2>2, <2>3, <2>4, <2>5, <1>1
<1> QED
  BY <1>3, <1>4, <1>5, <1>6 DEF Row

(* So does one that brings no free entry next to another.                   *)
LEMMA LoosePatch ==
  ASSUME NEW v \in Seq(Entry), NEW w \in Seq(Entry), Loose(v),
         NEW lo, NEW hi, NEW top, Patched(v, w, lo, hi, top),
         \A j \in lo..(top - 1) : ~IsFree(w[j]) \/ ~IsFree(w[j + 1]),
         lo > 1 => ~IsFree(v[lo - 1]) \/ ~IsFree(w[lo]),
         hi < Len(v) => ~IsFree(w[top]) \/ ~IsFree(v[hi + 1])
  PROVE  Loose(w)
<1>1. /\ Len(v) \in Nat /\ Len(w) \in Nat /\ lo \in 1..Len(v) /\ hi \in lo..Len(v)
      /\ top \in lo..Len(w) /\ Len(w) - top = Len(v) - hi
      /\ lo \in Nat /\ hi \in Nat /\ top \in Nat
  BY DEF Patched
<1>2. /\ \A j \in 1..(lo - 1) : w[j] = v[j]
      /\ \A j \in (top + 1)..Len(w) : w[j] = v[j - top + hi]
  BY DEF Patched
<1>3. ASSUME NEW i \in 1..(Len(w) - 1)
      PROVE  ~IsFree(w[i]) \/ ~IsFree(w[i + 1])
  <2>0. i \in Nat /\ i <= Len(w) - 1
    BY <1>1
  <2>1. CASE i + 1 < lo
    <3>1. i \in 1..(lo - 1) /\ i + 1 \in 1..(lo - 1) /\ i \in 1..(Len(v) - 1)
      BY <2>0, <2>1, <1>1
    <3> QED
      BY <3>1, <1>2 DEF Loose
  <2>2. CASE i + 1 = lo
    <3>1. i \in 1..(lo - 1) /\ i = lo - 1 /\ lo > 1
      BY <2>0, <2>2, <1>1
    <3>2. w[i] = v[lo - 1]
      BY <3>1, <1>2
    <3> QED
      BY <2>2, <3>1, <3>2
  <2>3. CASE i \in lo..(top - 1)
    BY <2>3
  <2>4. CASE i = top
    <3>1. i + 1 \in (top + 1)..Len(w) /\ (i + 1) - top + hi = hi + 1 /\ hi < Len(v)
      BY <2>0, <2>4, <1>1
    <3>2. w[i + 1] = v[(i + 1) - top + hi]
      BY <3>1, <1>2
    <3> QED
      BY <2>4, <3>1, <3>2
  <2>5. CASE i > top
    <3>1. /\ i \in (top + 1)..Len(w) /\ i + 1 \in (top + 1)..Len(w)
          /\ i - top + hi \in 1..(Len(v) - 1) /\ (i + 1) - top + hi = (i - top + hi) + 1
      BY <2>0, <2>5, <1>1
    <3>2. w[i] = v[i - top + hi] /\ w[i + 1] = v[(i - top + hi) + 1]
      <4>1. w[i] = v[i - top + hi] /\ w[i + 1] = v[(i + 1) - top + hi]
        BY <3>1, <1>2
      <4> QED
        BY <4>1, <3>1
    <3> QED
      BY <3>1, <3>2 DEF Loose
  <2> QED
    BY <2>0, <2>1, <2>2, <2>3, <2>4, <2>5, <1>1
<1> QED
  BY <1>3 DEF Loose

-----------------------------------------------------------------------------
(* A session's map: two orders of the same entries.                         *)

Session ==
  [parts : Seq(Entry), base : Seq(Nat), max : Nat \cup {-1}, changed : BOOLEAN, written : BOOLEAN]

Ordered(m) ==
  /\ m \in Session /\ Len(m.base) = Len(m.parts)
  /\ \A i \in 1..Len(m.base) : m.base[i] \in 1..Len(m.parts)
  /\ \A i, j \in 1..Len(m.base) : m.base[i] = m.base[j] => i = j
  /\ \A k \in 1..Len(m.parts) : \E i \in 1..Len(m.base) : m.base[i] = k

\* The entries in base order, and where they start.
ViewOf(m) == [i \in 1..Len(m.base) |-> m.parts[m.base[i]]]
KeysOf(m) == Starts(m.parts, m.base)

LEMMA SessionFacts ==
  ASSUME NEW m, Ordered(m)
  PROVE  /\ m \in Session /\ m.parts \in Seq(Entry) /\ m.base \in Seq(Nat)
         /\ Len(m.parts) \in Nat /\ Len(m.base) = Len(m.parts)
         /\ \A i \in 1..Len(m.base) : m.base[i] \in 1..Len(m.parts)
         /\ ViewOf(m) \in Seq(Entry) /\ Len(ViewOf(m)) = Len(m.base)
         /\ \A i \in 1..Len(m.base) : ViewOf(m)[i] = m.parts[m.base[i]]
         /\ KeysOf(m) \in Seq(Nat) /\ Len(KeysOf(m)) = Len(m.base)
         /\ \A i \in 1..Len(m.base) : KeysOf(m)[i] = ViewOf(m)[i].start
<1>1. /\ m \in Session /\ m.parts \in Seq(Entry) /\ m.base \in Seq(Nat)
      /\ Len(m.parts) \in Nat /\ Len(m.base) = Len(m.parts)
      /\ \A i \in 1..Len(m.base) : m.base[i] \in 1..Len(m.parts)
  BY DEF Ordered, Session
<1>2. \A i \in 1..Len(m.base) : m.parts[m.base[i]] \in Entry /\ m.parts[m.base[i]].start \in Nat
  BY <1>1, EntryFacts
<1>3. /\ ViewOf(m) \in Seq(Entry) /\ Len(ViewOf(m)) = Len(m.base)
      /\ \A i \in 1..Len(m.base) : ViewOf(m)[i] = m.parts[m.base[i]]
  BY <1>1, <1>2 DEF ViewOf
<1>4. /\ KeysOf(m) \in Seq(Nat) /\ Len(KeysOf(m)) = Len(m.base)
      /\ \A i \in 1..Len(m.base) : KeysOf(m)[i] = m.parts[m.base[i]].start
  BY <1>1, <1>2 DEF KeysOf, Starts
<1> QED
  BY <1>1, <1>3, <1>4

(* Tiled and Joined are about the view.                                     *)
LEMMA ViewSays ==
  ASSUME NEW m, Ordered(m), Len(m.parts) > 0
  PROVE  (Tiled(m) <=> Row(ViewOf(m))) /\ (Joined(m) <=> Loose(ViewOf(m)))
<1> DEFINE v == ViewOf(m)
           n == Len(m.base)
           e(i) == m.parts[m.base[i]]
<1>1. n \in Nat /\ n > 0 /\ Len(v) = n /\ \A i \in 1..n : v[i] = e(i)
  BY SessionFacts
<1>2. Tiled(m) <=> /\ \A i \in 1..n : e(i).len > 0 /\ e(i).start + e(i).len < Word
                   /\ e(1).start = 1 /\ e(n).start + e(n).len = MediaSize
                   /\ \A i \in 1..(n - 1) : e(i).start + e(i).len = e(i + 1).start
  BY DEF Tiled
<1>3. Joined(m) <=> \A i \in 1..(n - 1) : ~IsFree(e(i)) \/ ~IsFree(e(i + 1))
  BY DEF Joined
<1>4. 1 \in 1..n /\ n \in 1..n /\ \A i \in 1..(n - 1) : i \in 1..n /\ i + 1 \in 1..n
  BY <1>1
<1> HIDE DEF v, n, e
<1>5. Row(v) <=> /\ \A i \in 1..n : e(i).len > 0 /\ e(i).start + e(i).len < Word
                 /\ e(1).start = 1 /\ e(n).start + e(n).len = MediaSize
                 /\ \A i \in 1..(n - 1) : e(i).start + e(i).len = e(i + 1).start
  BY <1>1, <1>4 DEF Row
<1>6. Loose(v) <=> \A i \in 1..(n - 1) : ~IsFree(e(i)) \/ ~IsFree(e(i + 1))
  BY <1>1, <1>4 DEF Loose
<1> QED
  BY <1>2, <1>3, <1>5, <1>6 DEF v

(* An insertion puts the entry into the view at its slot.                   *)
LEMMA InsertFacts ==
  ASSUME NEW m, Ordered(m), NEW k \in 1..(Len(m.parts) + 1), NEW e \in Entry
  PROVE  LET s == Slot(KeysOf(m), e.start)
             x == Insert(m, k, e)
         IN  /\ s \in 1..(Len(m.parts) + 1)
             /\ Ordered(x) /\ Len(x.parts) = Len(m.parts) + 1
             /\ \A j \in 1..(Len(m.parts) + 1) :
                  ViewOf(x)[j] = IF j < s THEN ViewOf(m)[j] ELSE IF j = s THEN e ELSE ViewOf(m)[j - 1]
<1> DEFINE s == Slot(KeysOf(m), e.start)
           x == Insert(m, k, e)
           n == Len(m.parts)
           lifted == Lifted(m.base, k)
           parts == InsertAt(m.parts, k, e)
           base == InsertAt(lifted, Slot(Starts(parts, lifted), e.start), k)
           max == IF m.max < 0 /\ e.type = "map" THEN e.len ELSE m.max
           Old(j) == IF j < s THEN j ELSE j - 1
<1>1. /\ m \in Session /\ m.parts \in Seq(Entry) /\ m.base \in Seq(Nat) /\ n \in Nat /\ Len(m.base) = n
      /\ \A i \in 1..n : m.base[i] \in 1..n /\ m.base[i] \in Nat
      /\ k \in Nat /\ k \in 1..(n + 1)
  BY SessionFacts
<1>2. /\ \A i, j \in 1..n : m.base[i] = m.base[j] => i = j
      /\ \A h \in 1..n : \E i \in 1..n : m.base[i] = h
  BY <1>1 DEF Ordered
<1>3. /\ parts \in Seq(Entry) /\ Len(parts) = n + 1
      /\ \A j \in 1..(n + 1) : parts[j] = IF j < k THEN m.parts[j] ELSE IF j = k THEN e ELSE m.parts[j - 1]
  <2>1. m.parts \in Seq(Entry)
    BY <1>1
  <2> QED
    BY <2>1, InsertAtFacts, SMTT(20)
<1>4. /\ lifted \in Seq(Nat) /\ Len(lifted) = n
      /\ \A i \in 1..n : lifted[i] = IF m.base[i] >= k THEN m.base[i] + 1 ELSE m.base[i]
  BY <1>1 DEF Lifted
<1> HIDE DEF lifted, parts
<1>5. \A i \in 1..n : lifted[i] \in 1..(n + 1) /\ lifted[i] # k /\ parts[lifted[i]] = m.parts[m.base[i]]
  <2> TAKE i \in 1..n
  <2>1. CASE m.base[i] >= k
    <3>1. lifted[i] = m.base[i] + 1 /\ lifted[i] \in 1..(n + 1) /\ ~(lifted[i] < k) /\ lifted[i] # k
      BY <2>1, <1>1, <1>4, SMTT(20)
    <3>2. parts[lifted[i]] = m.parts[lifted[i] - 1]
      BY <3>1, <1>3
    <3> QED
      BY <3>1, <3>2, <1>1
  <2>2. CASE ~(m.base[i] >= k)
    <3>1. lifted[i] = m.base[i] /\ lifted[i] \in 1..(n + 1) /\ lifted[i] < k /\ lifted[i] # k
      BY <2>2, <1>1, <1>4
    <3> QED
      BY <3>1, <1>3
  <2> QED
    BY <2>1, <2>2
<1>6. Starts(parts, lifted) = KeysOf(m)
  <2>1. \A i \in 1..n : parts[lifted[i]].start = m.parts[m.base[i]].start
    BY <1>5
  <2> QED
    BY <2>1, <1>1, <1>4 DEF Starts, KeysOf
<1>7. s \in 1..(n + 1) /\ s \in Nat
  <2>1. KeysOf(m) \in Seq(Nat) /\ Len(KeysOf(m)) = n
    BY <1>1, SessionFacts
  <2>2. e.start \in Nat
    BY SizesAssumption DEF Entry
  <2>3. s \in 1..(n + 1)
    BY <2>1, <2>2, SlotRange
  <2> QED
    BY <2>3, <1>1
<1>8. base = InsertAt(lifted, s, k)
  BY <1>6
<1> HIDE DEF s, base
<1>9. /\ base \in Seq(Nat) /\ Len(base) = n + 1
      /\ \A j \in 1..(n + 1) : base[j] = IF j < s THEN lifted[j] ELSE IF j = s THEN k ELSE lifted[j - 1]
  <2>1. lifted \in Seq(Nat) /\ Len(lifted) = n /\ k \in Nat /\ s \in 1..(Len(lifted) + 1)
    BY <1>1, <1>4, <1>7
  <2> HIDE DEF n
  <2> QED
    <3>1. /\ InsertAt(lifted, s, k) \in Seq(Nat) /\ Len(InsertAt(lifted, s, k)) = Len(lifted) + 1
          /\ \A j \in 1..(Len(lifted) + 1) :
               InsertAt(lifted, s, k)[j] = IF j < s THEN lifted[j] ELSE IF j = s THEN k ELSE lifted[j - 1]
      BY ONLY <2>1, InsertAtNats, ZenonT(30)
    <3> QED
      BY <3>1, <2>1, <1>8, Zenon
<1>10. \A j \in 1..(n + 1) : j # s => Old(j) \in 1..n /\ base[j] = lifted[Old(j)]
  <2> TAKE j \in 1..(n + 1)
  <2> HAVE j # s
  <2>1. j \in Nat /\ n \in Nat /\ s \in Nat
    BY <1>1, <1>7
  <2>2. CASE j < s
    BY <2>1, <2>2, <1>7, <1>9
  <2>3. CASE ~(j < s)
    BY <2>1, <2>3, <1>7, <1>9
  <2> QED
    BY <2>2, <2>3
<1>11. max \in Nat \cup {-1}
  <2>1. e.len \in Nat /\ m.max \in Nat \cup {-1}
    BY <1>1, SizesAssumption DEF Entry, Session
  <2> QED
    BY <2>1
<1>12. /\ x \in Session /\ x.parts = parts /\ x.base = base
       /\ x = [m EXCEPT !.parts = parts, !.base = base, !.max = max]
  <2>1. x = [m EXCEPT !.parts = parts, !.base = base, !.max = max]
    BY DEF Insert, lifted, parts, base
  <2> HIDE DEF x, max
  <2> QED
    BY <2>1, <1>1, <1>3, <1>9, <1>11 DEF Session
<1> HIDE DEF x, Old
<1>13. \A j \in 1..(n + 1) : base[j] \in 1..(n + 1)
  <2> TAKE j \in 1..(n + 1)
  <2>1. CASE j = s
    BY <2>1, <1>1, <1>7, <1>9
  <2>2. CASE j # s
    BY <2>2, <1>5, <1>10
  <2> QED
    BY <2>1, <2>2
<1>14. ASSUME NEW i \in 1..(n + 1), NEW j \in 1..(n + 1), base[i] = base[j]
       PROVE  i = j
  <2>1. base[s] = k
    BY <1>7, <1>9
  <2>2. CASE i = s \/ j = s
    BY <2>1, <2>2, <1>5, <1>10, <1>14
  <2>3. CASE i # s /\ j # s
    <3>1. /\ Old(i) \in 1..n /\ Old(j) \in 1..n /\ lifted[Old(i)] = lifted[Old(j)]
      BY <2>3, <1>10, <1>14
    <3>2. m.base[Old(i)] = m.base[Old(j)]
      <4>1. m.base[Old(i)] \in Nat /\ m.base[Old(j)] \in Nat
        BY <3>1, <1>1
      <4>2. /\ lifted[Old(i)] = IF m.base[Old(i)] >= k THEN m.base[Old(i)] + 1 ELSE m.base[Old(i)]
            /\ lifted[Old(j)] = IF m.base[Old(j)] >= k THEN m.base[Old(j)] + 1 ELSE m.base[Old(j)]
        BY <3>1, <1>4
      <4>3. k \in Nat
        BY <1>1
      <4> QED
        BY <4>1, <4>2, <4>3, <3>1
    <3>3. Old(i) = Old(j)
      BY <3>1, <3>2, <1>2
    <3> QED
      BY <3>3, <2>3, <1>1, <1>7 DEF Old
  <2> QED
    BY <2>2, <2>3
<1>15. ASSUME NEW h \in 1..(n + 1)
       PROVE  \E j \in 1..(n + 1) : base[j] = h
  <2>1. CASE h = k
    BY <2>1, <1>7, <1>9
  <2>2. CASE h # k
    <3> DEFINE g == IF h < k THEN h ELSE h - 1
    <3>1. g \in 1..n /\ h = IF g >= k THEN g + 1 ELSE g
      BY <2>2, <1>1
    <3> HIDE DEF g
    <3>2. PICK i \in 1..n : m.base[i] = g
      BY <3>1, <1>2
    <3>3. lifted[i] = h
      BY <3>1, <3>2, <1>4
    <3> DEFINE j == IF i < s THEN i ELSE i + 1
    <3>4. j \in 1..(n + 1) /\ j # s /\ Old(j) = i
      BY <1>1, <1>7, <3>2 DEF Old
    <3> HIDE DEF j
    <3> QED
      BY <3>3, <3>4, <1>10
  <2> QED
    BY <2>1, <2>2
<1>16. Ordered(x)
  BY <1>3, <1>9, <1>12, <1>13, <1>14, <1>15 DEF Ordered
<1>17. ASSUME NEW j \in 1..(n + 1)
       PROVE  ViewOf(x)[j] = IF j < s THEN ViewOf(m)[j] ELSE IF j = s THEN e ELSE ViewOf(m)[j - 1]
  <2>1. ViewOf(x)[j] = parts[base[j]]
    <3>1. \A i \in 1..Len(x.base) : ViewOf(x)[i] = x.parts[x.base[i]]
      BY <1>16, SessionFacts
    <3>2. Len(x.base) = n + 1 /\ x.parts = parts /\ x.base = base
      BY <1>9, <1>12
    <3> QED
      BY <3>1, <3>2
  <2>2. \A i \in 1..n : ViewOf(m)[i] = m.parts[m.base[i]]
    BY <1>1, SessionFacts
  <2>3. CASE j = s
    BY <2>1, <2>3, <1>3, <1>7, <1>9, <1>1
  <2>4. CASE j # s
    <3>1. Old(j) \in 1..n /\ base[j] = lifted[Old(j)]
      BY <2>4, <1>10
    <3>2. ViewOf(x)[j] = ViewOf(m)[Old(j)]
      BY <3>1, <2>1, <2>2, <1>5
    <3> QED
      BY <3>2, <2>4 DEF Old
  <2> QED
    BY <2>3, <2>4
<1> QED
  BY <1>3, <1>7, <1>12, <1>16, <1>17 DEF s, x

(* Where an entry is in base order.                                         *)
LEMMA AtFacts ==
  ASSUME NEW m, Ordered(m), NEW k \in 1..Len(m.parts)
  PROVE  /\ At(m.base, k) \in 1..Len(m.parts) /\ m.base[At(m.base, k)] = k
         /\ \A i \in 1..Len(m.parts) : m.base[i] = k => i = At(m.base, k)
<1> DEFINE Here(i) == m.base[i] = k
           p == At(m.base, k)
<1>1. Len(m.base) = Len(m.parts)
  BY DEF Ordered
<1>2. \E i \in 1..Len(m.base) : Here(i)
  BY DEF Ordered
<1>3. p = CHOOSE i \in 1..Len(m.base) : Here(i)
  BY DEF At
<1> HIDE DEF Here, p
<1>4. p \in 1..Len(m.base) /\ Here(p)
  BY <1>2, <1>3
<1>5. m.base[p] = k
  BY <1>4 DEF Here
<1>6. \A i \in 1..Len(m.parts) : m.base[i] = k => i = p
  BY <1>1, <1>4, <1>5 DEF Ordered
<1> QED
  BY <1>1, <1>4, <1>5, <1>6 DEF p

(* Another entry in the place of one.                                       *)
LEMMA SetFacts ==
  ASSUME NEW m, Ordered(m), NEW k \in 1..Len(m.parts), NEW e \in Entry
  PROVE  LET x == [m EXCEPT !.parts[k] = e]
         IN  /\ Ordered(x) /\ Len(x.parts) = Len(m.parts) /\ x.base = m.base
             /\ \A j \in 1..Len(m.parts) :
                  ViewOf(x)[j] = IF j = At(m.base, k) THEN e ELSE ViewOf(m)[j]
<1> DEFINE x == [m EXCEPT !.parts[k] = e]
           n == Len(m.parts)
           p == At(m.base, k)
           parts == [m.parts EXCEPT ![k] = e]
<1>1. /\ m \in Session /\ m.parts \in Seq(Entry) /\ m.base \in Seq(Nat) /\ n \in Nat /\ Len(m.base) = n
      /\ \A i \in 1..n : m.base[i] \in 1..n
      /\ \A i \in 1..n : ViewOf(m)[i] = m.parts[m.base[i]]
  BY SessionFacts
<1>2. /\ parts \in Seq(Entry) /\ Len(parts) = n
      /\ \A i \in 1..n : parts[i] = IF i = k THEN e ELSE m.parts[i]
  BY <1>1
<1>3. x = [m EXCEPT !.parts = parts]
  BY <1>1 DEF Session
<1> HIDE DEF x, parts
<1>4. x \in Session /\ x.parts = parts /\ x.base = m.base
  BY <1>1, <1>2, <1>3 DEF Session
<1>5. Ordered(x)
  BY <1>1, <1>2, <1>4 DEF Ordered
<1>6. ASSUME NEW j \in 1..n
      PROVE  ViewOf(x)[j] = IF j = p THEN e ELSE ViewOf(m)[j]
  <2>1. ViewOf(x)[j] = parts[m.base[j]]
    <3>1. \A i \in 1..Len(x.base) : ViewOf(x)[i] = x.parts[x.base[i]]
      BY <1>5, SessionFacts
    <3> QED
      BY <3>1, <1>1, <1>4
  <2>2. m.base[j] = k <=> j = p
    BY AtFacts
  <2> QED
    BY <2>1, <2>2, <1>1, <1>2
<1> QED
  BY <1>1, <1>2, <1>4, <1>5, <1>6 DEF x

(* The flags and the size of the map are no part of the orders.             *)
LEMMA FlagFacts ==
  ASSUME NEW m, Ordered(m), NEW x \in Session, x.parts = m.parts, x.base = m.base
  PROVE  Ordered(x) /\ ViewOf(x) = ViewOf(m)
BY DEF Ordered, ViewOf

(* A deletion takes the entry out of the view.                              *)
LEMMA DeleteFacts ==
  ASSUME NEW m, Ordered(m), NEW k \in 1..Len(m.parts)
  PROVE  LET p == At(m.base, k)
             x == Delete(m, k)
         IN  /\ Ordered(x) /\ Len(x.parts) = Len(m.parts) - 1
             /\ \A j \in 1..(Len(m.parts) - 1) :
                  /\ ViewOf(x)[j] = IF j < p THEN ViewOf(m)[j] ELSE ViewOf(m)[j + 1]
                  /\ j < p => x.base[j] = IF m.base[j] > k THEN m.base[j] - 1 ELSE m.base[j]
                  /\ ~(j < p) => x.base[j] = IF m.base[j + 1] > k THEN m.base[j + 1] - 1 ELSE m.base[j + 1]
<1> DEFINE p == At(m.base, k)
           x == Delete(m, k)
           n == Len(m.parts)
           others == RemoveAt(m.base, p)
           parts == RemoveAt(m.parts, k)
           base == BaseWithout(m.base, k)
           Old(j) == IF j < p THEN j ELSE j + 1
           Down(h) == IF h > k THEN h - 1 ELSE h
<1>1. /\ m \in Session /\ m.parts \in Seq(Entry) /\ m.base \in Seq(Nat) /\ n \in Nat /\ Len(m.base) = n
      /\ \A i \in 1..n : m.base[i] \in 1..n /\ m.base[i] \in Nat
      /\ k \in Nat /\ k \in 1..n
  BY SessionFacts
<1>2. /\ \A i, j \in 1..n : m.base[i] = m.base[j] => i = j
      /\ \A h \in 1..n : \E i \in 1..n : m.base[i] = h
  BY <1>1 DEF Ordered
<1>3. p \in 1..n /\ p \in Nat /\ \A i \in 1..n : m.base[i] = k <=> i = p
  BY AtFacts
<1>4. /\ parts \in Seq(Entry) /\ Len(parts) = n - 1
      /\ \A j \in 1..(n - 1) : parts[j] = IF j < k THEN m.parts[j] ELSE m.parts[j + 1]
  <2>1. m.parts \in Seq(Entry)
    BY <1>1
  <2> QED
    BY <2>1, RemoveAtFacts
<1> HIDE DEF p
<1>5. /\ others \in Seq(Nat) /\ Len(others) = n - 1
      /\ \A j \in 1..(n - 1) : others[j] = m.base[Old(j)]
  <2>1. m.base \in Seq(Nat) /\ p \in 1..Len(m.base)
    BY <1>1, <1>3
  <2>2. /\ others \in Seq(Nat) /\ Len(others) = Len(m.base) - 1
        /\ \A j \in 1..(Len(m.base) - 1) : others[j] = IF j < p THEN m.base[j] ELSE m.base[j + 1]
    BY ONLY <2>1, RemoveAtNats
  <2> HIDE DEF others
  <2> QED
    BY <2>2, <1>1
<1>6. \A j \in 1..(n - 1) : Old(j) \in 1..n /\ Old(j) # p /\ m.base[Old(j)] # k
  <2> TAKE j \in 1..(n - 1)
  <2>1. Old(j) \in 1..n /\ Old(j) # p
    BY <1>1, <1>3
  <2> QED
    BY <2>1, <1>3
<1> HIDE DEF Old, parts, others
<1>7. \A h \in 1..n : h # k => Down(h) \in 1..(n - 1) /\ parts[Down(h)] = m.parts[h]
  <2> TAKE h \in 1..n
  <2> HAVE h # k
  <2>1. h \in Nat
    BY <1>1
  <2>2. CASE h > k
    <3>1. Down(h) = h - 1 /\ h - 1 \in 1..(n - 1) /\ ~(h - 1 < k) /\ (h - 1) + 1 = h
      BY <2>1, <2>2, <1>1
    <3> QED
      BY <3>1, <1>4
  <2>3. CASE ~(h > k)
    <3>1. Down(h) = h /\ h \in 1..(n - 1) /\ h < k
      BY <2>1, <2>3, <1>1
    <3> QED
      BY <3>1, <1>4
  <2> QED
    BY <2>2, <2>3
<1>8. base = [j \in 1..(n - 1) |-> Down(others[j])]
  BY <1>5 DEF BaseWithout, others, p
<1> HIDE DEF base
<1>9. \A j \in 1..(n - 1) : /\ base[j] = Down(m.base[Old(j)]) /\ base[j] \in 1..(n - 1)
                            /\ parts[base[j]] = m.parts[m.base[Old(j)]]
  <2> TAKE j \in 1..(n - 1)
  <2>1. base[j] = Down(m.base[Old(j)])
    BY <1>5, <1>8
  <2>2. m.base[Old(j)] \in 1..n /\ m.base[Old(j)] # k
    BY <1>1, <1>6
  <2> HIDE DEF Down
  <2> QED
    BY <2>1, <2>2, <1>7
<1>10. base \in Seq(Nat) /\ Len(base) = n - 1
  <2>1. \A j \in 1..(n - 1) : base[j] \in Nat
    BY <1>9
  <2>2. n - 1 \in Nat
    BY <1>1, <1>3
  <2> QED
    BY <2>1, <2>2, <1>8, SMTT(20)
<1>11. x \in Session /\ x.parts = parts /\ x.base = base /\ x.max = m.max
  <2>1. x = [m EXCEPT !.parts = parts, !.base = base]
    BY <1>1 DEF Delete, parts, base, Session
  <2> HIDE DEF x
  <2> QED
    BY <2>1, <1>1, <1>4, <1>10 DEF Session
<1> HIDE DEF x
<1>12. ASSUME NEW i \in 1..(n - 1), NEW j \in 1..(n - 1), base[i] = base[j]
       PROVE  i = j
  <2>1. /\ m.base[Old(i)] \in Nat /\ m.base[Old(i)] # k
        /\ m.base[Old(j)] \in Nat /\ m.base[Old(j)] # k
    BY <1>1, <1>6
  <2>2. Down(m.base[Old(i)]) = Down(m.base[Old(j)])
    BY <1>9, <1>12
  <2>3. m.base[Old(i)] = m.base[Old(j)]
    <3>1. \A a, b \in Nat : a # k /\ b # k /\ Down(a) = Down(b) => a = b
      BY <1>1
    <3> HIDE DEF Down
    <3> QED
      BY <2>1, <2>2, <3>1
  <2>4. Old(i) = Old(j)
    BY <2>3, <1>2, <1>6
  <2> QED
    BY <2>4, <1>1, <1>3 DEF Old
<1>13. ASSUME NEW h \in 1..(n - 1)
       PROVE  \E j \in 1..(n - 1) : base[j] = h
  <2> DEFINE g == IF h < k THEN h ELSE h + 1
  <2>1. g \in 1..n /\ g # k /\ Down(g) = h
    BY <1>1
  <2> HIDE DEF g, Down
  <2>2. PICK i \in 1..n : m.base[i] = g
    BY <2>1, <1>2
  <2>3. i # p
    BY <2>1, <2>2, <1>3
  <2> DEFINE j == IF i < p THEN i ELSE i - 1
  <2>4. j \in 1..(n - 1) /\ Old(j) = i
    BY <2>2, <2>3, <1>1, <1>3 DEF Old
  <2> HIDE DEF j
  <2> QED
    BY <2>1, <2>2, <2>4, <1>9
<1>14. Ordered(x)
  <2>1. /\ Len(x.base) = Len(x.parts) /\ Len(x.parts) = n - 1 /\ x.base = base
        /\ \A j \in 1..(n - 1) : base[j] \in 1..(n - 1)
    BY <1>4, <1>9, <1>10, <1>11
  <2> QED
    BY <2>1, <1>11, <1>12, <1>13 DEF Ordered
<1>15. ASSUME NEW j \in 1..(n - 1)
       PROVE  ViewOf(x)[j] = IF j < p THEN ViewOf(m)[j] ELSE ViewOf(m)[j + 1]
  <2>1. ViewOf(x)[j] = parts[base[j]]
    <3>1. \A i \in 1..Len(x.base) : ViewOf(x)[i] = x.parts[x.base[i]]
      BY <1>14, SessionFacts
    <3>2. Len(x.base) = n - 1 /\ x.parts = parts /\ x.base = base
      BY <1>10, <1>11
    <3> QED
      BY <3>1, <3>2
  <2>2. \A i \in 1..n : ViewOf(m)[i] = m.parts[m.base[i]]
    BY <1>1, SessionFacts
  <2>3. ViewOf(x)[j] = ViewOf(m)[Old(j)]
    BY <2>1, <2>2, <1>6, <1>9
  <2> QED
    BY <2>3 DEF Old
<1>16. ASSUME NEW j \in 1..(n - 1)
       PROVE  /\ j < p => x.base[j] = IF m.base[j] > k THEN m.base[j] - 1 ELSE m.base[j]
              /\ ~(j < p) => x.base[j] = IF m.base[j + 1] > k THEN m.base[j + 1] - 1 ELSE m.base[j + 1]
  BY <1>9, <1>11 DEF Old
<1> QED
  BY <1>4, <1>11, <1>14, <1>15, <1>16 DEF x, p


-----------------------------------------------------------------------------
(* add_partition_to_map.                                                    *)

(* Where the view is in order, the slot is where the entry belongs.         *)
LEMMA InsertInPlace ==
  ASSUME NEW m, Ordered(m), NEW k \in 1..(Len(m.parts) + 1), NEW e \in Entry,
         NEW s \in 1..(Len(m.parts) + 1),
         \A j \in 1..Len(m.parts) : j < s => ViewOf(m)[j].start < e.start,
         s = Len(m.parts) + 1 \/ e.start <= ViewOf(m)[s].start
  PROVE  LET x == Insert(m, k, e)
         IN  /\ Ordered(x) /\ Len(x.parts) = Len(m.parts) + 1
             /\ \A j \in 1..(Len(m.parts) + 1) :
                  ViewOf(x)[j] = IF j < s THEN ViewOf(m)[j] ELSE IF j = s THEN e ELSE ViewOf(m)[j - 1]
<1>1. /\ KeysOf(m) \in Seq(Nat) /\ Len(KeysOf(m)) = Len(m.parts) /\ Len(m.parts) \in Nat
      /\ \A i \in 1..Len(m.parts) : KeysOf(m)[i] = ViewOf(m)[i].start
  BY SessionFacts
<1>2. e.start \in Nat
  BY SizesAssumption DEF Entry
<1>3. /\ s \in 1..(Len(KeysOf(m)) + 1)
      /\ \A j \in 1..Len(KeysOf(m)) : j < s => KeysOf(m)[j] < e.start
      /\ s = Len(KeysOf(m)) + 1 \/ e.start <= KeysOf(m)[s]
  BY <1>1
<1>4. Slot(KeysOf(m), e.start) = s
  BY <1>1, <1>2, <1>3, SlotOrdered
<1> QED
  BY <1>4, InsertFacts

(* The entry that is found covers the blocks.                               *)
LEMMA FoundFacts ==
  ASSUME NEW m, Ordered(m), NEW base, NEW length, Found(m, base, length) # 0
  PROVE  LET k == Found(m, base, length)
         IN  k \in 1..Len(m.parts) /\ Covers(m.parts[k], base, length)
<1> DEFINE I == {i \in 1..Len(m.base) : Covers(m.parts[m.base[i]], base, length)}
           Least(i) == \A j \in I : i <= j
<1>1. I # {} /\ Found(m, base, length) = m.base[CHOOSE i \in I : Least(i)]
  BY DEF Found
<1>2. I \subseteq Nat
  OBVIOUS
<1>3. \E i \in I : Least(i)
  <2> HIDE DEF I
  <2> QED
    BY <1>1, <1>2, LeastNumber
<1>4. PICK i \in I : Found(m, base, length) = m.base[i]
  <2> HIDE DEF I, Least
  <2> QED
    BY <1>1, <1>3
<1>5. m.base[i] \in 1..Len(m.parts)
  BY SessionFacts
<1> QED
  BY <1>4, <1>5


LEMMA UnsignedFacts ==
  ASSUME NEW x \in Int
  PROVE  /\ Unsigned(x) \in 0..(Word - 1)
         /\ x \in 0..(Word - 1) => Unsigned(x) = x
<1>1. Word \in Nat \ {0}
  BY SizesAssumption
<1> QED
  BY <1>1 DEF Unsigned

LEMMA PartFacts ==
  ASSUME NEW s \in Int, NEW l \in Int, NEW t \in Types
  PROVE  /\ Part(Unsigned(s), Unsigned(l), t) \in Entry
         /\ s \in 0..(Word - 1) => Part(s, Unsigned(l), t) \in Entry
         /\ s \in 0..(Word - 1) /\ l \in 0..(Word - 1) => Part(s, l, t) \in Entry
<1>1. Unsigned(s) \in 0..(Word - 1) /\ Unsigned(l) \in 0..(Word - 1)
  BY UnsignedFacts
<1> QED
  BY <1>1 DEF Part, Entry

LEMMA RestIsEntry ==
  ASSUME NEW e \in Entry, NEW base \in 0..(Word - 1), NEW length \in 0..(Word - 1)
  PROVE  Rest(e, base, length) \in Entry /\ Part(e.start, Unsigned(base - e.start), "free") \in Entry
<1>1. /\ e.start \in 0..(Word - 1) /\ e.len \in 0..(Word - 1) /\ "free" \in Types
      /\ base \in Int /\ length \in Int /\ e.start \in Int /\ e.len \in Int
  BY SizesAssumption DEF Entry, Types
<1>2. /\ base - e.start \in Int /\ base + length \in Int
      /\ e.len - length - (base - e.start) \in Int
  BY <1>1
<1>3. Part(e.start, Unsigned(base - e.start), "free") \in Entry
  BY <1>1, <1>2, PartFacts
<1>4. Part(Unsigned(base + length), Unsigned(e.len - length - (base - e.start)), "free") \in Entry
  BY <1>1, <1>2, PartFacts
<1> QED
  BY <1>3, <1>4 DEF Rest

(* What a creation does to the entry in the way keeps both orders.          *)
LEMMA WithOrdered ==
  ASSUME NEW m, Ordered(m), NEW base \in 0..(Word - 1), NEW length \in 0..(Word - 1),
         NEW type \in Types, Found(m, base, length) # 0
  PROVE  /\ Ordered(WithPartition(m, base, length, type))
         /\ Len(WithPartition(m, base, length, type).parts) >= Len(m.parts)
<1> DEFINE k      == Found(m, base, length)
           e      == m.parts[k]
           action == Action(e, base, length)
           new    == Part(base, length, type)
           rest   == Rest(e, base, length)
           front  == Part(e.start, Unsigned(base - e.start), "free")
           cut    == [m EXCEPT !.parts[k] = rest]
           one    == Insert(cut, k, new)
           two    == Insert(one, k, front)
           whole  == [m EXCEPT !.parts[k] = new]
<1>1. k \in 1..Len(m.parts) /\ Len(m.parts) \in Nat /\ m.parts \in Seq(Entry)
  BY FoundFacts, SessionFacts
<1>2. e \in Entry
  BY <1>1
<1>3. new \in Entry
  BY PartFacts DEF Types
<1>4. rest \in Entry /\ front \in Entry
  BY <1>2, RestIsEntry
<1> HIDE DEF new, rest, front
<1>5. Ordered(whole) /\ Len(whole.parts) = Len(m.parts)
  BY <1>1, <1>3, SetFacts
<1>6. Ordered(cut) /\ Len(cut.parts) = Len(m.parts)
  BY <1>1, <1>4, SetFacts
<1> HIDE DEF k, cut, whole
<1>7. Ordered(one) /\ Len(one.parts) = Len(m.parts) + 1
  <2>1. k \in 1..(Len(cut.parts) + 1)
    BY <1>1, <1>6
  <2> QED
    BY <2>1, <1>3, <1>6, InsertFacts
<1> HIDE DEF one
<1>8. Ordered(two) /\ Len(two.parts) = Len(m.parts) + 2
  <2>1. k \in 1..(Len(one.parts) + 1)
    BY <1>1, <1>7
  <2>2. Ordered(two) /\ Len(two.parts) = Len(one.parts) + 1
    BY <2>1, <1>4, <1>7, InsertFacts, SMTT(20)
  <2> QED
    BY <2>2, <1>1, <1>7
<1> HIDE DEF two
<1>9. action \in {"replace", "add", "split"}
  BY DEF Action
<1>10. WithPartition(m, base, length, type) =
         CASE action = "replace" -> whole [] action = "add" -> one [] action = "split" -> two
  BY DEF WithPartition, k, new, rest, front, cut, one, two, whole
<1> HIDE DEF action
<1> QED
  BY <1>1, <1>5, <1>7, <1>8, <1>9, <1>10

LEMMA AddedOrdered ==
  ASSUME NEW m, Ordered(m), NEW base \in 0..(Word - 1), NEW length \in 0..(Word - 1), NEW type \in Types
  PROVE  /\ Ordered(Added(m, base, length, type))
         /\ Len(Added(m, base, length, type).parts) >= Len(m.parts)
<1> DEFINE y == WithPartition(m, base, length, type)
<1>0. Len(m.parts) \in Nat
  BY SessionFacts
<1>1. CASE Refused(m, base, length)
  BY <1>0, <1>1 DEF Added
<1>2. CASE ~Refused(m, base, length)
  <2>1. Added(m, base, length, type) = [y EXCEPT !.changed = TRUE]
    BY <1>2 DEF Added
  <2>2. Found(m, base, length) # 0
    BY <1>2 DEF Refused
  <2>3. Ordered(y) /\ Len(y.parts) >= Len(m.parts)
    BY <2>2, WithOrdered
  <2> HIDE DEF y
  <2>4. y \in Session
    BY <2>3, SessionFacts
  <2> DEFINE x == [y EXCEPT !.changed = TRUE]
  <2>5. x \in Session /\ x.parts = y.parts /\ x.base = y.base
    BY <2>4 DEF Session
  <2> HIDE DEF x
  <2>6. Ordered(x)
    BY <2>3, <2>5, FlagFacts
  <2>7. Added(m, base, length, type) = x
    BY <2>1 DEF x
  <2> QED
    BY <2>3, <2>5, <2>6, <2>7
<1> QED
  BY <1>1, <1>2


(* The new entry is one of those there are then.                            *)
LEMMA NewIsThere ==
  ASSUME NEW m, Ordered(m), NEW base \in 0..(Word - 1), NEW length \in 0..(Word - 1),
         NEW type \in Types, Found(m, base, length) # 0,
         Sane(WithPartition(m, base, length, type))
  PROVE  length > 0 /\ base + length < Word
<1> DEFINE k      == Found(m, base, length)
           e      == m.parts[k]
           action == Action(e, base, length)
           new    == Part(base, length, type)
           rest   == Rest(e, base, length)
           front  == Part(e.start, Unsigned(base - e.start), "free")
           cut    == [m EXCEPT !.parts[k] = rest]
           one    == Insert(cut, k, new)
           two    == Insert(one, k, front)
           whole  == [m EXCEPT !.parts[k] = new]
           y      == WithPartition(m, base, length, type)
<1>1. k \in 1..Len(m.parts) /\ Len(m.parts) \in Nat /\ m.parts \in Seq(Entry) /\ m \in Session
  BY FoundFacts, SessionFacts
<1>2. e \in Entry
  BY <1>1
<1>3. new \in Entry
  BY PartFacts DEF Types
<1>4. rest \in Entry /\ front \in Entry
  BY <1>2, RestIsEntry
<1>5. new.len = length /\ new.start = base
  BY DEF Part
<1> HIDE DEF new, rest, front, k
<1>6. whole.parts[k] = new /\ k \in DOMAIN whole.parts
  BY <1>1 DEF Session
<1>7. cut \in Session /\ Ordered(cut) /\ Len(cut.parts) = Len(m.parts)
  BY <1>1, <1>4, SetFacts, SessionFacts, ZenonT(30)
<1> HIDE DEF cut
<1>8. one.parts = InsertAt(cut.parts, k, new)
  BY <1>7 DEF Insert, Session
<1>9. cut.parts \in Seq(Entry) /\ k \in 1..(Len(cut.parts) + 1) /\ k \in Nat
  BY <1>1, <1>7 DEF Session
<1>10. /\ one.parts \in Seq(Entry) /\ Len(one.parts) = Len(m.parts) + 1
       /\ one.parts[k] = new /\ k \in DOMAIN one.parts
  <2>1. /\ one.parts \in Seq(Entry) /\ Len(one.parts) = Len(cut.parts) + 1 /\ one.parts[k] = new
    BY <1>3, <1>8, <1>9, InsertAtFacts
  <2> HIDE DEF one
  <2> QED
    BY <2>1, <1>1, <1>7
<1>11. one \in Session
  BY <1>3, <1>7, <1>9, InsertFacts, SessionFacts
<1> HIDE DEF one
<1>12. two.parts = InsertAt(one.parts, k, front)
  BY <1>11 DEF Insert, Session
<1>13. two.parts[k + 1] = new /\ k + 1 \in DOMAIN two.parts
  <2> DEFINE q == one.parts
  <2>1. /\ q \in Seq(Entry) /\ k \in 1..(Len(q) + 1)
        /\ k + 1 \in 1..(Len(q) + 1) /\ (k + 1) - 1 = k /\ ~(k + 1 < k) /\ k + 1 # k
    BY <1>1, <1>10
  <2>2. two.parts = InsertAt(q, k, front) /\ q[k] = new
    BY <1>10, <1>12
  <2> HIDE DEF q, two
  <2>3. /\ InsertAt(q, k, front) \in Seq(Entry) /\ Len(InsertAt(q, k, front)) = Len(q) + 1
        /\ \A j \in 1..(Len(q) + 1) :
             InsertAt(q, k, front)[j] = IF j < k THEN q[j] ELSE IF j = k THEN front ELSE q[j - 1]
    BY ONLY <2>1, <1>4, InsertAtFacts
  <2>4. InsertAt(q, k, front)[k + 1] = new
    BY <2>1, <2>2, <2>3
  <2> QED
    BY <2>1, <2>2, <2>3, <2>4
<1> HIDE DEF whole, two
<1>14. action \in {"replace", "add", "split"}
  BY DEF Action
<1>15. y = CASE action = "replace" -> whole [] action = "add" -> one [] action = "split" -> two
  BY DEF WithPartition, k, new, rest, front, cut, one, two, whole
<1> HIDE DEF action, y
<1>16. \E h \in DOMAIN y.parts : y.parts[h] = new
  BY <1>6, <1>10, <1>13, <1>14, <1>15
<1>17. new.len > 0 /\ new.start + new.len < Word
  <2>1. \A a \in ToSet(y.parts) : a.len > 0 /\ a.start + a.len < Word
    BY DEF Sane, y
  <2>2. new \in ToSet(y.parts)
    BY <1>16 DEF ToSet
  <2> QED
    BY <2>1, <2>2
<1> QED
  BY <1>5, <1>17


\* w is v with entries p to top in the place of the free one at p, which take up
\* its blocks one after the other; no two neighbours of them are free unless the
\* type asked for is.
Filled(v, w, p, top, type) ==
  /\ Patched(v, w, p, p, top)
  /\ \A j \in p..top : w[j].len > 0 /\ w[j].start + w[j].len < Word
  /\ \A j \in p..(top - 1) : w[j].start + w[j].len = w[j + 1].start
  /\ w[p].start = v[p].start /\ w[top].start + w[top].len = v[p].start + v[p].len
  /\ type # "free" => \A j \in p..(top - 1) : ~IsFree(w[j]) \/ ~IsFree(w[j + 1])

(* One entry, two or three, in the place of one.                            *)
LEMMA FillOne ==
  ASSUME NEW v \in Seq(Entry), NEW w \in Seq(Entry), NEW p \in 1..Len(v), NEW type,
         Len(w) = Len(v),
         \A j \in 1..Len(v) : j # p => w[j] = v[j],
         w[p].len > 0, w[p].start + w[p].len < Word,
         w[p].start = v[p].start, w[p].start + w[p].len = v[p].start + v[p].len
  PROVE  Filled(v, w, p, p, type)
<1>1. Len(v) \in Nat /\ Len(w) \in Nat /\ p \in Nat
  OBVIOUS
<1>2. Patched(v, w, p, p, p)
  <2>1. \A j \in (p + 1)..Len(w) : j - p + p = j /\ j \in 1..Len(v) /\ j # p
    BY <1>1
  <2>2. \A j \in 1..(p - 1) : j \in 1..Len(v) /\ j # p
    BY <1>1
  <2>3. p \in p..Len(v) /\ p \in p..Len(w) /\ Len(w) - p = Len(v) - p
    BY <1>1
  <2> QED
    BY <2>1, <2>2, <2>3 DEF Patched
<1>3. p..p = {p} /\ p..(p - 1) = {}
  BY <1>1
<1> QED
  BY <1>2, <1>3 DEF Filled

LEMMA FillTwo ==
  ASSUME NEW v \in Seq(Entry), NEW w \in Seq(Entry), NEW p \in 1..Len(v), NEW type,
         Len(w) = Len(v) + 1,
         \A j \in 1..Len(w) : j # p /\ j # p + 1 => w[j] = IF j < p THEN v[j] ELSE v[j - 1],
         w[p].len > 0, w[p].start + w[p].len < Word,
         w[p + 1].len > 0, w[p + 1].start + w[p + 1].len < Word,
         w[p].start = v[p].start, w[p].start + w[p].len = w[p + 1].start,
         w[p + 1].start + w[p + 1].len = v[p].start + v[p].len,
         type # "free" => ~IsFree(w[p]) \/ ~IsFree(w[p + 1])
  PROVE  Filled(v, w, p, p + 1, type)
<1>1. Len(v) \in Nat /\ Len(w) \in Nat /\ p \in Nat
  OBVIOUS
<1>2. Patched(v, w, p, p, p + 1)
  <2>1. \A j \in (p + 1 + 1)..Len(w) : j - (p + 1) + p = j - 1 /\ j # p /\ j # p + 1 /\ ~(j < p) /\ j \in 1..Len(w)
    BY <1>1
  <2>2. \A j \in 1..(p - 1) : j # p /\ j # p + 1 /\ j < p /\ j \in 1..Len(w)
    BY <1>1
  <2>3. p \in p..Len(v) /\ p + 1 \in p..Len(w) /\ Len(w) - (p + 1) = Len(v) - p
    BY <1>1
  <2> QED
    BY <2>1, <2>2, <2>3 DEF Patched
<1>3. p..(p + 1) = {p, p + 1} /\ p..(p + 1 - 1) = {p}
  BY <1>1
<1> QED
  BY <1>2, <1>3 DEF Filled

LEMMA FillThree ==
  ASSUME NEW v \in Seq(Entry), NEW w \in Seq(Entry), NEW p \in 1..Len(v), NEW type,
         Len(w) = Len(v) + 2,
         \A j \in 1..Len(w) : j \notin {p, p + 1, p + 2} => w[j] = IF j < p THEN v[j] ELSE v[j - 2],
         w[p].len > 0, w[p].start + w[p].len < Word,
         w[p + 1].len > 0, w[p + 1].start + w[p + 1].len < Word,
         w[p + 2].len > 0, w[p + 2].start + w[p + 2].len < Word,
         w[p].start = v[p].start, w[p].start + w[p].len = w[p + 1].start,
         w[p + 1].start + w[p + 1].len = w[p + 2].start,
         w[p + 2].start + w[p + 2].len = v[p].start + v[p].len,
         type # "free" => ~IsFree(w[p + 1])
  PROVE  Filled(v, w, p, p + 2, type)
<1>1. Len(v) \in Nat /\ Len(w) \in Nat /\ p \in Nat
  OBVIOUS
<1>2. Patched(v, w, p, p, p + 2)
  <2>1. \A j \in (p + 2 + 1)..Len(w) : j - (p + 2) + p = j - 2 /\ j \notin {p, p + 1, p + 2} /\ ~(j < p) /\ j \in 1..Len(w)
    BY <1>1
  <2>2. \A j \in 1..(p - 1) : j \notin {p, p + 1, p + 2} /\ j < p /\ j \in 1..Len(w)
    BY <1>1
  <2>3. p \in p..Len(v) /\ p + 2 \in p..Len(w) /\ Len(w) - (p + 2) = Len(v) - p
    BY <1>1
  <2> QED
    BY <2>1, <2>2, <2>3 DEF Patched
<1>3. p..(p + 2) = {p, p + 1, p + 2} /\ p..(p + 2 - 1) = {p, p + 1} /\ p + 1 + 1 = p + 2
  BY <1>1
<1>4. \A j \in p..(p + 2) : w[j].len > 0 /\ w[j].start + w[j].len < Word
  BY <1>3
<1>5. \A j \in p..(p + 2 - 1) : w[j].start + w[j].len = w[j + 1].start
  BY <1>3
<1>6. type # "free" => \A j \in p..(p + 2 - 1) : ~IsFree(w[j]) \/ ~IsFree(w[j + 1])
  BY <1>3
<1> QED
  BY <1>2, <1>4, <1>5, <1>6 DEF Filled


(* A creation fills the place of the free entry.                            *)
LEMMA WithFills ==
  ASSUME NEW m, Ordered(m), Row(ViewOf(m)), NEW base \in 0..(Word - 1), NEW length \in 0..(Word - 1),
         NEW type \in Types, Found(m, base, length) # 0, length > 0, base + length < Word
  PROVE  LET p == At(m.base, Found(m, base, length))
             y == WithPartition(m, base, length, type)
         IN  \E top \in p..(p + 2) : Filled(ViewOf(m), ViewOf(y), p, top, type)
<1> DEFINE k      == Found(m, base, length)
           e      == m.parts[k]
           p      == At(m.base, k)
           v      == ViewOf(m)
           n      == Len(m.parts)
           action == Action(e, base, length)
           new    == Part(base, length, type)
           rest   == Rest(e, base, length)
           front  == Part(e.start, Unsigned(base - e.start), "free")
           cut    == [m EXCEPT !.parts[k] = rest]
           one    == Insert(cut, k, new)
           two    == Insert(one, k, front)
           whole  == [m EXCEPT !.parts[k] = new]
           y      == WithPartition(m, base, length, type)
<1>1. k \in 1..n /\ n \in Nat /\ m.parts \in Seq(Entry) /\ Covers(e, base, length)
  BY FoundFacts, SessionFacts
<1>2. e \in Entry /\ e.start \in Nat /\ e.len \in Nat /\ base \in Nat /\ length \in Nat /\ Word \in Nat
  BY <1>1, EntryFacts, SizesAssumption
<1>3. new \in Entry /\ rest \in Entry /\ front \in Entry
  <2>1. new \in Entry
    BY PartFacts DEF Types
  <2> HIDE DEF e
  <2>2. rest \in Entry /\ front \in Entry
    BY <1>2, RestIsEntry
  <2> QED
    BY <2>1, <2>2
<1>4. v \in Seq(Entry) /\ Len(v) = n /\ p \in 1..n /\ p \in Nat /\ v[p] = e
  <2> HIDE DEF k
  <2>1. p \in 1..n /\ m.base[p] = k
    BY <1>1, AtFacts
  <2> HIDE DEF p
  <2>2. v \in Seq(Entry) /\ Len(v) = Len(m.base) /\ Len(m.base) = n
    BY SessionFacts
  <2>3. v[p] = m.parts[m.base[p]]
    BY <2>1, <2>2, SessionFacts
  <2> QED
    BY <1>1, <2>1, <2>2, <2>3
<1>5. e.len > 0 /\ e.start + e.len < Word
  BY <1>4 DEF Row
<1>6. /\ e.start <= base /\ base + length <= e.start + e.len
      /\ Unsigned(base + length) = base + length /\ End(e) = e.start + e.len
  <2>1. e.start + e.len \in 0..(Word - 1) /\ base + length \in 0..(Word - 1)
    BY <1>2, <1>5
  <2>2. Unsigned(base + length) = base + length /\ Unsigned(e.start + e.len) = e.start + e.len
    BY <2>1, UnsignedFacts
  <2> QED
    BY <2>2, <1>1 DEF Covers, End
<1>7. \A j \in 1..n : j < p => v[j].start < e.start
  <2> TAKE j \in 1..n
  <2> HAVE j < p
  <2>1. v[j].start + v[j].len <= v[p].start
    BY <1>4, RowGoesUp
  <2>2. v[j].start \in Nat /\ v[j].len \in Nat
    BY <1>4, EntryFacts
  <2>3. v[j].len > 0
    BY <1>4 DEF Row
  <2> QED
    BY <2>1, <2>2, <2>3, <1>2, <1>4
<1>8. p < n => e.start + e.len = v[p + 1].start
  <2> HAVE p < n
  <2>1. p \in 1..(Len(v) - 1)
    BY <1>1, <1>4
  <2>2. v[p].start + v[p].len = v[p + 1].start
    BY <2>1 DEF Row
  <2> QED
    BY <2>2, <1>4
<1>9. new.start = base /\ new.len = length /\ new.type = type
  BY DEF Part
<1>10. front.start = e.start /\ front.len = base - e.start /\ front.type = "free"
  <2>1. base - e.start \in 0..(Word - 1)
    BY <1>2, <1>6
  <2>2. Unsigned(base - e.start) = base - e.start
    BY <2>1, UnsignedFacts
  <2> QED
    BY <2>2 DEF Part
<1>11. rest = IF e.start # base /\ e.start + e.len = base + length THEN front
              ELSE Part(base + length, e.len - length - (base - e.start), "free")
  <2>1. e.len - length - (base - e.start) \in 0..(Word - 1)
    BY <1>2, <1>5, <1>6
  <2>2. Unsigned(e.len - length - (base - e.start)) = e.len - length - (base - e.start)
    BY <2>1, UnsignedFacts
  <2> QED
    BY <2>2, <1>6 DEF Rest
<1>12. action = IF e.start = base THEN IF e.len = length THEN "replace" ELSE "add"
                ELSE IF e.start + e.len = base + length THEN "add" ELSE "split"
  BY <1>6 DEF Action
<1>13. y = CASE action = "replace" -> whole [] action = "add" -> one [] action = "split" -> two
  BY DEF WithPartition
<1> DEFINE c == ViewOf(cut)
<1>14. /\ Ordered(whole) /\ Len(whole.parts) = n
       /\ \A j \in 1..n : ViewOf(whole)[j] = IF j = p THEN new ELSE v[j]
  BY <1>1, <1>3, SetFacts
<1>15. /\ Ordered(cut) /\ Len(cut.parts) = n
       /\ \A j \in 1..n : c[j] = IF j = p THEN rest ELSE v[j]
  BY <1>1, <1>3, SetFacts
<1> HIDE DEF k, e, p, v, n, action, new, rest, front, cut, one, two, whole, y, c
<1>16. CASE e.start = base /\ e.len = length
  <2> DEFINE w == ViewOf(whole)
  <2>1. y = whole
    BY <1>12, <1>13, <1>16
  <2>2. w \in Seq(Entry) /\ Len(w) = n
    BY <1>14, SessionFacts
  <2> HIDE DEF w
  <2>3. w[p] = new /\ \A j \in 1..n : j # p => w[j] = v[j]
    BY <1>4, <1>14 DEF w
  <2>4. Filled(v, w, p, p, type)
    <3>1. w[p].start = base /\ w[p].len = length
      BY <2>3, <1>9
    <3>2. Len(v) = n /\ v[p] = e
      BY <1>4
    <3> QED
      BY <2>2, <2>3, <3>1, <3>2, <1>4, <1>16, FillOne
  <2>5. p \in p..(p + 2)
    BY <1>4
  <2> QED
    BY <2>1, <2>4, <2>5 DEF w, p, v, k, y
<1>17. k \in 1..(Len(cut.parts) + 1)
  BY <1>1, <1>15
<1>18. CASE e.start = base /\ e.len # length
  <2> DEFINE w == ViewOf(one)
  <2>1. y = one
    BY <1>12, <1>13, <1>18
  <2>2. rest.start = base + length /\ rest.len = e.len - length
    BY <1>2, <1>11, <1>18 DEF Part
  <2>3. /\ \A j \in 1..Len(cut.parts) : j < p => c[j].start < new.start
        /\ new.start <= c[p].start /\ p \in 1..(Len(cut.parts) + 1)
    BY <2>2, <1>2, <1>4, <1>7, <1>9, <1>15, <1>18
  <2>4. /\ Ordered(one) /\ Len(one.parts) = Len(cut.parts) + 1
        /\ \A j \in 1..(Len(cut.parts) + 1) : w[j] = IF j < p THEN c[j] ELSE IF j = p THEN new ELSE c[j - 1]
    <3>1. Ordered(cut) /\ new \in Entry
      BY <1>3, <1>15
    <3> QED
      BY ONLY <3>1, <2>3, <1>17, InsertInPlace DEF c, one
  <2>5. w \in Seq(Entry) /\ Len(w) = Len(v) + 1
    BY <2>4, <1>4, <1>15, SessionFacts
  <2> HIDE DEF w
  <2>6. w[p] = new /\ w[p + 1] = rest
    BY <2>4, <1>4, <1>15, SMTT(20)
  <2>7. \A j \in 1..Len(w) : j # p /\ j # p + 1 => w[j] = IF j < p THEN v[j] ELSE v[j - 1]
    <3> TAKE j \in 1..Len(w)
    <3> HAVE j # p /\ j # p + 1
    <3>1. j \in 1..(n + 1) /\ j \in Nat
      BY <2>5, <1>4
    <3>2. CASE j < p
      BY <3>1, <3>2, <2>4, <1>4, <1>15
    <3>3. CASE ~(j < p)
      <4>1. j - 1 \in 1..n /\ j - 1 # p
        BY <3>1, <3>3, <1>4
      <4> QED
        BY <3>1, <3>3, <4>1, <2>4, <1>4, <1>15
    <3> QED
      BY <3>2, <3>3
  <2>8. Filled(v, w, p, p + 1, type)
    <3>1. type # "free" => ~IsFree(new)
      BY <1>9 DEF IsFree
    <3>2. /\ new.len > 0 /\ new.start + new.len < Word /\ rest.len > 0 /\ rest.start + rest.len < Word
          /\ new.start = e.start /\ new.start + new.len = rest.start
          /\ rest.start + rest.len = e.start + e.len
      BY <2>2, <1>2, <1>5, <1>6, <1>9, <1>18
    <3> QED
      BY <3>1, <3>2, <2>5, <2>6, <2>7, <1>4, FillTwo
  <2>9. p + 1 \in p..(p + 2)
    BY <1>4
  <2> QED
    BY <2>1, <2>8, <2>9 DEF w, p, v, k, y
<1>19. CASE e.start # base /\ e.start + e.len = base + length
  <2> DEFINE w == ViewOf(one)
  <2>1. y = one
    BY <1>12, <1>13, <1>19
  <2>2. rest = front
    BY <1>11, <1>19
  <2>3. /\ \A j \in 1..Len(cut.parts) : j < p + 1 => c[j].start < new.start
        /\ p + 1 = Len(cut.parts) + 1 \/ new.start <= c[p + 1].start
        /\ p + 1 \in 1..(Len(cut.parts) + 1)
    <3>1. \A j \in 1..n : j < p + 1 => c[j].start < new.start
      <4> TAKE j \in 1..n
      <4> HAVE j < p + 1
      <4>1. CASE j = p
        BY <4>1, <2>2, <1>2, <1>4, <1>6, <1>9, <1>10, <1>15, <1>19
      <4>2. CASE j # p
        <5>1. j < p /\ v[j].start \in Nat
          BY <4>2, <1>4, EntryFacts
        <5> QED
          BY <4>2, <5>1, <1>2, <1>6, <1>7, <1>9, <1>15
      <4> QED
        BY <4>1, <4>2
    <3>2. p = n \/ (p < n /\ p + 1 \in 1..n /\ p + 1 # p)
      BY <1>1, <1>4
    <3>3. p < n => new.start <= c[p + 1].start
      BY <3>2, <1>2, <1>8, <1>9, <1>15, <1>19
    <3> QED
      BY <3>1, <3>2, <3>3, <1>1, <1>4, <1>15
  <2>4. /\ Ordered(one) /\ Len(one.parts) = Len(cut.parts) + 1
        /\ \A j \in 1..(Len(cut.parts) + 1) :
             w[j] = IF j < p + 1 THEN c[j] ELSE IF j = p + 1 THEN new ELSE c[j - 1]
    <3>1. Ordered(cut) /\ new \in Entry
      BY <1>3, <1>15
    <3> QED
      BY ONLY <3>1, <2>3, <1>17, InsertInPlace DEF c, one
  <2>5. w \in Seq(Entry) /\ Len(w) = Len(v) + 1
    BY <2>4, <1>4, <1>15, SessionFacts
  <2> HIDE DEF w
  <2>6. w[p] = front /\ w[p + 1] = new
    BY <2>2, <2>4, <1>4, <1>15
  <2>7. \A j \in 1..Len(w) : j # p /\ j # p + 1 => w[j] = IF j < p THEN v[j] ELSE v[j - 1]
    <3> TAKE j \in 1..Len(w)
    <3> HAVE j # p /\ j # p + 1
    <3>1. j \in 1..(n + 1) /\ j \in Nat
      BY <2>5, <1>4
    <3>2. CASE j < p
      BY <3>1, <3>2, <2>4, <1>4, <1>15
    <3>3. CASE ~(j < p)
      <4>1. j - 1 \in 1..n /\ j - 1 # p /\ ~(j < p + 1)
        BY <3>1, <3>3, <1>4
      <4> QED
        BY <3>1, <3>3, <4>1, <2>4, <1>4, <1>15
    <3> QED
      BY <3>2, <3>3
  <2>8. Filled(v, w, p, p + 1, type)
    <3>1. type # "free" => ~IsFree(new)
      BY <1>9 DEF IsFree
    <3>2. /\ new.len > 0 /\ new.start + new.len < Word /\ front.len > 0 /\ front.start + front.len < Word
          /\ front.start = e.start /\ front.start + front.len = new.start
          /\ new.start + new.len = e.start + e.len
      BY <1>2, <1>5, <1>6, <1>9, <1>10, <1>19
    <3> QED
      BY <3>1, <3>2, <2>5, <2>6, <2>7, <1>4, FillTwo
  <2>9. p + 1 \in p..(p + 2)
    BY <1>4
  <2> QED
    BY <2>1, <2>8, <2>9 DEF w, p, v, k, y
<1>20. CASE e.start # base /\ e.start + e.len # base + length
  <2> DEFINE o == ViewOf(one)
             w == ViewOf(two)
  <2>1. y = two
    BY <1>12, <1>13, <1>20
  <2>2. rest.start = base + length /\ rest.len = e.len - length - (base - e.start)
    BY <1>11, <1>20 DEF Part
  <2>3. /\ \A j \in 1..Len(cut.parts) : j < p => c[j].start < new.start
        /\ new.start <= c[p].start /\ p \in 1..(Len(cut.parts) + 1)
    <3>1. \A j \in 1..n : j < p => c[j].start < new.start
      <4> TAKE j \in 1..n
      <4> HAVE j < p
      <4>1. v[j].start \in Nat /\ j # p
        BY <1>4, EntryFacts
      <4> QED
        BY <4>1, <1>2, <1>6, <1>7, <1>9, <1>15
    <3> QED
      BY <3>1, <2>2, <1>2, <1>4, <1>9, <1>15
  <2>4. /\ Ordered(one) /\ Len(one.parts) = Len(cut.parts) + 1
        /\ \A j \in 1..(Len(cut.parts) + 1) : o[j] = IF j < p THEN c[j] ELSE IF j = p THEN new ELSE c[j - 1]
    <3>1. Ordered(cut) /\ new \in Entry
      BY <1>3, <1>15
    <3> QED
      BY ONLY <3>1, <2>3, <1>17, InsertInPlace DEF c, one
  <2> HIDE DEF o
  <2>5. \A j \in 1..(n + 1) : o[j] = IF j < p THEN v[j] ELSE IF j = p THEN new
                                    ELSE IF j = p + 1 THEN rest ELSE v[j - 1]
    <3> TAKE j \in 1..(n + 1)
    <3>1. j \in Nat /\ n \in Nat /\ p \in Nat
      BY <1>1, <1>4
    <3>2. CASE j < p \/ j = p
      BY <3>1, <3>2, <2>4, <1>4, <1>15
    <3>3. CASE ~(j < p \/ j = p)
      <4>1. j - 1 \in 1..n /\ (j - 1 = p <=> j = p + 1) /\ j # p /\ ~(j < p)
        BY <3>1, <3>3, <1>4
      <4>2. o[j] = c[j - 1]
        BY <4>1, <2>4, <1>15
      <4>3. c[j - 1] = IF j - 1 = p THEN rest ELSE v[j - 1]
        BY <4>1, <1>15
      <4> QED
        BY <4>1, <4>2, <4>3
    <3> QED
      BY <3>2, <3>3
  <2>6. Ordered(one) /\ Len(one.parts) = n + 1 /\ k \in 1..(Len(one.parts) + 1)
    BY <2>4, <1>1, <1>15
  <2>7. /\ \A j \in 1..Len(one.parts) : j < p => o[j].start < front.start
        /\ front.start <= o[p].start /\ p \in 1..(Len(one.parts) + 1)
    <3>1. \A j \in 1..(n + 1) : j < p => o[j].start < front.start
      <4> TAKE j \in 1..(n + 1)
      <4> HAVE j < p
      <4>1. j \in 1..n
        BY <1>1, <1>4
      <4> QED
        BY <4>1, <2>5, <1>7, <1>10
    <3>2. p \in 1..(n + 1) /\ o[p] = new
      BY <2>5, <1>4
    <3> QED
      BY <3>1, <3>2, <2>6, <1>1, <1>4, <1>6, <1>9, <1>10
  <2>8. /\ Ordered(two) /\ Len(two.parts) = Len(one.parts) + 1
        /\ \A j \in 1..(Len(one.parts) + 1) : w[j] = IF j < p THEN o[j] ELSE IF j = p THEN front ELSE o[j - 1]
    BY ONLY <2>6, <2>7, <1>3, InsertInPlace DEF o, two
  <2>9. w \in Seq(Entry) /\ Len(w) = Len(v) + 2
    <3>1. w \in Seq(Entry) /\ Len(w) = Len(two.base) /\ Len(two.base) = Len(two.parts)
      BY <2>8, SessionFacts
    <3> HIDE DEF w
    <3> QED
      BY <3>1, <2>6, <2>8, <1>1, <1>4
  <2> HIDE DEF w
  <2>10. \A j \in 1..(n + 2) : w[j] = IF j < p THEN v[j] ELSE IF j = p THEN front ELSE IF j = p + 1 THEN new
                                     ELSE IF j = p + 2 THEN rest ELSE v[j - 2]
    <3> TAKE j \in 1..(n + 2)
    <3>1. j \in Nat /\ n \in Nat /\ p \in Nat /\ Len(one.parts) + 1 = n + 2
      BY <2>6, <1>1, <1>4
    <3>2. w[j] = IF j < p THEN o[j] ELSE IF j = p THEN front ELSE o[j - 1]
      BY <3>1, <2>8
    <3>3. CASE j < p \/ j = p
      <4>1. j \in 1..(n + 1)
        BY <3>1, <3>3, <1>4
      <4> QED
        BY <3>2, <3>3, <4>1, <2>5
    <3>4. CASE ~(j < p \/ j = p)
      <4>1. /\ j - 1 \in 1..(n + 1) /\ (j - 1 = p <=> j = p + 1) /\ (j - 1 = p + 1 <=> j = p + 2)
            /\ ~(j - 1 < p) /\ (j - 1) - 1 = j - 2
        BY <3>1, <3>4, <1>4
      <4>2. o[j - 1] = IF j - 1 < p THEN v[j - 1] ELSE IF j - 1 = p THEN new
                       ELSE IF j - 1 = p + 1 THEN rest ELSE v[(j - 1) - 1]
        BY <4>1, <2>5
      <4> QED
        BY <3>2, <3>4, <4>1, <4>2
    <3> QED
      BY <3>3, <3>4
  <2>11. w[p] = front /\ w[p + 1] = new /\ w[p + 2] = rest
    <3>1. p \in 1..(n + 2) /\ p + 1 \in 1..(n + 2) /\ p + 2 \in 1..(n + 2)
      BY <1>1, <1>4
    <3> QED
      BY <3>1, <2>10, <1>4
  <2>12. \A j \in 1..Len(w) : j \notin {p, p + 1, p + 2} => w[j] = IF j < p THEN v[j] ELSE v[j - 2]
    BY <2>9, <2>10, <1>4
  <2>13. Filled(v, w, p, p + 2, type)
    <3>1. type # "free" => ~IsFree(new)
      BY <1>9 DEF IsFree
    <3>2. /\ new.len > 0 /\ new.start + new.len < Word /\ front.len > 0 /\ front.start + front.len < Word
          /\ rest.len > 0 /\ rest.start + rest.len < Word
          /\ front.start = e.start /\ front.start + front.len = new.start
          /\ new.start + new.len = rest.start /\ rest.start + rest.len = e.start + e.len
      BY <2>2, <1>2, <1>5, <1>6, <1>9, <1>10, <1>20
    <3> QED
      BY <3>1, <3>2, <2>9, <2>11, <2>12, <1>4, FillThree
  <2>14. p + 2 \in p..(p + 2)
    BY <1>4
  <2> QED
    BY <2>1, <2>13, <2>14 DEF w, p, v, k, y
<1> QED
  BY <1>16, <1>18, <1>19, <1>20 DEF p, v, k, y


(* So it keeps a row a row, and loose unless free space was asked for.      *)
LEMMA FilledKeeps ==
  ASSUME NEW v \in Seq(Entry), NEW w \in Seq(Entry), NEW p, NEW top, NEW type,
         Filled(v, w, p, top, type)
  PROVE  /\ Row(v) => Row(w)
         /\ type # "free" /\ Loose(v) /\ IsFree(v[p]) => Loose(w)
<1>1. Patched(v, w, p, p, top)
  BY DEF Filled
<1>2. ASSUME Row(v) PROVE Row(w)
  BY <1>1, <1>2, RowPatch DEF Filled
<1>3. ASSUME type # "free", Loose(v), IsFree(v[p]) PROVE Loose(w)
  <2>1. \A j \in p..(top - 1) : ~IsFree(w[j]) \/ ~IsFree(w[j + 1])
    BY <1>3 DEF Filled
  <2>2. Len(v) \in Nat /\ p \in 1..Len(v) /\ p \in Nat
    BY <1>1 DEF Patched
  <2>3. p > 1 => ~IsFree(v[p - 1])
    <3> HAVE p > 1
    <3>1. p - 1 \in 1..(Len(v) - 1) /\ (p - 1) + 1 = p
      BY <2>2
    <3> QED
      BY <3>1, <1>3 DEF Loose
  <2>4. p < Len(v) => ~IsFree(v[p + 1])
    <3> HAVE p < Len(v)
    <3>1. p \in 1..(Len(v) - 1)
      BY <2>2
    <3> QED
      BY <3>1, <1>3 DEF Loose
  <2> QED
    BY <1>1, <1>3, <2>1, <2>3, <2>4, LoosePatch
<1> QED
  BY <1>2, <1>3

(* A creation keeps the map whole.                                          *)
LEMMA AddedSound ==
  ASSUME NEW m, Ordered(m), Row(ViewOf(m)), NEW base \in 0..(Word - 1), NEW length \in 0..(Word - 1),
         NEW type \in Types \ {"free"}, Sane(Added(m, base, length, type))
  PROVE  LET x == Added(m, base, length, type)
         IN  Row(ViewOf(x)) /\ (Loose(ViewOf(m)) => Loose(ViewOf(x)))
<1> DEFINE x == Added(m, base, length, type)
           y == WithPartition(m, base, length, type)
           k == Found(m, base, length)
           p == At(m.base, k)
<1>1. CASE Refused(m, base, length)
  BY <1>1 DEF Added
<1>2. CASE ~Refused(m, base, length)
  <2>1. x = [y EXCEPT !.changed = TRUE]
    BY <1>2 DEF Added
  <2>2. k # 0 /\ IsFree(m.parts[k])
    BY <1>2 DEF Refused
  <2>3. Ordered(y)
    BY <2>2, WithOrdered
  <2>4. y \in Session
    BY <2>3, SessionFacts
  <2> HIDE DEF y
  <2>5. x \in Session /\ x.parts = y.parts /\ x.base = y.base
    BY <2>1, <2>4 DEF Session
  <2> HIDE DEF x
  <2>6. ViewOf(x) = ViewOf(y)
    BY <2>3, <2>5, FlagFacts
  <2>7. Sane(y)
    BY <2>5 DEF Sane, x
  <2>8. length > 0 /\ base + length < Word
    BY <2>2, <2>7, NewIsThere DEF y
  <2>9. PICK top \in p..(p + 2) : Filled(ViewOf(m), ViewOf(y), p, top, type)
    BY <2>2, <2>8, WithFills DEF y
  <2>10. IsFree(ViewOf(m)[p])
    <3>1. k \in 1..Len(m.parts)
      BY <2>2, FoundFacts
    <3> HIDE DEF k
    <3>2. p \in 1..Len(m.parts) /\ m.base[p] = k
      BY <3>1, AtFacts
    <3> HIDE DEF p
    <3>3. ViewOf(m)[p] = m.parts[k]
      BY <3>2, SessionFacts
    <3> QED
      BY <3>3, <2>2
  <2>11. ViewOf(m) \in Seq(Entry) /\ ViewOf(y) \in Seq(Entry)
    BY <2>3, SessionFacts
  <2> HIDE DEF p
  <2>12. Row(ViewOf(y)) /\ (Loose(ViewOf(m)) => Loose(ViewOf(y)))
    BY <2>9, <2>10, <2>11, FilledKeeps
  <2> QED
    BY <2>6, <2>12 DEF x
<1> QED
  BY <1>1, <1>2


-----------------------------------------------------------------------------
(* delete_partition_from_map.                                               *)

(* The neighbours in base order are those in the view.                      *)
LEMMA NeighbourFacts ==
  ASSUME NEW m, Ordered(m), NEW k \in 1..Len(m.parts)
  PROVE  LET q == At(m.base, k)
             v == ViewOf(m)
             n == Len(m.parts)
         IN  /\ q \in 1..n /\ v[q] = m.parts[k]
             /\ IF q = n THEN NextByBase(m, k) = 0
                ELSE /\ NextByBase(m, k) \in 1..n /\ NextByBase(m, k) # k
                     /\ At(m.base, NextByBase(m, k)) = q + 1
                     /\ m.parts[NextByBase(m, k)] = v[q + 1]
             /\ IF q = 1 THEN PrevByBase(m, k) = 0
                ELSE /\ PrevByBase(m, k) \in 1..n /\ PrevByBase(m, k) # k
                     /\ At(m.base, PrevByBase(m, k)) = q - 1
                     /\ m.parts[PrevByBase(m, k)] = v[q - 1]
<1> DEFINE q == At(m.base, k)
           v == ViewOf(m)
           n == Len(m.parts)
<1>1. /\ n \in Nat /\ Len(m.base) = n /\ \A i \in 1..n : m.base[i] \in 1..n
      /\ \A i \in 1..n : v[i] = m.parts[m.base[i]]
  BY SessionFacts
<1>2. q \in 1..n /\ q \in Nat /\ m.base[q] = k
  BY AtFacts
<1>3. NextByBase(m, k) = IF q = n THEN 0 ELSE m.base[q + 1]
  BY <1>1 DEF NextByBase
<1>4. PrevByBase(m, k) = IF q = 1 THEN 0 ELSE m.base[q - 1]
  BY DEF PrevByBase
<1>5. \A i, j \in 1..n : m.base[i] = m.base[j] => i = j
  BY <1>1 DEF Ordered
<1>6. ASSUME NEW i \in 1..n, i # q
      PROVE  /\ m.base[i] \in 1..n /\ m.base[i] # k
             /\ At(m.base, m.base[i]) = i /\ m.parts[m.base[i]] = v[i]
  <2>1. m.base[i] \in 1..n /\ m.base[i] # k /\ m.parts[m.base[i]] = v[i]
    BY <1>1, <1>2, <1>5, <1>6
  <2> DEFINE h == m.base[i]
  <2>2. h \in 1..n /\ m.base[i] = h
    BY <2>1
  <2> HIDE DEF h
  <2>3. i = At(m.base, h)
    BY <2>2, AtFacts
  <2> QED
    BY <2>1, <2>3 DEF h
<1> HIDE DEF q, v, n
<1>7. q # n => q + 1 \in 1..n /\ q + 1 # q
  BY <1>1, <1>2
<1>8. q # 1 => q - 1 \in 1..n /\ q - 1 # q
  BY <1>1, <1>2
<1>9. IF q = n THEN NextByBase(m, k) = 0
      ELSE /\ NextByBase(m, k) \in 1..n /\ NextByBase(m, k) # k
           /\ At(m.base, NextByBase(m, k)) = q + 1
           /\ m.parts[NextByBase(m, k)] = v[q + 1]
  BY <1>3, <1>6, <1>7
<1>10. IF q = 1 THEN PrevByBase(m, k) = 0
       ELSE /\ PrevByBase(m, k) \in 1..n /\ PrevByBase(m, k) # k
            /\ At(m.base, PrevByBase(m, k)) = q - 1
            /\ m.parts[PrevByBase(m, k)] = v[q - 1]
  BY <1>4, <1>6, <1>8
<1>11. v[q] = m.parts[k]
  BY <1>1, <1>2
<1> QED
  BY <1>2, <1>9, <1>10, <1>11 DEF q, v, n


\* x has the entry g in the place of the ones at lo and lo + 1 of v.
Merged(v, x, lo, g) ==
  /\ Ordered(x) /\ Len(x.parts) = Len(v) - 1 /\ lo \in 1..(Len(v) - 1)
  /\ \A j \in 1..(Len(v) - 1) : ViewOf(x)[j] = IF j < lo THEN v[j] ELSE IF j = lo THEN g ELSE v[j + 1]

(* A neighbour is deleted whose blocks entry k has been given.              *)
LEMMA MergeFacts ==
  ASSUME NEW m, Ordered(m), NEW k \in 1..Len(m.parts), NEW p \in 1..Len(m.parts), p # k,
         NEW g \in Entry, NEW lo,
         \/ At(m.base, p) = At(m.base, k) + 1 /\ lo = At(m.base, k)
         \/ At(m.base, p) = At(m.base, k) - 1 /\ lo = At(m.base, p)
  PROVE  LET x == Delete([m EXCEPT !.parts[k] = g], p)
             k2 == IF p < k THEN k - 1 ELSE k
         IN  Merged(ViewOf(m), x, lo, g) /\ k2 \in 1..Len(x.parts) /\ At(x.base, k2) = lo
<1> DEFINE c == [m EXCEPT !.parts[k] = g]
           x == Delete(c, p)
           k2 == IF p < k THEN k - 1 ELSE k
           q == At(m.base, k)
           r == At(m.base, p)
           v == ViewOf(m)
           n == Len(m.parts)
<1>1. n \in Nat /\ Len(v) = n /\ k \in Nat /\ p \in Nat
  BY SessionFacts
<1>2. q \in 1..n /\ q \in Nat /\ m.base[q] = k /\ r \in 1..n /\ r \in Nat
  BY AtFacts
<1>3. /\ Ordered(c) /\ Len(c.parts) = n /\ c.base = m.base
      /\ \A j \in 1..n : ViewOf(c)[j] = IF j = q THEN g ELSE v[j]
  BY SetFacts
<1> HIDE DEF c
<1>4. /\ Ordered(x) /\ Len(x.parts) = n - 1
      /\ \A j \in 1..(n - 1) :
           /\ ViewOf(x)[j] = IF j < r THEN ViewOf(c)[j] ELSE ViewOf(c)[j + 1]
           /\ j < r => x.base[j] = IF m.base[j] > p THEN m.base[j] - 1 ELSE m.base[j]
           /\ ~(j < r) => x.base[j] = IF m.base[j + 1] > p THEN m.base[j + 1] - 1 ELSE m.base[j + 1]
  <2>1. p \in 1..Len(c.parts) /\ r = At(c.base, p)
    BY <1>3
  <2> HIDE DEF r, n
  <2>2. /\ Ordered(x) /\ Len(x.parts) = Len(c.parts) - 1
        /\ \A j \in 1..(Len(c.parts) - 1) :
             /\ ViewOf(x)[j] = IF j < r THEN ViewOf(c)[j] ELSE ViewOf(c)[j + 1]
             /\ j < r => x.base[j] = IF c.base[j] > p THEN c.base[j] - 1 ELSE c.base[j]
             /\ ~(j < r) => x.base[j] = IF c.base[j + 1] > p THEN c.base[j + 1] - 1 ELSE c.base[j + 1]
    BY <1>3, <2>1, DeleteFacts
  <2> HIDE DEF x
  <2> QED
    BY <2>2, <1>3
<1>5. (r = q + 1 /\ lo = q) \/ (r = q - 1 /\ lo = r)
  OBVIOUS
<1> HIDE DEF x, q, r, v, n
<1>6. lo \in 1..(n - 1) /\ lo \in Nat
  BY <1>1, <1>2, <1>5
<1>7. ASSUME NEW j \in 1..(n - 1)
      PROVE  ViewOf(x)[j] = IF j < lo THEN v[j] ELSE IF j = lo THEN g ELSE v[j + 1]
  <2>1. j \in 1..n /\ j + 1 \in 1..n /\ j \in Nat
    BY <1>1
  <2>2. ViewOf(x)[j] = IF j < r THEN ViewOf(c)[j] ELSE ViewOf(c)[j + 1]
    BY <1>4
  <2>3. /\ ViewOf(c)[j] = IF j = q THEN g ELSE v[j]
        /\ ViewOf(c)[j + 1] = IF j + 1 = q THEN g ELSE v[j + 1]
    BY <2>1, <1>3
  <2> QED
    BY <2>1, <2>2, <2>3, <1>2, <1>5
<1>8. k2 \in 1..(n - 1)
  <2>1. k \in 1..n /\ p \in 1..n
    BY DEF n
  <2> QED
    BY <2>1, <1>1
<1>9. x.base[lo] = k2
  <2>1. /\ lo < r => x.base[lo] = IF m.base[lo] > p THEN m.base[lo] - 1 ELSE m.base[lo]
        /\ ~(lo < r) => x.base[lo] = IF m.base[lo + 1] > p THEN m.base[lo + 1] - 1 ELSE m.base[lo + 1]
    BY <1>4, <1>6
  <2>2. CASE r = q + 1 /\ lo = q
    <3>1. lo < r
      BY <2>2, <1>2
    <3> QED
      BY <2>1, <2>2, <3>1, <1>1, <1>2
  <2>3. CASE r = q - 1 /\ lo = r
    <3>1. ~(lo < r) /\ lo + 1 = q
      BY <2>3, <1>2
    <3> QED
      BY <2>1, <3>1, <1>1, <1>2
  <2> QED
    BY <2>2, <2>3, <1>5
<1>10. At(x.base, k2) = lo
  <2> HIDE DEF k2
  <2>1. k2 \in 1..Len(x.parts) /\ lo \in 1..Len(x.parts)
    BY <1>4, <1>6, <1>8
  <2> QED
    BY <2>1, <1>4, <1>9, AtFacts
<1>11. Merged(v, x, lo, g)
  BY <1>1, <1>4, <1>6, <1>7 DEF Merged
<1>12. k2 \in 1..Len(x.parts)
  BY <1>4, <1>8
<1> QED
  BY <1>10, <1>11, <1>12 DEF x, c, v


\* A free entry that takes up the blocks of those at lo and lo + 1 of a row.
Whole(v, lo, g) ==
  /\ g \in Entry /\ IsFree(g)
  /\ Row(v) => g.start = v[lo].start /\ g.len = v[lo].len + v[lo + 1].len

LEMMA ThroughFacts ==
  ASSUME NEW v \in Seq(Entry), NEW lo \in 1..(Len(v) - 1), NEW end
  PROVE  LET e == v[lo]
             f == v[lo + 1]
         IN  end = (IF End(e) = f.start THEN End(f) ELSE Larger(End(e), End(f))) => Whole(v, lo, Through(e.start, end))
<1> DEFINE e == v[lo]
           f == v[lo + 1]
           g == Through(e.start, end)
<1>1. lo \in 1..Len(v) /\ lo + 1 \in 1..Len(v)
  OBVIOUS
<1>2. e \in Entry /\ f \in Entry /\ e.start \in Nat /\ e.len \in Nat /\ f.start \in Nat /\ f.len \in Nat
  BY <1>1, EntryFacts
<1> SUFFICES ASSUME end = IF End(e) = f.start THEN End(f) ELSE Larger(End(e), End(f))
             PROVE  Whole(v, lo, g)
  OBVIOUS
<1>3. e.start \in 0..(Word - 1)
  BY <1>2 DEF Entry
<1>4. Row(v) => e.start + e.len = f.start /\ f.start + f.len < Word /\ e.start + e.len < Word
  <2>1. ASSUME NEW i \in 1..(Len(v) - 1), Row(v)
        PROVE  v[i].start + v[i].len = v[i + 1].start
    BY <2>1 DEF Row
  <2>2. ASSUME NEW i \in 1..Len(v), Row(v)
        PROVE  v[i].start + v[i].len < Word
    BY <2>2 DEF Row
  <2> QED
    BY <1>1, <2>1, <2>2
<1>5. e.start + e.len \in Int /\ f.start + f.len \in Int /\ Word \in Nat
  BY <1>2, SizesAssumption
<1> HIDE DEF e, f
<1>6. End(e) \in Nat /\ End(f) \in Nat
  <2>1. Unsigned(e.start + e.len) \in 0..(Word - 1) /\ Unsigned(f.start + f.len) \in 0..(Word - 1)
    BY <1>5, UnsignedFacts
  <2> QED
    BY <2>1 DEF End
<1>7. end - e.start \in Int
  BY <1>2, <1>6 DEF Larger
<1>8. g \in Entry
  BY <1>3, <1>7, PartFacts, <1>2 DEF Through, Types
<1>9. g.type = "free" /\ g.start = e.start /\ g.len = Unsigned(end - e.start)
  BY DEF Through, Part
<1>10. ASSUME Row(v) PROVE g.len = e.len + f.len
  <2>1. e.start + e.len \in 0..(Word - 1) /\ f.start + f.len \in 0..(Word - 1)
    BY <1>2, <1>4, <1>5, <1>10
  <2>2. End(e) = e.start + e.len /\ End(f) = f.start + f.len
    BY <2>1, UnsignedFacts DEF End
  <2>3. end - e.start = e.len + f.len /\ e.len + f.len \in 0..(Word - 1)
    BY <2>1, <2>2, <1>2, <1>4, <1>5, <1>10, SMTT(20)
  <2>4. Unsigned(e.len + f.len) = e.len + f.len
    BY <2>3, UnsignedFacts
  <2> QED
    BY <2>3, <2>4, <1>9
<1> HIDE DEF g
<1>11. Whole(v, lo, g)
  BY <1>8, <1>9, <1>10 DEF Whole, IsFree, e, f
<1> QED
  BY <1>11

(* Joining the next entry merges the two, if it is free.                    *)
LEMMA JoinNextFacts ==
  ASSUME NEW m, Ordered(m), NEW k \in 1..Len(m.parts)
  PROVE  LET q == At(m.base, k)
             v == ViewOf(m)
             x == JoinNext(m, k)
         IN  /\ Ordered(x) /\ After(m, k) \in 1..Len(x.parts) /\ At(x.base, After(m, k)) = q
             /\ IF q < Len(m.parts) /\ IsFree(v[q + 1])
                THEN \E g : Whole(v, q, g) /\ Merged(v, x, q, g)
                ELSE x = m
<1> DEFINE q == At(m.base, k)
           v == ViewOf(m)
           n == Len(m.parts)
           p == NextByBase(m, k)
           e == m.parts[k]
           f == m.parts[p]
           end == IF End(e) = f.start THEN End(f) ELSE Larger(End(e), End(f))
           g == Through(e.start, end)
           x == JoinNext(m, k)
<1>1. /\ n \in Nat /\ v \in Seq(Entry) /\ Len(v) = n /\ q \in 1..n /\ v[q] = e
      /\ IF q = n THEN p = 0 ELSE p \in 1..n /\ p # k /\ At(m.base, p) = q + 1 /\ f = v[q + 1]
  <2>1. n \in Nat /\ v \in Seq(Entry) /\ Len(v) = n
    BY SessionFacts
  <2>2. /\ q \in 1..n /\ v[q] = e
        /\ IF q = n THEN p = 0 ELSE p \in 1..n /\ p # k /\ At(m.base, p) = q + 1 /\ f = v[q + 1]
    BY NeighbourFacts
  <2> QED
    BY <2>1, <2>2
<1>2. x = IF p = 0 \/ ~IsFree(f) THEN m ELSE Delete([m EXCEPT !.parts[k] = g], p)
  BY DEF JoinNext
<1>3. After(m, k) = IF p # 0 /\ p < k /\ IsFree(f) THEN k - 1 ELSE k
  BY DEF After
<1> HIDE DEF x, p, e, f
<1>4. CASE q = n \/ ~IsFree(v[q + 1])
  <2>1. x = m /\ After(m, k) = k
    BY <1>1, <1>2, <1>3, <1>4
  <2> QED
    BY <2>1, <1>1, <1>4 DEF x
<1>5. CASE ~(q = n \/ ~IsFree(v[q + 1]))
  <2>1. q < n /\ q \in 1..(Len(v) - 1)
    BY <1>1, <1>5
  <2>2. p \in 1..n /\ p # k /\ p # 0 /\ At(m.base, p) = q + 1 /\ f = v[q + 1] /\ IsFree(f)
    BY <1>1, <1>5
  <2>3. Whole(v, q, g)
    <3>1. v[q] = e /\ v[q + 1] = f
      BY <1>1, <2>2
    <3> HIDE DEF q, v
    <3> QED
      BY <3>1, <2>1, <1>1, ThroughFacts
  <2>4. g \in Entry
    BY <2>3 DEF Whole
  <2> HIDE DEF g
  <2>5. x = Delete([m EXCEPT !.parts[k] = g], p)
    BY <2>2, <1>2
  <2>6. After(m, k) = IF p < k THEN k - 1 ELSE k
    BY <2>2, <1>3
  <2>7. Merged(v, x, q, g) /\ After(m, k) \in 1..Len(x.parts) /\ At(x.base, After(m, k)) = q
    BY <2>2, <2>4, <2>5, <2>6, MergeFacts
  <2>8. Ordered(x)
    BY <2>7 DEF Merged
  <2> QED
    BY <2>1, <2>3, <2>7, <2>8, <1>5 DEF x
<1> QED
  BY <1>4, <1>5


LEMMA JoinPrevFacts ==
  ASSUME NEW m, Ordered(m), NEW k \in 1..Len(m.parts)
  PROVE  LET q == At(m.base, k)
             v == ViewOf(m)
             x == JoinPrev(m, k)
         IN  /\ Ordered(x)
             /\ IF q > 1 /\ IsFree(v[q - 1])
                THEN \E g : Whole(v, q - 1, g) /\ Merged(v, x, q - 1, g)
                ELSE x = m
<1> DEFINE q == At(m.base, k)
           v == ViewOf(m)
           n == Len(m.parts)
           p == PrevByBase(m, k)
           e == m.parts[k]
           f == m.parts[p]
           end == IF End(f) = e.start THEN End(e) ELSE Larger(End(f), End(e))
           g == Through(f.start, end)
           x == JoinPrev(m, k)
           lo == q - 1
<1>1. /\ n \in Nat /\ v \in Seq(Entry) /\ Len(v) = n /\ q \in 1..n /\ v[q] = e
      /\ IF q = 1 THEN p = 0 ELSE p \in 1..n /\ p # k /\ At(m.base, p) = q - 1 /\ f = v[q - 1]
  <2>1. n \in Nat /\ v \in Seq(Entry) /\ Len(v) = n
    BY SessionFacts
  <2>2. /\ q \in 1..n /\ v[q] = e
        /\ IF q = 1 THEN p = 0 ELSE p \in 1..n /\ p # k /\ At(m.base, p) = q - 1 /\ f = v[q - 1]
    BY NeighbourFacts
  <2> QED
    BY <2>1, <2>2
<1>2. x = IF p = 0 \/ ~IsFree(f) THEN m ELSE Delete([m EXCEPT !.parts[k] = g], p)
  BY DEF JoinPrev
<1> HIDE DEF x, p, e, f
<1>3. CASE q = 1 \/ ~IsFree(v[q - 1])
  <2>1. x = m
    BY <1>1, <1>2, <1>3
  <2> QED
    BY <2>1, <1>1, <1>3 DEF x
<1>4. CASE ~(q = 1 \/ ~IsFree(v[q - 1]))
  <2>1. q > 1 /\ lo \in 1..(Len(v) - 1) /\ lo + 1 = q
    BY <1>1, <1>4
  <2>2. p \in 1..n /\ p # k /\ p # 0 /\ At(m.base, p) = lo /\ f = v[lo] /\ IsFree(f)
    BY <1>1, <1>4
  <2>3. Whole(v, lo, g)
    <3>1. v[lo] = f /\ v[lo + 1] = e
      BY <1>1, <2>1, <2>2
    <3> HIDE DEF q, v, lo
    <3> QED
      BY <3>1, <2>1, <1>1, ThroughFacts
  <2>4. g \in Entry
    BY <2>3 DEF Whole
  <2> HIDE DEF g
  <2>5. x = Delete([m EXCEPT !.parts[k] = g], p)
    BY <2>2, <1>2
  <2>6. Merged(v, x, lo, g)
    BY <2>2, <2>4, <2>5, MergeFacts
  <2>7. Ordered(x)
    BY <2>6 DEF Merged
  <2> QED
    BY <2>1, <2>3, <2>6, <2>7, <1>4 DEF x
<1> QED
  BY <1>3, <1>4

(* Both keep a row a row.                                                   *)
LEMMA MergedRow ==
  ASSUME NEW v \in Seq(Entry), NEW x, NEW lo, NEW g, Row(v), Whole(v, lo, g), Merged(v, x, lo, g)
  PROVE  Row(ViewOf(x))
<1> DEFINE w == ViewOf(x)
<1>1. /\ Len(v) \in Nat /\ lo \in 1..(Len(v) - 1) /\ lo \in Nat
      /\ w \in Seq(Entry) /\ Len(w) = Len(v) - 1
  BY SessionFacts, SMTT(20) DEF Merged
<1>2. \A j \in 1..(Len(v) - 1) : w[j] = IF j < lo THEN v[j] ELSE IF j = lo THEN g ELSE v[j + 1]
  BY DEF Merged
<1> HIDE DEF w
<1>3. Patched(v, w, lo, lo + 1, lo)
  <2>1. \A j \in (lo + 1)..Len(w) : j - lo + (lo + 1) = j + 1 /\ ~(j < lo) /\ j # lo /\ j \in 1..(Len(v) - 1)
    BY <1>1
  <2>2. \A j \in 1..(lo - 1) : j < lo /\ j \in 1..(Len(v) - 1)
    BY <1>1
  <2>3. /\ lo \in 1..Len(v) /\ lo + 1 \in lo..Len(v) /\ lo \in lo..Len(w)
        /\ Len(w) - lo = Len(v) - (lo + 1)
    BY <1>1
  <2> QED
    BY <1>2, <2>1, <2>2, <2>3 DEF Patched
<1>4. w[lo] = g
  BY <1>1, <1>2
<1>5. g.start = v[lo].start /\ g.len = v[lo].len + v[lo + 1].len
  BY DEF Whole
<1>6. /\ v[lo].start + v[lo].len = v[lo + 1].start /\ v[lo].len > 0
      /\ v[lo + 1].len > 0 /\ v[lo + 1].start + v[lo + 1].len < Word
  <2>1. lo \in 1..Len(v) /\ lo + 1 \in 1..Len(v)
    BY <1>1
  <2> QED
    BY <1>1, <2>1 DEF Row
<1>7. v[lo].start \in Nat /\ v[lo].len \in Nat /\ v[lo + 1].start \in Nat /\ v[lo + 1].len \in Nat
  <2>1. lo \in 1..Len(v) /\ lo + 1 \in 1..Len(v)
    BY <1>1
  <2> QED
    BY <2>1, EntryFacts
<1>8. /\ w[lo].len > 0 /\ w[lo].start + w[lo].len < Word
      /\ w[lo].start = v[lo].start
      /\ w[lo].start + w[lo].len = v[lo + 1].start + v[lo + 1].len
  BY <1>4, <1>5, <1>6, <1>7, SMTT(20)
<1>9. lo..lo = {lo} /\ lo..(lo - 1) = {}
  BY <1>1
<1> QED
  BY <1>1, <1>3, <1>8, <1>9, RowPatch DEF w


\* The pairs of neighbours where one may be free, all but those in S.
LooseBut(v, S) == \A i \in 1..(Len(v) - 1) : i \notin S => ~IsFree(v[i]) \/ ~IsFree(v[i + 1])

(* The entry is free: still a row, and loose but for its two neighbours.    *)
LEMMA FreeFacts ==
  ASSUME NEW m, Ordered(m), NEW k \in 1..Len(m.parts)
  PROVE  LET x == [m EXCEPT !.parts[k].type = "free", !.changed = TRUE]
             q == At(m.base, k)
         IN  /\ Ordered(x) /\ Len(x.parts) = Len(m.parts) /\ x.base = m.base /\ IsFree(ViewOf(x)[q])
             /\ Row(ViewOf(m)) => Row(ViewOf(x))
             /\ Loose(ViewOf(m)) => LooseBut(ViewOf(x), {q - 1, q})
<1> DEFINE e == m.parts[k]
           g == [e EXCEPT !.type = "free"]
           c == [m EXCEPT !.parts[k] = g]
           x == [m EXCEPT !.parts[k].type = "free", !.changed = TRUE]
           q == At(m.base, k)
           v == ViewOf(m)
           u == ViewOf(x)
           n == Len(m.parts)
<1>1. m \in Session /\ m.parts \in Seq(Entry) /\ n \in Nat /\ v \in Seq(Entry) /\ Len(v) = n
  BY SessionFacts
<1>2. q \in 1..n /\ q \in Nat /\ v[q] = e
  BY NeighbourFacts, <1>1
<1>3. g \in Entry /\ g.start = e.start /\ g.len = e.len /\ IsFree(g)
  <2>1. e \in Entry
    BY <1>1
  <2> HIDE DEF e
  <2> QED
    BY <2>1 DEF Entry, Types, IsFree
<1>4. x = [c EXCEPT !.changed = TRUE]
  BY <1>1 DEF Session
<1> HIDE DEF g, x
<1>5. /\ Ordered(c) /\ Len(c.parts) = n /\ c.base = m.base
      /\ \A j \in 1..n : ViewOf(c)[j] = IF j = q THEN g ELSE v[j]
  BY <1>3, SetFacts
<1>6. c \in Session
  BY <1>5, SessionFacts
<1> HIDE DEF c, q
<1>7. x \in Session /\ x.parts = c.parts /\ x.base = c.base
  BY <1>4, <1>6 DEF Session
<1>8. Ordered(x) /\ ViewOf(x) = ViewOf(c)
  BY <1>5, <1>7, FlagFacts
<1>9. Len(u) = n /\ \A j \in 1..n : u[j] = IF j = q THEN g ELSE v[j]
  BY <1>5, <1>7, <1>8, SessionFacts
<1> HIDE DEF u, v, n, e
<1>10. \A j \in 1..n : u[j].start = v[j].start /\ u[j].len = v[j].len
  BY <1>2, <1>3, <1>9
<1>11. ASSUME Row(v) PROVE Row(u)
  <2>1. 1 \in 1..n /\ n \in 1..n /\ \A i \in 1..(n - 1) : i \in 1..n /\ i + 1 \in 1..n
    BY <1>1, <1>2
  <2>2. \A i \in 1..n : u[i].len > 0 /\ u[i].start + u[i].len < Word
    BY <1>1, <1>10, <1>11 DEF Row
  <2>3. u[1].start = 1 /\ u[n].start + u[n].len = MediaSize
    BY <1>1, <1>10, <1>11, <2>1 DEF Row
  <2>4. \A i \in 1..(n - 1) : u[i].start + u[i].len = u[i + 1].start
    BY <1>1, <1>10, <1>11, <2>1 DEF Row
  <2> QED
    BY <1>9, <2>2, <2>3, <2>4 DEF Row
<1>12. ASSUME Loose(v) PROVE LooseBut(u, {q - 1, q})
  <2>1. ASSUME NEW i \in 1..(Len(u) - 1), i \notin {q - 1, q}
        PROVE  ~IsFree(u[i]) \/ ~IsFree(u[i + 1])
    <3>1. i \in 1..(Len(v) - 1) /\ i \in 1..n /\ i + 1 \in 1..n /\ i # q /\ i + 1 # q
      BY <2>1, <1>1, <1>2, <1>9
    <3> QED
      BY <3>1, <1>9, <1>12 DEF Loose
  <2> QED
    BY <2>1 DEF LooseBut
<1>13. IsFree(u[q]) /\ Len(x.parts) = n
  BY <1>2, <1>3, <1>5, <1>7, <1>9
<1> QED
  BY <1>5, <1>7, <1>8, <1>11, <1>12, <1>13 DEF x, u, v, q, n, c

(* What joining the next entry does to the neighbours.                      *)
LEMMA NextLoose ==
  ASSUME NEW v \in Seq(Entry), NEW x, NEW q \in Nat, NEW g, Whole(v, q, g), Merged(v, x, q, g),
         LooseBut(v, {q - 1, q}), IsFree(v[q + 1])
  PROVE  LooseBut(ViewOf(x), {q - 1}) /\ IsFree(ViewOf(x)[q])
<1> DEFINE w == ViewOf(x)
<1>1. /\ Len(v) \in Nat /\ q \in 1..(Len(v) - 1) /\ Len(w) = Len(v) - 1 /\ IsFree(g)
      /\ \A j \in 1..(Len(v) - 1) : w[j] = IF j < q THEN v[j] ELSE IF j = q THEN g ELSE v[j + 1]
  BY SessionFacts, SMTT(20) DEF Merged, Whole
<1> HIDE DEF w
<1>2. w[q] = g
  BY <1>1
<1>3. ASSUME NEW i \in 1..(Len(w) - 1), i \notin {q - 1}
      PROVE  ~IsFree(w[i]) \/ ~IsFree(w[i + 1])
  <2>1. i \in 1..(Len(v) - 1) /\ i + 1 \in 1..(Len(v) - 1) /\ i \in Nat
    BY <1>1
  <2>2. CASE i < q
    <3>1. i + 1 < q /\ i \notin {q - 1, q}
      BY <1>3, <2>1, <2>2
    <3> QED
      BY <3>1, <2>1, <2>2, <1>1 DEF LooseBut
  <2>3. CASE ~(i < q)
    <3>1. i + 1 \notin {q - 1, q} /\ ~(i + 1 < q) /\ i + 1 # q
      BY <2>1, <2>3
    <3>2. ~IsFree(v[i + 1]) \/ ~IsFree(v[i + 1 + 1])
      BY <3>1, <2>1 DEF LooseBut
    <3>3. w[i + 1] = v[i + 1 + 1] /\ w[i] = IF i = q THEN g ELSE v[i + 1]
      BY <3>1, <2>1, <2>3, <1>1
    <3> QED
      BY <3>2, <3>3
  <2> QED
    BY <2>2, <2>3
<1> QED
  BY <1>1, <1>2, <1>3 DEF LooseBut, w

(* Joining the one before it then leaves no two of them free.               *)
LEMMA PrevLoose ==
  ASSUME NEW v \in Seq(Entry), NEW x, NEW lo \in Nat, NEW g, Whole(v, lo, g), Merged(v, x, lo, g),
         LooseBut(v, {lo}), IsFree(v[lo]), IsFree(v[lo + 1])
  PROVE  Loose(ViewOf(x))
<1> DEFINE w == ViewOf(x)
<1>1. /\ Len(v) \in Nat /\ lo \in 1..(Len(v) - 1) /\ Len(w) = Len(v) - 1 /\ IsFree(g)
      /\ \A j \in 1..(Len(v) - 1) : w[j] = IF j < lo THEN v[j] ELSE IF j = lo THEN g ELSE v[j + 1]
  BY SessionFacts DEF Merged, Whole
<1> HIDE DEF w
<1>2. ASSUME NEW i \in 1..(Len(w) - 1)
      PROVE  ~IsFree(w[i]) \/ ~IsFree(w[i + 1])
  <2>1. i \in 1..(Len(v) - 1) /\ i + 1 \in 1..(Len(v) - 1) /\ i \in Nat
    BY <1>1
  <2>2. CASE i < lo
    <3>1. ~IsFree(v[i]) \/ ~IsFree(v[i + 1])
      BY <2>1, <2>2 DEF LooseBut
    <3>2. w[i] = v[i] /\ w[i + 1] = IF i + 1 = lo THEN g ELSE v[i + 1]
      BY <2>1, <2>2, <1>1
    <3> QED
      BY <3>1, <3>2
  <2>3. CASE ~(i < lo)
    <3>1. i + 1 \notin {lo} /\ ~(i + 1 < lo) /\ i + 1 # lo
      BY <2>1, <2>3
    <3>2. ~IsFree(v[i + 1]) \/ ~IsFree(v[i + 1 + 1])
      BY <3>1, <2>1 DEF LooseBut
    <3>3. w[i + 1] = v[i + 1 + 1] /\ w[i] = IF i = lo THEN g ELSE v[i + 1]
      BY <3>1, <2>1, <2>3, <1>1
    <3> QED
      BY <3>2, <3>3
  <2> QED
    BY <2>2, <2>3
<1> QED
  BY <1>2 DEF Loose, w


(* A deletion keeps the map whole.                                          *)
LEMMA FreedSound ==
  ASSUME NEW m, Ordered(m), NEW k \in 1..Len(m.parts)
  PROVE  LET x == Freed(m, k)
         IN  /\ Ordered(x) /\ Len(x.parts) > 0
             /\ Row(ViewOf(m)) => Row(ViewOf(x))
             /\ Loose(ViewOf(m)) => Loose(ViewOf(x))
<1> DEFINE a == [m EXCEPT !.parts[k].type = "free", !.changed = TRUE]
           b == JoinNext(a, k)
           h == After(a, k)
           x == JoinPrev(b, h)
           q == At(m.base, k)
           n == Len(m.parts)
<1>1. Freed(m, k) = x
  BY DEF Freed
<1>2. /\ Ordered(a) /\ Len(a.parts) = n /\ a.base = m.base /\ IsFree(ViewOf(a)[q])
      /\ Row(ViewOf(m)) => Row(ViewOf(a))
      /\ Loose(ViewOf(m)) => LooseBut(ViewOf(a), {q - 1, q})
  BY FreeFacts
<1>3. n \in Nat /\ q \in 1..n /\ q \in Nat
  BY AtFacts, SessionFacts
<1>4. q = At(a.base, k) /\ k \in 1..Len(a.parts)
  BY <1>2
<1> HIDE DEF a, q, n
<1>5. /\ Ordered(b) /\ h \in 1..Len(b.parts) /\ At(b.base, h) = q
      /\ IF q < n /\ IsFree(ViewOf(a)[q + 1])
         THEN \E g : Whole(ViewOf(a), q, g) /\ Merged(ViewOf(a), b, q, g)
         ELSE b = a
  BY <1>2, <1>4, JoinNextFacts
<1> HIDE DEF b, h
<1>6. ViewOf(a) \in Seq(Entry) /\ Len(ViewOf(a)) = n /\ ViewOf(b) \in Seq(Entry)
  BY <1>2, <1>5, SessionFacts
<1>7. /\ Row(ViewOf(a)) => Row(ViewOf(b))
      /\ LooseBut(ViewOf(a), {q - 1, q}) => LooseBut(ViewOf(b), {q - 1})
      /\ IsFree(ViewOf(b)[q])
  <2>1. CASE q < n /\ IsFree(ViewOf(a)[q + 1])
    <3>1. PICK g : Whole(ViewOf(a), q, g) /\ Merged(ViewOf(a), b, q, g)
      BY <2>1, <1>5
    <3>2. Row(ViewOf(a)) => Row(ViewOf(b))
      BY <3>1, <1>6, MergedRow
    <3>3. LooseBut(ViewOf(a), {q - 1, q}) => LooseBut(ViewOf(b), {q - 1})
      BY <2>1, <3>1, <1>3, <1>6, NextLoose
    <3>4. ViewOf(b)[q] = g /\ IsFree(g)
      BY <3>1, <1>3 DEF Merged, Whole
    <3> QED
      BY <3>2, <3>3, <3>4
  <2>2. CASE ~(q < n /\ IsFree(ViewOf(a)[q + 1]))
    <3>1. b = a
      BY <2>2, <1>5
    <3>2. ASSUME LooseBut(ViewOf(a), {q - 1, q}) PROVE LooseBut(ViewOf(a), {q - 1})
      <4>1. ASSUME NEW i \in 1..(Len(ViewOf(a)) - 1), i \notin {q - 1}
            PROVE  ~IsFree(ViewOf(a)[i]) \/ ~IsFree(ViewOf(a)[i + 1])
        <5>1. CASE i = q
          BY <5>1, <2>2, <1>3, <1>6
        <5>2. CASE i # q
          BY <4>1, <5>2, <3>2 DEF LooseBut
        <5> QED
          BY <5>1, <5>2
      <4> QED
        BY <4>1 DEF LooseBut
    <3> QED
      BY <3>1, <3>2, <1>2
  <2> QED
    BY <2>1, <2>2
<1>8. /\ Ordered(x)
      /\ IF q > 1 /\ IsFree(ViewOf(b)[q - 1])
         THEN \E g : Whole(ViewOf(b), q - 1, g) /\ Merged(ViewOf(b), x, q - 1, g)
         ELSE x = b
  BY <1>5, JoinPrevFacts
<1> HIDE DEF x
<1>9. q - 1 \in Nat /\ (q - 1) + 1 = q
  BY <1>3
<1>10. CASE q > 1 /\ IsFree(ViewOf(b)[q - 1])
  <2> DEFINE lo == q - 1
  <2>1. PICK g : Whole(ViewOf(b), lo, g) /\ Merged(ViewOf(b), x, lo, g)
    BY <1>8, <1>10
  <2>2. lo \in Nat /\ lo + 1 = q /\ IsFree(ViewOf(b)[lo])
    BY <1>9, <1>10
  <2> HIDE DEF lo
  <2>3. Row(ViewOf(b)) => Row(ViewOf(x))
    BY <2>1, <1>6, MergedRow
  <2>4. LooseBut(ViewOf(b), {lo}) => Loose(ViewOf(x))
    BY <2>1, <2>2, <1>6, <1>7, PrevLoose
  <2>5. Len(x.parts) > 0
    <3>1. Len(x.parts) = Len(ViewOf(b)) - 1 /\ lo \in 1..(Len(ViewOf(b)) - 1)
      BY <2>1 DEF Merged
    <3>2. Len(ViewOf(b)) \in Nat
      BY <1>6
    <3> QED
      BY <3>1, <3>2
  <2> QED
    BY <2>3, <2>4, <2>5, <1>1, <1>2, <1>7, <1>8 DEF lo
<1>11. CASE ~(q > 1 /\ IsFree(ViewOf(b)[q - 1]))
  <2>1. x = b
    BY <1>8, <1>11
  <2>2. ASSUME LooseBut(ViewOf(b), {q - 1}) PROVE Loose(ViewOf(b))
    <3>1. ASSUME NEW i \in 1..(Len(ViewOf(b)) - 1)
          PROVE  ~IsFree(ViewOf(b)[i]) \/ ~IsFree(ViewOf(b)[i + 1])
      <4>1. CASE i = q - 1
        <5>1. q > 1
          BY <4>1, <1>3
        <5> QED
          BY <4>1, <5>1, <1>11
      <4>2. CASE i # q - 1
        BY <4>2, <2>2 DEF LooseBut
      <4> QED
        BY <4>1, <4>2
    <3> QED
      BY <3>1 DEF Loose
  <2>3. Len(b.parts) > 0
    <3>1. Len(b.parts) \in Nat
      BY <1>5, SessionFacts
    <3> QED
      BY <3>1, <1>5
  <2> QED
    BY <2>1, <2>2, <2>3, <1>1, <1>2, <1>7, <1>8
<1> QED
  BY <1>10, <1>11


-----------------------------------------------------------------------------
(* move_entry_in_map, resize_map and a new map.                             *)

\* Each of the numbers from 1 to n once.
Permutes(order, n) ==
  /\ Len(order) = n /\ \A j \in 1..n : order[j] \in 1..n
  /\ \A i, j \in 1..n : order[i] = order[j] => i = j
  /\ \A h \in 1..n : \E j \in 1..n : order[j] = h

\* The old numbers in the new order when k becomes number index.
NewOrder(n, k, index) ==
  LET others == RemoveAt([i \in 1..n |-> i], k)
  IN  InsertAt(others, Slot(others, index), k)

(* Reordering numbers the entries anew, each number once.                   *)
LEMMA OrderFacts ==
  ASSUME NEW n \in Nat, NEW k \in 1..n, NEW index \in Nat
  PROVE  Permutes(NewOrder(n, k, index), n)
<1> DEFINE q == [i \in 1..n |-> i]
           others == RemoveAt(q, k)
           s == Slot(others, index)
           order == InsertAt(others, s, k)
           Old(j) == IF j < s THEN j ELSE j - 1
           Up(j) == IF j < k THEN j ELSE j + 1
<1>1. q \in Seq(Nat) /\ Len(q) = n /\ \A i \in 1..n : q[i] = i
  OBVIOUS
<1> HIDE DEF q
<1>2. /\ others \in Seq(Nat) /\ Len(others) = n - 1
      /\ \A j \in 1..(n - 1) : others[j] = Up(j)
  <2>1. k \in 1..Len(q)
    BY <1>1
  <2>2. /\ others \in Seq(Nat) /\ Len(others) = Len(q) - 1
        /\ \A j \in 1..(Len(q) - 1) : others[j] = IF j < k THEN q[j] ELSE q[j + 1]
    BY ONLY <1>1, <2>1, RemoveAtNats
  <2> HIDE DEF others
  <2>3. \A j \in 1..(n - 1) : q[j] = j /\ q[j + 1] = j + 1
    BY <1>1
  <2> QED
    BY <1>1, <2>2, <2>3
<1> HIDE DEF others
<1>3. s \in 1..n /\ s \in Nat /\ k \in Nat
  <2>1. s \in 1..(Len(others) + 1)
    BY <1>2, SlotRange
  <2> HIDE DEF s
  <2> QED
    BY <2>1, <1>2
<1> HIDE DEF s
<1>4. /\ Len(order) = n
      /\ \A j \in 1..n : order[j] = IF j < s THEN others[j] ELSE IF j = s THEN k ELSE others[j - 1]
  <2>1. s \in 1..(Len(others) + 1) /\ Len(others) + 1 = n
    BY <1>2, <1>3
  <2>2. /\ Len(order) = Len(others) + 1
        /\ \A j \in 1..(Len(others) + 1) :
             order[j] = IF j < s THEN others[j] ELSE IF j = s THEN k ELSE others[j - 1]
    <3>1. others \in Seq(Nat) /\ k \in Nat
      BY <1>2, <1>3
    <3> QED
      BY ONLY <3>1, <2>1, InsertAtNats DEF order
  <2> QED
    BY <2>1, <2>2
<1> HIDE DEF order
<1>5. order[s] = k
  BY <1>3, <1>4
<1>6. \A j \in 1..n : j # s => Old(j) \in 1..(n - 1) /\ order[j] = Up(Old(j))
  <2> TAKE j \in 1..n
  <2> HAVE j # s
  <2>1. j \in Nat
    OBVIOUS
  <2>2. CASE j < s
    <3>1. j \in 1..(n - 1)
      BY <2>1, <2>2, <1>3
    <3> QED
      BY <2>2, <3>1, <1>2, <1>4
  <2>3. CASE ~(j < s)
    <3>1. j - 1 \in 1..(n - 1)
      BY <2>1, <2>3, <1>3
    <3> HIDE DEF Up
    <3> QED
      BY <2>3, <3>1, <1>2, <1>4
  <2> QED
    BY <2>2, <2>3
<1>7. \A j \in 1..(n - 1) : Up(j) \in 1..n /\ Up(j) # k
  BY <1>3
<1>8. \A i, j \in 1..(n - 1) : Up(i) = Up(j) => i = j
  BY <1>3
<1>9. \A i, j \in 1..n : i # s /\ j # s /\ Old(i) = Old(j) => i = j
  BY <1>3
<1>10. \A h \in 1..n : h # k => \E j \in 1..(n - 1) : Up(j) = h
  <2> TAKE h \in 1..n
  <2> HAVE h # k
  <2>1. h \in Nat
    OBVIOUS
  <2>2. CASE h < k
    <3>1. h \in 1..(n - 1) /\ Up(h) = h
      BY <2>1, <2>2, <1>3
    <3> HIDE DEF Up
    <3> QED
      BY <3>1
  <2>3. CASE ~(h < k)
    <3>1. h - 1 \in 1..(n - 1) /\ Up(h - 1) = h
      BY <2>1, <2>3, <1>3
    <3> HIDE DEF Up
    <3> QED
      BY <3>1
  <2> QED
    BY <2>2, <2>3
<1>11. \A i \in 1..(n - 1) : \E j \in 1..n : j # s /\ Old(j) = i
  <2> TAKE i \in 1..(n - 1)
  <2>1. CASE i < s
    <3>1. i \in 1..n /\ i # s /\ Old(i) = i
      BY <2>1, <1>3
    <3> HIDE DEF Old
    <3> QED
      BY <3>1
  <2>2. CASE ~(i < s)
    <3>1. i + 1 \in 1..n /\ i + 1 # s /\ Old(i + 1) = i
      BY <2>2, <1>3
    <3> HIDE DEF Old
    <3> QED
      BY <3>1
  <2> QED
    BY <2>1, <2>2
<1> HIDE DEF Old, Up
<1>12. \A j \in 1..n : order[j] \in 1..n
  BY <1>5, <1>6, <1>7
<1>13. ASSUME NEW i \in 1..n, NEW j \in 1..n, order[i] = order[j]
       PROVE  i = j
  <2>1. CASE i = s \/ j = s
    BY <2>1, <1>5, <1>6, <1>7, <1>13
  <2>2. CASE i # s /\ j # s
    BY <2>2, <1>6, <1>8, <1>9, <1>13
  <2> QED
    BY <2>1, <2>2
<1>14. ASSUME NEW h \in 1..n
       PROVE  \E j \in 1..n : order[j] = h
  <2>1. CASE h = k
    BY <2>1, <1>3, <1>5
  <2>2. CASE h # k
    <3>1. PICK i \in 1..(n - 1) : Up(i) = h
      BY <2>2, <1>10
    <3>2. PICK j \in 1..n : j # s /\ Old(j) = i
      BY <1>11
    <3> QED
      BY <3>1, <3>2, <1>6
  <2> QED
    BY <2>1, <2>2
<1> QED
  BY <1>4, <1>12, <1>13, <1>14 DEF Permutes, NewOrder, order, s, others, q

LEMMA MovedFacts ==
  ASSUME NEW m, Ordered(m), NEW k \in 1..Len(m.parts), NEW index \in Nat
  PROVE  LET x == Moved(m, k, index)
         IN  Ordered(x) /\ Len(x.parts) = Len(m.parts) /\ ViewOf(x) = ViewOf(m)
<1> DEFINE n == Len(m.parts)
           others == RemoveAt([i \in 1..n |-> i], k)
           order == InsertAt(others, Slot(others, index), k)
           Here(h, j) == order[j] = h
           parts == [j \in 1..Len(order) |-> m.parts[order[j]]]
           base == [i \in 1..Len(m.base) |-> CHOOSE j \in 1..Len(order) : Here(m.base[i], j)]
           x == Moved(m, k, index)
<1>1. /\ m \in Session /\ m.parts \in Seq(Entry) /\ m.base \in Seq(Nat) /\ n \in Nat /\ Len(m.base) = n
      /\ \A i \in 1..n : m.base[i] \in 1..n
  BY SessionFacts
<1>2. /\ \A i, j \in 1..n : m.base[i] = m.base[j] => i = j
      /\ \A h \in 1..n : \E i \in 1..n : m.base[i] = h
  BY <1>1 DEF Ordered
<1>3. /\ Len(order) = n /\ \A j \in 1..n : order[j] \in 1..n
      /\ \A i, j \in 1..n : order[i] = order[j] => i = j
      /\ \A h \in 1..n : \E j \in 1..n : order[j] = h
  <2>1. k \in 1..n
    OBVIOUS
  <2>2. n \in Nat /\ index \in Nat
    BY <1>1
  <2> HIDE DEF n
  <2>3. Permutes(NewOrder(n, k, index), n)
    BY <2>1, <2>2, OrderFacts
  <2>4. NewOrder(n, k, index) = order
    BY DEF NewOrder
  <2> HIDE DEF order
  <2> QED
    BY <2>3, <2>4 DEF Permutes
<1>4. x = [m EXCEPT !.parts = parts, !.base = base, !.changed = TRUE]
  BY <1>1 DEF Moved, Session
<1> HIDE DEF order, x
<1>5. parts \in Seq(Entry) /\ Len(parts) = n /\ \A j \in 1..n : parts[j] = m.parts[order[j]]
  <2>1. \A j \in 1..n : m.parts[order[j]] \in Entry
    <3>1. \A h \in 1..n : m.parts[h] \in Entry
      BY <1>1
    <3> HIDE DEF n
    <3> QED
      BY <3>1, <1>3
  <2>2. parts \in [1..n -> Entry] /\ \A j \in 1..n : parts[j] = m.parts[order[j]]
    BY <2>1, <1>3
  <2> HIDE DEF parts
  <2> QED
    BY <2>2, <1>1, FunIsSeq
<1>6. \A i \in 1..n : base[i] \in 1..n /\ order[base[i]] = m.base[i]
  <2> TAKE i \in 1..n
  <2>1. \E j \in 1..n : Here(m.base[i], j)
    BY <1>1, <1>3
  <2>2. base[i] = CHOOSE j \in 1..n : Here(m.base[i], j)
    BY <1>1, <1>3
  <2> HIDE DEF base, Here
  <2>3. base[i] \in 1..n /\ Here(m.base[i], base[i])
    BY <2>1, <2>2
  <2> QED
    BY <2>3 DEF Here
<1>7. base \in Seq(Nat) /\ Len(base) = n
  <2>1. base = [i \in 1..n |-> base[i]]
    BY <1>1
  <2> HIDE DEF base
  <2>2. \A i \in 1..n : base[i] \in Nat
    BY <1>1, <1>6
  <2>3. base \in [1..n -> Nat]
    BY <2>1, <2>2
  <2> QED
    BY <2>3, <1>1, FunIsSeq
<1> HIDE DEF parts, base
<1>8. x \in Session /\ x.parts = parts /\ x.base = base
  BY <1>1, <1>4, <1>5, <1>7 DEF Session
<1>9. \A i, j \in 1..n : base[i] = base[j] => i = j
  BY <1>2, <1>6
<1>10. \A h \in 1..n : \E i \in 1..n : base[i] = h
  <2> TAKE h \in 1..n
  <2>1. PICK i \in 1..n : m.base[i] = order[h]
    BY <1>2, <1>3
  <2>2. order[base[i]] = order[h] /\ base[i] \in 1..n
    BY <2>1, <1>6
  <2>3. base[i] = h
    BY ONLY <2>2, <1>3
  <2> QED
    BY <2>3
<1>11. Ordered(x)
  BY <1>5, <1>6, <1>7, <1>8, <1>9, <1>10 DEF Ordered
<1>12. \A i \in 1..n : parts[base[i]] = m.parts[m.base[i]]
  BY <1>5, <1>6
<1>13. ViewOf(x) = ViewOf(m)
  BY <1>1, <1>7, <1>8, <1>12 DEF ViewOf
<1> QED
  BY <1>5, <1>8, <1>11, <1>13 DEF x


(* The entry of the map is one of those there are.                          *)
LEMMA MapEntryFacts ==
  ASSUME NEW m, Ordered(m), MapEntries(m) # {}
  PROVE  MapEntry(m) \in 1..Len(m.parts)
<1> DEFINE I == MapEntries(m)
           Least(i) == \A j \in I : i <= j
<1>1. I \subseteq 1..Len(m.base)
  BY DEF MapEntries
<1>2. I \subseteq Nat
  BY <1>1
<1>3. MapEntry(m) = m.base[CHOOSE i \in I : Least(i)]
  BY DEF MapEntry
<1> HIDE DEF I
<1>4. \E i \in I : Least(i)
  BY <1>2, LeastNumber DEF I
<1> HIDE DEF Least
<1>5. (CHOOSE i \in I : Least(i)) \in I
  BY <1>4
<1>6. \A i \in 1..Len(m.base) : m.base[i] \in 1..Len(m.parts)
  BY SessionFacts
<1> QED
  BY <1>1, <1>3, <1>5, <1>6

(* Resizing the map keeps it whole.                                         *)
LEMMA ResizedSound ==
  ASSUME NEW m, Ordered(m), Len(m.parts) > 0, NEW size \in 0..(Word - 1)
  PROVE  LET x == Resized(m, size)
         IN  /\ Ordered(x) /\ Len(x.parts) > 0
             /\ Row(ViewOf(m)) /\ Sane(x) => /\ Row(ViewOf(x))
                                             /\ Loose(ViewOf(m)) => Loose(ViewOf(x))
<1> DEFINE k == MapEntry(m)
           f == Freed(m, k)
           a == Added(f, 1, size, "map")
           done == [a EXCEPT !.max = size]
           x == Resized(m, size)
<1>1. x = m \/ (MapEntries(m) # {} /\ x = done)
  BY DEF Resized
<1>2. CASE x = m
  BY <1>2
<1>3. CASE MapEntries(m) # {} /\ x = done
  <2>1. k \in 1..Len(m.parts)
    BY <1>3, MapEntryFacts
  <2> HIDE DEF k
  <2>2. /\ Ordered(f) /\ Len(f.parts) > 0
        /\ Row(ViewOf(m)) => Row(ViewOf(f))
        /\ Loose(ViewOf(m)) => Loose(ViewOf(f))
    BY <2>1, FreedSound
  <2> HIDE DEF f
  <2>3. 1 \in 0..(Word - 1) /\ size \in Nat /\ "map" \in Types \ {"free"} /\ "map" \in Types
    BY SizesAssumption DEF Types
  <2>4. Ordered(a) /\ Len(a.parts) >= Len(f.parts)
    BY <2>2, <2>3, AddedOrdered
  <2>5. ASSUME Row(ViewOf(f)), Sane(a)
        PROVE  Row(ViewOf(a)) /\ (Loose(ViewOf(f)) => Loose(ViewOf(a)))
    BY <2>2, <2>3, <2>5, AddedSound
  <2>6. a \in Session /\ Len(f.parts) \in Nat /\ Len(a.parts) \in Nat
    BY <2>2, <2>4, SessionFacts
  <2> HIDE DEF a, x
  <2>7. x \in Session /\ x.parts = a.parts /\ x.base = a.base
    BY <2>3, <2>6, <1>3 DEF Session
  <2>8. Ordered(x) /\ ViewOf(x) = ViewOf(a) /\ (Sane(x) => Sane(a))
    BY <2>4, <2>7, FlagFacts DEF Sane
  <2>9. Len(x.parts) > 0
    BY <2>2, <2>4, <2>6, <2>7
  <2> QED
    BY <2>2, <2>5, <2>8, <2>9 DEF x
<1> QED
  BY <1>1, <1>2, <1>3


-----------------------------------------------------------------------------
(* compute_device_size.                                                     *)

Middle(w) == (w[2] - w[1]) \div 2 + w[1]

\* What the search returns between w[1] and w[2]: the first block that cannot be read.
Clamp(size, w) == IF size <= w[1] THEN w[1] ELSE IF size > w[2] THEN w[2] + 1 ELSE size

\* One step of the search, by what f says of the smaller ones.
SearchStep(f, size, w) ==
  IF Middle(w) < size THEN IF Middle(w) = w[2] THEN Middle(w) + 1 ELSE f[<<Middle(w) + 1, w[2]>>]
  ELSE IF Middle(w) = w[1] THEN Middle(w) ELSE f[<<w[1], Middle(w) - 1>>]

Searches(f, size) == f = [w \in Spans |-> SearchStep(f, size, w)]

LEMMA MiddleFacts ==
  ASSUME NEW w \in Spans
  PROVE  /\ w[1] \in Nat /\ w[2] \in Nat /\ w[1] <= w[2]
         /\ Middle(w) \in Nat /\ w[1] <= Middle(w) /\ Middle(w) <= w[2]
<1>1. w[1] \in Nat /\ w[2] \in Nat /\ w[1] <= w[2]
  BY DEF Spans
<1>2. \A l, r \in Nat : l <= r =>
        /\ (r - l) \div 2 + l \in Nat /\ l <= (r - l) \div 2 + l /\ (r - l) \div 2 + l <= r
  OBVIOUS
<1> QED
  BY <1>1, <1>2 DEF Middle

LEMMA SmallerSpans ==
  ASSUME NEW w \in Spans
  PROVE  /\ Middle(w) # w[2] => <<Middle(w) + 1, w[2]>> \in Spans
         /\ Middle(w) # w[1] => <<w[1], Middle(w) - 1>> \in Spans
BY MiddleFacts DEF Spans

\* A step of the search returns what it should if the smaller ones do.
LEMMA StepClamps ==
  ASSUME NEW size \in Nat, NEW w \in Spans, NEW f,
         Middle(w) # w[2] => f[<<Middle(w) + 1, w[2]>>] = Clamp(size, <<Middle(w) + 1, w[2]>>),
         Middle(w) # w[1] => f[<<w[1], Middle(w) - 1>>] = Clamp(size, <<w[1], Middle(w) - 1>>)
  PROVE  SearchStep(f, size, w) = Clamp(size, w)
<1>1. /\ w[1] \in Nat /\ w[2] \in Nat /\ w[1] <= w[2]
      /\ Middle(w) \in Nat /\ w[1] <= Middle(w) /\ Middle(w) <= w[2]
  BY MiddleFacts
<1>2. CASE Middle(w) < size /\ Middle(w) = w[2]
  BY <1>1, <1>2 DEF SearchStep, Clamp
<1>3. CASE Middle(w) < size /\ Middle(w) # w[2]
  <2>1. SearchStep(f, size, w) = Clamp(size, <<Middle(w) + 1, w[2]>>)
    BY <1>3 DEF SearchStep
  <2> QED
    BY <2>1, <1>1, <1>3 DEF Clamp
<1>4. CASE ~(Middle(w) < size) /\ Middle(w) = w[1]
  BY <1>1, <1>4 DEF SearchStep, Clamp
<1>5. CASE ~(Middle(w) < size) /\ Middle(w) # w[1]
  <2>1. SearchStep(f, size, w) = Clamp(size, <<w[1], Middle(w) - 1>>)
    BY <1>5 DEF SearchStep
  <2> QED
    BY <2>1, <1>1, <1>5 DEF Clamp
<1> QED
  BY <1>2, <1>3, <1>4, <1>5

LEMMA SearchExists ==
  ASSUME NEW size \in Nat
  PROVE  \E f : Searches(f, size)
<1> DEFINE f == [w \in Spans |-> Clamp(size, w)]
<1>1. \A w \in Spans : f[w] = Clamp(size, w)
  OBVIOUS
<1>2. f = [w \in Spans |-> f[w]]
  OBVIOUS
<1> HIDE DEF f
<1>3. \A w \in Spans : f[w] = SearchStep(f, size, w)
  BY <1>1, StepClamps, SmallerSpans
<1>4. Searches(f, size)
  BY <1>2, <1>3 DEF Searches
<1> QED
  BY <1>4

LEMMA SearchFinds ==
  ASSUME NEW size \in Nat, NEW f, Searches(f, size), NEW v \in Spans
  PROVE  f[v] = Clamp(size, v)
<1> DEFINE Bad == {d \in Nat : \E w \in Spans : w[2] - w[1] = d /\ f[w] # Clamp(size, w)}
<1>1. \A w \in Spans : f[w] = SearchStep(f, size, w)
  BY DEF Searches
<1>2. SUFFICES ASSUME f[v] # Clamp(size, v) PROVE FALSE
  OBVIOUS
<1>3. v[2] - v[1] \in Bad
  BY <1>2, MiddleFacts
<1>4. PICK d \in Bad : \A y \in Bad : d <= y
  <2>1. Bad \subseteq Nat /\ Bad # {}
    BY <1>3
  <2> HIDE DEF Bad
  <2> QED
    BY <2>1, LeastNumber
<1>5. PICK w \in Spans : w[2] - w[1] = d /\ f[w] # Clamp(size, w)
  OBVIOUS
<1>6. /\ w[1] \in Nat /\ w[2] \in Nat /\ w[1] <= w[2]
      /\ Middle(w) \in Nat /\ w[1] <= Middle(w) /\ Middle(w) <= w[2]
  BY MiddleFacts
<1>7. ASSUME NEW u \in Spans, u[2] - u[1] < d
      PROVE  f[u] = Clamp(size, u)
  <2>1. u[2] - u[1] \in Nat
    BY MiddleFacts
  <2>2. d \in Nat /\ u[2] - u[1] \notin Bad
    <3>1. d \in Nat
      OBVIOUS
    <3> HIDE DEF Bad
    <3> QED
      BY <3>1, <2>1, <1>4, <1>7
  <2> QED
    BY <2>1, <2>2
<1> HIDE DEF Bad
<1>8. Middle(w) # w[2] => f[<<Middle(w) + 1, w[2]>>] = Clamp(size, <<Middle(w) + 1, w[2]>>)
  <2> HAVE Middle(w) # w[2]
  <2> DEFINE u == <<Middle(w) + 1, w[2]>>
  <2>1. u \in Spans /\ u[2] - u[1] < d
    <3>1. u \in Spans
      BY SmallerSpans
    <3>2. u[1] = Middle(w) + 1 /\ u[2] = w[2]
      OBVIOUS
    <3> HIDE DEF u
    <3>3. w[2] - (Middle(w) + 1) < w[2] - w[1]
      BY <1>6
    <3> QED
      BY <3>1, <3>2, <3>3, <1>5
  <2> HIDE DEF u
  <2>2. f[u] = Clamp(size, u)
    BY <2>1, <1>7
  <2> QED
    BY <2>2 DEF u
<1>9. Middle(w) # w[1] => f[<<w[1], Middle(w) - 1>>] = Clamp(size, <<w[1], Middle(w) - 1>>)
  <2> HAVE Middle(w) # w[1]
  <2> DEFINE u == <<w[1], Middle(w) - 1>>
  <2>1. u \in Spans /\ u[2] - u[1] < d
    <3>1. u \in Spans
      BY SmallerSpans
    <3>2. u[1] = w[1] /\ u[2] = Middle(w) - 1
      OBVIOUS
    <3> HIDE DEF u
    <3>3. (Middle(w) - 1) - w[1] < w[2] - w[1]
      BY <1>6
    <3> QED
      BY <3>1, <3>2, <3>3, <1>5
  <2> HIDE DEF u
  <2>2. f[u] = Clamp(size, u)
    BY <2>1, <1>7
  <2> QED
    BY <2>2 DEF u
<1>10. SearchStep(f, size, w) = Clamp(size, w)
  BY <1>8, <1>9, StepClamps
<1> QED
  BY <1>1, <1>5, <1>10


\* f are the blocks that are tried, further and further out.
Tries(f) == f = [i \in 0..Word |-> IF i = 0 THEN Probe ELSE Further(f[i - 1])]

LEMMA FurtherFacts ==
  ASSUME NEW b \in Nat, b > 0
  PROVE  Further(b) \in Nat /\ Further(b) > b
<1>1. Probe \in Nat /\ Probe >= 2
  BY SizesAssumption
<1>2. b * Probe \in Nat /\ b * Probe >= b * 2
  BY <1>1
<1> QED
  BY <1>2 DEF Further

LEMMA TriesExists == \E f : Tries(f)
<1> DEFINE S == Nat \ {0}
           G == [z \in S \X (1..Word) |-> Further(z[1])]
<1>1. Word \in Nat /\ Probe \in S
  BY SizesAssumption
<1>2. G \in [S \X (1..Word) -> S] /\ \A b \in S, k \in 1..Word : G[<<b, k>>] = Further(b)
  BY FurtherFacts
<1> HIDE DEF S, G
<1>3. PICK f : Defined(f, S, Word, Probe, G)
  <2>1. \E f : Defined(f, S, Word, Probe, G)
    BY ONLY <1>1, <1>2, Recursion
  <2> QED
    BY <2>1
<1>4. f \in [0..Word -> S] /\ f[0] = Probe /\ \A k \in 1..Word : f[k] = G[<<f[k - 1], k>>]
  BY <1>3 DEF Defined
<1>5. ASSUME NEW i \in 0..Word
      PROVE  f[i] = IF i = 0 THEN Probe ELSE Further(f[i - 1])
  <2>1. CASE i = 0
    BY <2>1, <1>4
  <2>2. CASE i # 0
    <3>1. i \in 1..Word /\ i - 1 \in 0..Word
      BY <2>2, <1>1
    <3>2. f[i] = G[<<f[i - 1], i>>] /\ f[i - 1] \in S
      BY <3>1, <1>4
    <3> QED
      BY <2>2, <3>1, <3>2, <1>2
  <2> QED
    BY <2>1, <2>2
<1>6. Tries(f)
  BY <1>4, <1>5 DEF Tries
<1> QED
  BY <1>6

(* They do get further out.                                                 *)
LEMMA TriesGrow ==
  ASSUME NEW f, Tries(f), NEW i \in 0..Word
  PROVE  f[i] \in Nat /\ f[i] > i /\ (i # 0 => f[i - 1] \in Nat /\ f[i - 1] < f[i])
<1> DEFINE Right(k) == f[k] \in Nat /\ f[k] > k
           Bad == {k \in 0..Word : ~Right(k)}
<1>1. \A k \in 0..Word : f[k] = IF k = 0 THEN Probe ELSE Further(f[k - 1])
  BY DEF Tries
<1>2. Word \in Nat /\ Probe \in Nat /\ Probe > 0
  BY SizesAssumption
<1>3. ASSUME NEW k \in 0..Word, k # 0, Right(k - 1)
      PROVE  Right(k) /\ f[k - 1] < f[k]
  <2>1. k \in Nat /\ f[k - 1] \in Nat /\ f[k - 1] > 0 /\ f[k - 1] > k - 1
    BY <1>3
  <2>2. Further(f[k - 1]) \in Nat /\ Further(f[k - 1]) > f[k - 1]
    BY <2>1, FurtherFacts
  <2>3. f[k] = Further(f[k - 1])
    BY <1>1, <1>3
  <2> QED
    BY <2>1, <2>2, <2>3
<1>4. Bad = {}
  <2> SUFFICES ASSUME Bad # {} PROVE FALSE
    OBVIOUS
  <2>1. PICK k \in Bad : \A y \in Bad : k <= y
    <3>1. Bad \subseteq Nat
      OBVIOUS
    <3> HIDE DEF Bad
    <3> QED
      BY <3>1, LeastNumber
  <2>2. k \in 0..Word /\ ~Right(k)
    OBVIOUS
  <2>3. k # 0
    BY <2>2, <1>1, <1>2
  <2>4. k - 1 \in 0..Word /\ k - 1 \notin Bad
    <3>1. k - 1 \in 0..Word /\ ~(k <= k - 1)
      BY <1>2, <2>2, <2>3
    <3> HIDE DEF Bad
    <3> QED
      BY <3>1, <2>1
  <2>5. Right(k - 1)
    BY <2>4
  <2> HIDE DEF Bad
  <2> QED
    BY <2>2, <2>3, <2>5, <1>3
<1>5. Right(i)
  <2> HIDE DEF Right
  <2> QED
    BY <1>4
<1>6. ASSUME i # 0 PROVE f[i - 1] \in Nat /\ f[i - 1] < f[i]
  <2>1. i - 1 \in 0..Word
    BY <1>6, <1>2
  <2>2. Right(i - 1)
    <3> HIDE DEF Right
    <3> QED
      BY <2>1, <1>4
  <2> QED
    BY <2>2, <1>3, <1>6
<1> QED
  BY <1>5, <1>6


\* The last block tried, and that it is the first at which the trying stops.
Stops(f, size, i) == f[i] >= size \/ Further(f[i]) >= Word \div 2

FirstStop(f, size, n) == Stops(f, size, n) /\ \A j \in 0..(n - 1) : ~Stops(f, size, j)

LEMMA StopExists ==
  ASSUME NEW f, Tries(f), NEW size \in 0..(Word - 1)
  PROVE  \E n \in 0..Word : FirstStop(f, size, n)
<1> DEFINE S == {i \in 0..Word : Stops(f, size, i)}
<1>1. Word \in Nat
  BY SizesAssumption
<1>2. Word \in S
  <2>1. Word \in 0..Word
    BY <1>1
  <2>2. f[Word] \in Nat /\ f[Word] > Word
    BY <2>1, TriesGrow
  <2>3. f[Word] >= size
    BY <1>1, <2>2
  <2> QED
    BY <2>1, <2>3 DEF Stops
<1>3. PICK n \in S : \A j \in S : n <= j
  <2>1. S \subseteq Nat /\ S # {}
    BY <1>2
  <2> HIDE DEF S
  <2> QED
    BY <2>1, LeastNumber
<1>4. n \in 0..Word /\ Stops(f, size, n)
  OBVIOUS
<1>5. ASSUME NEW j \in 0..(n - 1)
      PROVE  ~Stops(f, size, j)
  <2>1. j \in 0..Word /\ ~(n <= j)
    BY <1>1, <1>4
  <2>2. j \notin S
    <3> HIDE DEF S
    <3> QED
      BY <2>1, <1>3
  <2> QED
    BY <2>1, <2>2
<1> QED
  BY <1>4, <1>5 DEF FirstStop

\* What is searched, by what was tried.
Between(f, size, n) ==
  IF f[n] < size THEN <<f[n], Word - 2>> ELSE <<IF n = 0 THEN 0 ELSE f[n - 1], f[n]>>

LEMMA BetweenFacts ==
  ASSUME NEW f, Tries(f), NEW size \in 0..(Word - 1), NEW n \in 0..Word, FirstStop(f, size, n)
  PROVE  Between(f, size, n) \in Spans /\ Clamp(size, Between(f, size, n)) = size
<1>1. Word \in Nat /\ size \in Nat /\ n \in Nat
  BY SizesAssumption
<1>2. f[n] \in Nat
  BY TriesGrow
<1>3. CASE f[n] < size
  <2>1. Between(f, size, n) = <<f[n], Word - 2>>
    BY <1>3 DEF Between
  <2>2. Word - 2 \in Nat /\ f[n] <= Word - 2 /\ ~(size <= f[n]) /\ (size > Word - 2 => size = (Word - 2) + 1)
    BY <1>1, <1>2, <1>3
  <2> QED
    BY <2>1, <2>2, <1>2 DEF Spans, Clamp
<1>4. CASE ~(f[n] < size) /\ n = 0
  <2>1. Between(f, size, n) = <<0, f[n]>>
    BY <1>4 DEF Between
  <2>2. 0 <= f[n] /\ ~(size > f[n]) /\ (size <= 0 => size = 0)
    BY <1>1, <1>2, <1>4
  <2> QED
    BY <2>1, <2>2, <1>2 DEF Spans, Clamp
<1>5. CASE ~(f[n] < size) /\ n # 0
  <2>1. Between(f, size, n) = <<f[n - 1], f[n]>>
    BY <1>5 DEF Between
  <2>2. f[n - 1] \in Nat /\ f[n - 1] < f[n]
    BY <1>5, TriesGrow
  <2>3. ~(f[n - 1] >= size)
    <3>1. n - 1 \in 0..(n - 1)
      BY <1>1, <1>5
    <3> QED
      BY <3>1 DEF FirstStop, Stops
  <2>4. f[n - 1] <= f[n] /\ ~(size > f[n]) /\ ~(size <= f[n - 1])
    BY <1>1, <1>2, <1>5, <2>2, <2>3
  <2> QED
    BY <2>1, <2>2, <2>4, <1>2 DEF Spans, Clamp
<1> QED
  BY <1>3, <1>4, <1>5

LEMMA BoundsFacts ==
  ASSUME NEW size \in 0..(Word - 1)
  PROVE  Bounds(size) \in Spans /\ Clamp(size, Bounds(size)) = size
<1> DEFINE f == CHOOSE g : Tries(g)
           n == CHOOSE i \in 0..Word : FirstStop(f, size, i)
<1>1. Bounds(size) = Between(f, size, n)
  BY DEF Bounds, Tries, FirstStop, Stops, Between
<1>2. Tries(f)
  BY TriesExists
<1> HIDE DEF f
<1>3. n \in 0..Word /\ FirstStop(f, size, n)
  BY <1>2, StopExists
<1> HIDE DEF n
<1> QED
  BY <1>1, <1>2, <1>3, BetweenFacts

(* The size of every drive is found.                                        *)
LEMMA ComputedSizeRight ==
  ASSUME NEW size \in 0..(Word - 1)
  PROVE  ComputedSize(size) = size
<1> DEFINE f == CHOOSE g : Searches(g, size)
<1>1. ComputedSize(size) = f[Bounds(size)]
  BY DEF ComputedSize, Searches, SearchStep, Middle
<1>2. size \in Nat
  BY SizesAssumption
<1>3. Searches(f, size)
  BY <1>2, SearchExists
<1> HIDE DEF f
<1> QED
  BY <1>1, <1>2, <1>3, BoundsFacts, SearchFinds
-----------------------------------------------------------------------------
Empty == [parts |-> <<>>, base |-> <<>>, max |-> -1, changed |-> TRUE, written |-> FALSE]
AllFree == Insert(Empty, 1, Part(1, ComputedSize(MediaSize) - 1, "free"))

(* A new map accounts for every block.                                      *)
LEMMA AllFreeFacts ==
  /\ Ordered(AllFree) /\ Len(AllFree.parts) = 1 /\ Row(ViewOf(AllFree)) /\ Loose(ViewOf(AllFree))
  /\ AllFree.changed = TRUE /\ AllFree.max = -1 /\ IsFree(AllFree.parts[1])
<1> DEFINE e == Part(1, ComputedSize(MediaSize) - 1, "free")
           a == AllFree
           v == ViewOf(a)
<1>1. /\ MediaSize \in Nat /\ Word \in Nat /\ MapSize \in Nat \ {0}
      /\ MapSize + 1 < MediaSize /\ MediaSize < Word
  BY SizesAssumption
<1>2. 1 \in 0..(Word - 1) /\ MediaSize - 1 \in 0..(Word - 1)
  BY <1>1
<1>3. e \in Entry /\ e.start = 1 /\ e.len = MediaSize - 1 /\ e.type = "free"
  <2>1. MediaSize \in 0..(Word - 1)
    BY <1>1
  <2>2. ComputedSize(MediaSize) = MediaSize
    BY <2>1, ComputedSizeRight
  <2> QED
    BY <1>2, <2>2 DEF Part, Entry, Types
<1>4. Ordered(Empty) /\ Empty \in Session /\ Len(Empty.parts) = 0
  <2>1. Empty \in Session /\ Len(Empty.parts) = 0 /\ Len(Empty.base) = 0
    BY DEF Empty, Session
  <2> QED
    BY <2>1 DEF Ordered
<1>9. a = Insert(Empty, 1, e)
  BY DEF AllFree
<1> HIDE DEF e
<1>5. Ordered(a) /\ Len(a.parts) = 1 /\ v[1] = e
  <2>1. 1 \in 1..(Len(Empty.parts) + 1)
    BY <1>4
  <2>2. Ordered(Empty) /\ e \in Entry
    BY <1>3, <1>4
  <2>3. LET s == Slot(KeysOf(Empty), e.start)
        IN  /\ s \in 1..(Len(Empty.parts) + 1)
            /\ Ordered(Insert(Empty, 1, e)) /\ Len(Insert(Empty, 1, e).parts) = Len(Empty.parts) + 1
            /\ \A j \in 1..(Len(Empty.parts) + 1) :
                 ViewOf(Insert(Empty, 1, e))[j] =
                   IF j < s THEN ViewOf(Empty)[j] ELSE IF j = s THEN e ELSE ViewOf(Empty)[j - 1]
    BY ONLY <2>1, <2>2, InsertFacts
  <2> QED
    BY <2>3, <1>4, <1>9
<1>10. a.changed = TRUE /\ a.max = -1
  <2>1. a.changed = Empty.changed /\ a.max = IF Empty.max < 0 /\ e.type = "map" THEN e.len ELSE Empty.max
    BY <1>4, <1>9 DEF Insert, Session
  <2> QED
    BY <2>1, <1>3 DEF Empty
<1>11. IsFree(a.parts[1])
  <2>1. a.base[1] = 1 /\ v[1] = a.parts[a.base[1]]
    <3>1. a.base[1] \in 1..Len(a.parts) /\ 1 \in 1..Len(a.base) /\ v[1] = a.parts[a.base[1]]
      BY <1>5, SessionFacts
    <3> QED
      BY <3>1, <1>5
  <2> QED
    BY <2>1, <1>3, <1>5 DEF IsFree
<1> HIDE DEF a
<1>6. v \in Seq(Entry) /\ Len(v) = 1
  BY <1>5, SessionFacts
<1> HIDE DEF v
<1>7. Row(v) /\ Loose(v)
  <2>1. \A i \in 1..Len(v) : i = 1
    BY <1>6
  <2>2. v[1].len > 0 /\ v[1].start + v[1].len < Word /\ v[1].start + v[1].len = MediaSize /\ v[1].start = 1
    BY <1>1, <1>3, <1>5
  <2>3. 1..(Len(v) - 1) = {}
    BY <1>6
  <2> QED
    BY <2>1, <2>2, <2>3, <1>6 DEF Row, Loose
<1> QED
  BY <1>5, <1>7, <1>10, <1>11 DEF v, a

LEMMA NewMapSound ==
  LET x == Added(AllFree, 1, MapSize, "map")
  IN  /\ Ordered(x) /\ Len(x.parts) > 0
      /\ Sane(x) => Row(ViewOf(x)) /\ Loose(ViewOf(x))
<1> DEFINE a == AllFree
           x == Added(a, 1, MapSize, "map")
<1>1. 1 \in 0..(Word - 1) /\ MapSize \in 0..(Word - 1) /\ MapSize > 0
  BY SizesAssumption
<1>2. Ordered(a) /\ Len(a.parts) = 1 /\ Row(ViewOf(a)) /\ Loose(ViewOf(a))
  BY AllFreeFacts
<1> HIDE DEF a
<1>3. "map" \in Types \ {"free"}
  BY DEF Types
<1>4. Ordered(x) /\ Len(x.parts) >= 1
  BY <1>1, <1>2, <1>3, AddedOrdered
<1>5. Sane(x) => Row(ViewOf(x)) /\ Loose(ViewOf(x))
  BY <1>1, <1>2, <1>3, AddedSound
<1>6. Len(x.parts) \in Nat
  BY <1>4, SessionFacts
<1> HIDE DEF x
<1>7. Len(x.parts) > 0
  BY <1>4, <1>6
<1> QED
  BY <1>4, <1>5, <1>7 DEF x, a

-----------------------------------------------------------------------------
(* read_partition_map.                                                      *)

Unread == [parts |-> <<>>, base |-> <<>>, max |-> -1, changed |-> FALSE, written |-> FALSE]
OnDisk(k) == Part(disk[k].start, disk[k].len, disk[k].type)

\* f reads the entries one after the other.
Reads(f, N) == f = [k \in 0..N |-> IF k = 0 THEN Unread ELSE Insert(f[k - 1], k, OnDisk(k))]

LEMMA UnreadFacts == Ordered(Unread) /\ Len(Unread.parts) = 0
<1>1. Unread \in Session /\ Len(Unread.parts) = 0 /\ Len(Unread.base) = 0
  BY DEF Unread, Session
<1> QED
  BY <1>1 DEF Ordered

LEMMA OneMore ==
  ASSUME NEW m, Ordered(m), NEW k \in Nat, Len(m.parts) + 1 = k, NEW e \in Entry
  PROVE  Ordered(Insert(m, k, e)) /\ Len(Insert(m, k, e).parts) = k
<1>1. Len(m.parts) \in Nat
  BY SessionFacts
<1>2. k \in 1..(Len(m.parts) + 1)
  BY <1>1
<1> QED
  BY <1>2, InsertFacts

(* There is such a function, since every insertion finds its place.         *)
LEMMA ReadsExists ==
  ASSUME NEW N \in Nat, \A k \in 1..N : OnDisk(k) \in Entry
  PROVE  \E f : Reads(f, N)
<1> DEFINE Maps == {m \in Session : Ordered(m)}
           G == [z \in Maps \X (1..N) |->
                   IF Len(z[1].parts) + 1 = z[2] THEN Insert(z[1], z[2], OnDisk(z[2])) ELSE z[1]]
<1>1. Unread \in Maps
  BY UnreadFacts DEF Ordered
<1>2. \A m \in Maps, k \in 1..N :
        G[<<m, k>>] = IF Len(m.parts) + 1 = k THEN Insert(m, k, OnDisk(k)) ELSE m
  OBVIOUS
<1>3. G \in [Maps \X (1..N) -> Maps]
  <2> SUFFICES ASSUME NEW m \in Maps, NEW k \in 1..N
               PROVE  (IF Len(m.parts) + 1 = k THEN Insert(m, k, OnDisk(k)) ELSE m) \in Maps
    OBVIOUS
  <2>1. CASE Len(m.parts) + 1 = k
    <3>1. Ordered(m) /\ OnDisk(k) \in Entry /\ k \in Nat
      OBVIOUS
    <3>2. Ordered(Insert(m, k, OnDisk(k)))
      BY ONLY <3>1, <2>1, OneMore
    <3>3. Insert(m, k, OnDisk(k)) \in Session
      BY <3>2 DEF Ordered
    <3> QED
      BY <2>1, <3>2, <3>3
  <2>2. CASE Len(m.parts) + 1 # k
    BY <2>2
  <2> QED
    BY <2>1, <2>2
<1> HIDE DEF Maps, G
<1>4. PICK f \in [0..N -> Maps] : f[0] = Unread /\ \A k \in 1..N : f[k] = G[<<f[k - 1], k>>]
  <2>1. N \in Nat
    OBVIOUS
  <2>2. \E f : Defined(f, Maps, N, Unread, G)
    BY ONLY <2>1, <1>1, <1>3, Recursion
  <2> QED
    BY ONLY <2>2 DEF Defined
<1> DEFINE Bad == {k \in 0..N : Len(f[k].parts) # k}
<1>5. Bad = {}
  <2> SUFFICES ASSUME Bad # {} PROVE FALSE
    OBVIOUS
  <2>1. Bad \subseteq Nat
    OBVIOUS
  <2>2. PICK k \in Bad : \A y \in Bad : k <= y
    <3> HIDE DEF Bad
    <3> QED
      BY <2>1, LeastNumber
  <2>3. k \in 0..N /\ Len(f[k].parts) # k
    OBVIOUS
  <2>4. k # 0
    BY <2>3, <1>4, UnreadFacts
  <2>5. k - 1 \in 0..N /\ k \in 1..N /\ (k - 1) + 1 = k /\ k \in Nat
    BY <2>3, <2>4
  <2>6. Len(f[k - 1].parts) = k - 1
    <3>1. k - 1 \notin Bad
      <4> HIDE DEF Bad
      <4> QED
        BY <2>2, <2>5
    <3> QED
      BY <3>1, <2>5
  <2> HIDE DEF Bad
  <2>7. f[k - 1] \in Maps
    BY <2>5, <1>4
  <2>8. f[k] = Insert(f[k - 1], k, OnDisk(k))
    <3>1. f[k] = G[<<f[k - 1], k>>]
      BY <2>5, <1>4
    <3>2. G[<<f[k - 1], k>>] = IF Len(f[k - 1].parts) + 1 = k THEN Insert(f[k - 1], k, OnDisk(k)) ELSE f[k - 1]
      BY <2>5, <2>7, <1>2
    <3>3. Len(f[k - 1].parts) + 1 = k
      BY <2>5, <2>6
    <3> QED
      BY <3>1, <3>2, <3>3
  <2>9. Ordered(f[k - 1]) /\ OnDisk(k) \in Entry /\ Len(f[k - 1].parts) + 1 = k
    BY <2>5, <2>6, <2>7 DEF Maps
  <2>10. Len(Insert(f[k - 1], k, OnDisk(k)).parts) = k
    BY ONLY <2>5, <2>9, OneMore
  <2> QED
    BY <2>3, <2>8, <2>10
<1>6. \A k \in 0..N : Len(f[k].parts) = k
  BY <1>5
<1>7. ASSUME NEW k \in 0..N
      PROVE  f[k] = IF k = 0 THEN Unread ELSE Insert(f[k - 1], k, OnDisk(k))
  <2>1. CASE k = 0
    BY <2>1, <1>4
  <2>2. CASE k # 0
    <3>1. k - 1 \in 0..N /\ k \in 1..N /\ (k - 1) + 1 = k
      BY <2>2
    <3>2. f[k - 1] \in Maps /\ Len(f[k - 1].parts) + 1 = k
      BY <3>1, <1>4, <1>6
    <3> HIDE DEF Bad
    <3> QED
      BY <3>1, <3>2, <2>2, <1>2, <1>4
  <2> QED
    BY <2>1, <2>2
<1>8. Reads(f, N)
  BY <1>7 DEF Reads
<1> QED
  BY <1>8

(* What it gives are two orders of the same entries.                        *)
LEMMA ReadsOrdered ==
  ASSUME NEW N \in Nat, \A k \in 1..N : OnDisk(k) \in Entry, NEW f, Reads(f, N), NEW n \in 0..N
  PROVE  Ordered(f[n]) /\ Len(f[n].parts) = n
<1> DEFINE Right(k) == Ordered(f[k]) /\ Len(f[k].parts) = k
           Bad == {k \in 0..N : ~Right(k)}
<1>1. f[0] = Unread /\ \A k \in 1..N : f[k] = Insert(f[k - 1], k, OnDisk(k))
  <2>1. f = [k \in 0..N |-> IF k = 0 THEN Unread ELSE Insert(f[k - 1], k, OnDisk(k))]
    BY DEF Reads
  <2>2. \A k \in 0..N : f[k] = IF k = 0 THEN Unread ELSE Insert(f[k - 1], k, OnDisk(k))
    BY <2>1
  <2> QED
    BY <2>2
<1>2. SUFFICES ASSUME Bad # {} PROVE FALSE
  <2>1. CASE Bad = {}
    <3> HIDE DEF Right
    <3>1. Right(n)
      BY <2>1
    <3> QED
      BY <3>1 DEF Right
  <2> QED
    BY <2>1
<1>3. Bad \subseteq Nat
  OBVIOUS
<1> HIDE DEF Right
<1>4. PICK k \in Bad : \A y \in Bad : k <= y
  <2> HIDE DEF Bad
  <2> QED
    BY <1>2, <1>3, LeastNumber
<1>5. k \in 0..N /\ ~Right(k)
  OBVIOUS
<1>6. k # 0
  <2>1. Right(0)
    BY <1>1, UnreadFacts DEF Right
  <2> QED
    BY <2>1, <1>5
<1>7. k - 1 \in 0..N /\ k \in 1..N /\ (k - 1) + 1 = k /\ k \in Nat
  BY <1>5, <1>6
<1>8. Right(k - 1)
  <2>1. k - 1 \notin Bad
    <3> HIDE DEF Bad
    <3> QED
      BY <1>4, <1>7
  <2> QED
    BY <2>1, <1>7
<1> HIDE DEF Bad
<1>9. Ordered(f[k - 1]) /\ OnDisk(k) \in Entry /\ Len(f[k - 1].parts) + 1 = k
  BY <1>7, <1>8 DEF Right
<1>10. /\ Ordered(Insert(f[k - 1], k, OnDisk(k)))
       /\ Len(Insert(f[k - 1], k, OnDisk(k)).parts) = k
  BY ONLY <1>7, <1>9, OneMore
<1>11. f[k] = Insert(f[k - 1], k, OnDisk(k))
  BY <1>1, <1>7
<1> QED
  BY <1>5, <1>10, <1>11 DEF Right

(* A map that is read is in order, whatever is on the drive.                *)
LEMMA ReadFacts ==
  ASSUME disk \in [Blocks -> DPME \cup {Blank}], ReadMap # NoMap
  PROVE  Ordered(ReadMap) /\ Len(ReadMap.parts) > 0
<1> DEFINE N == Limit
           first == CHOOSE f : Reads(f, N)
<1>1. /\ disk[1] # Blank
      /\ \A k \in 2..N : k \in Blocks /\ Good(k, disk[1].count)
      /\ ReadMap = first[N]
  BY DEF ReadMap, Reads, OnDisk, Unread
<1>2. MediaSize \in Nat /\ MediaSize > 2 /\ Word \in Nat /\ 1 \in Blocks
  BY SizesAssumption DEF Blocks
<1>3. disk[1] \in DPME
  BY <1>1, <1>2
<1>4. N \in Nat /\ N > 0
  BY <1>3 DEF Limit, DPME
<1> HIDE DEF N
<1>5. \A k \in 1..N : OnDisk(k) \in Entry
  <2> TAKE k \in 1..N
  <2>1. k \in Blocks /\ disk[k] # Blank
    <3>1. CASE k = 1
      BY <3>1, <1>1, <1>2
    <3>2. CASE k # 1
      <4>1. k \in 2..N
        BY <3>2, <1>4
      <4> QED
        BY <4>1, <1>1 DEF Good
    <3> QED
      BY <3>1, <3>2
  <2>2. disk[k] \in DPME
    BY <2>1
  <2> QED
    BY <2>2 DEF OnDisk, Part, DPME, Entry
<1>6. Reads(first, N)
  <2>1. \E f : Reads(f, N)
    BY <1>4, <1>5, ReadsExists
  <2> QED
    BY <2>1
<1> HIDE DEF first
<1>7. N \in 0..N
  BY <1>4
<1>8. Ordered(first[N]) /\ Len(first[N].parts) = N
  BY <1>4, <1>5, <1>6, <1>7, ReadsOrdered
<1> QED
  BY <1>1, <1>4, <1>8

-----------------------------------------------------------------------------
(* What is read.  The entries are those of the drive, in its order; in base *)
(* order their first blocks go up; and max is the length of a map entry.    *)

Ascending(m) == \A i \in 1..(Len(m.base) - 1) : ViewOf(m)[i].start <= ViewOf(m)[i + 1].start

MaxKnown(m) ==
  \/ m.max = -1 /\ \A i \in 1..Len(m.parts) : m.parts[i].type # "map"
  \/ \E i \in 1..Len(m.parts) : m.parts[i].type = "map" /\ m.max = m.parts[i].len

LEMMA UpAfterInsert ==
  ASSUME NEW m, Ordered(m), Ascending(m), NEW k \in 1..(Len(m.parts) + 1), NEW e \in Entry
  PROVE  Ascending(Insert(m, k, e))
<1> DEFINE x == Insert(m, k, e)
           n == Len(m.parts)
           s == Slot(KeysOf(m), e.start)
           v == ViewOf(m)
           w == ViewOf(x)
<1>1. /\ n \in Nat /\ Len(m.base) = n
      /\ KeysOf(m) \in Seq(Nat) /\ Len(KeysOf(m)) = n
      /\ \A i \in 1..n : KeysOf(m)[i] = v[i].start
  BY SessionFacts
<1>2. e.start \in Nat
  BY SizesAssumption DEF Entry
<1>3. Ordered(x) /\ Len(x.parts) = n + 1
      /\ \A j \in 1..(n + 1) : w[j] = IF j < s THEN v[j] ELSE IF j = s THEN e ELSE v[j - 1]
  BY InsertFacts
<1>4. Len(x.base) = n + 1
  BY <1>3, SessionFacts
<1>5. /\ s \in 1..(n + 1)
      /\ s = 1 \/ KeysOf(m)[s - 1] <= e.start
      /\ s = n + 1 \/ e.start <= KeysOf(m)[s]
  BY <1>1, <1>2, SlotBetween
<1>6. \A i \in 1..(n - 1) : v[i].start <= v[i + 1].start
  BY <1>1 DEF Ascending
<1> HIDE DEF x, n, s, v, w
<1>7. s = 1 \/ (s - 1 \in 1..n /\ v[s - 1].start <= e.start)
  <2>1. s # 1 => s - 1 \in 1..n
    BY <1>1, <1>5
  <2> QED
    BY <2>1, <1>1, <1>5
<1>8. s = n + 1 \/ (s \in 1..n /\ e.start <= v[s].start)
  <2>1. s # n + 1 => s \in 1..n
    BY <1>1, <1>5
  <2> QED
    BY <2>1, <1>1, <1>5
<1>9. ASSUME NEW i \in 1..n PROVE w[i].start <= w[i + 1].start
  <2>0. i \in Nat /\ i \in 1..(n + 1) /\ i + 1 \in 1..(n + 1) /\ (i + 1) - 1 = i /\ s \in Nat
    BY <1>1, <1>5
  <2>1. CASE i + 1 < s
    <3>1. w[i] = v[i] /\ w[i + 1] = v[i + 1]
      <4>1. i < s
        BY <2>0, <2>1
      <4> QED
        BY <4>1, <2>0, <2>1, <1>3
    <3>2. i \in 1..(n - 1)
      BY <2>0, <2>1, <1>1, <1>5
    <3> QED
      BY <3>1, <3>2, <1>6
  <2>2. CASE i + 1 = s
    <3>1. i < s /\ ~(i + 1 < s) /\ i = s - 1 /\ s # 1
      BY <2>0, <2>2
    <3>2. w[i] = v[i] /\ w[i + 1] = e
      BY <3>1, <2>0, <2>2, <1>3
    <3> QED
      BY <3>1, <3>2, <1>7
  <2>3. CASE i = s
    <3>1. ~(i < s) /\ ~(i + 1 < s) /\ i + 1 # s /\ s # n + 1
      BY <2>0, <2>3, <1>1
    <3>2. w[i] = e /\ w[i + 1] = v[s]
      BY <3>1, <2>0, <2>3, <1>3
    <3> QED
      BY <3>1, <3>2, <1>8
  <2>4. CASE i > s
    <3>1. ~(i < s) /\ i # s /\ ~(i + 1 < s) /\ i + 1 # s
      BY <2>0, <2>4
    <3>2. w[i] = v[i - 1] /\ w[i + 1] = v[i]
      BY <3>1, <2>0, <1>3
    <3>3. i - 1 \in 1..(n - 1) /\ (i - 1) + 1 = i
      BY <2>0, <2>4, <1>1, <1>5
    <3>4. v[i - 1].start <= v[(i - 1) + 1].start
      BY <3>3, <1>6
    <3> QED
      BY <3>2, <3>3, <3>4
  <2> QED
    BY <2>0, <2>1, <2>2, <2>3, <2>4
<1>10. \A i \in 1..(Len(x.base) - 1) : w[i].start <= w[i + 1].start
  <2>1. Len(x.base) - 1 = n
    BY <1>1, <1>4
  <2> QED
    BY <2>1, <1>9
<1> QED
  BY <1>10 DEF Ascending, x, w

LEMMA InsertLast ==
  ASSUME NEW m, Ordered(m), MaxKnown(m), NEW k \in Nat, Len(m.parts) + 1 = k, NEW e \in Entry
  PROVE  LET x == Insert(m, k, e)
         IN  /\ \A i \in 1..Len(m.parts) : x.parts[i] = m.parts[i]
             /\ x.parts[k] = e
             /\ MaxKnown(x)
<1> DEFINE x == Insert(m, k, e)
           n == Len(m.parts)
<1>1. m \in Session /\ m.parts \in Seq(Entry) /\ n \in Nat /\ k = n + 1 /\ k \in 1..(n + 1)
  BY SessionFacts
<1>2. x.parts = InsertAt(m.parts, k, e) /\ x.max = IF m.max < 0 /\ e.type = "map" THEN e.len ELSE m.max
  BY <1>1 DEF Insert, Session
<1>3. /\ Len(x.parts) = n + 1
      /\ \A j \in 1..(n + 1) : x.parts[j] = IF j < k THEN m.parts[j] ELSE IF j = k THEN e ELSE m.parts[j - 1]
  <2>1. PICK q \in Seq(Entry) : q = m.parts
    BY <1>1
  <2>2. PICK i \in 1..(Len(q) + 1) : i = k
    BY <2>1, <1>1
  <2>3. /\ Len(InsertAt(q, i, e)) = Len(q) + 1
        /\ \A j \in 1..(Len(q) + 1) :
             InsertAt(q, i, e)[j] = IF j < i THEN q[j] ELSE IF j = i THEN e ELSE q[j - 1]
    BY InsertAtFacts, SMTT(30)
  <2> QED
    BY <2>1, <2>2, <2>3, <1>2
<1> HIDE DEF x, n
<1>4. \A i \in 1..n : x.parts[i] = m.parts[i]
  BY <1>1, <1>3
<1>5. x.parts[k] = e
  BY <1>1, <1>3
<1>6. k \in 1..Len(x.parts) /\ \A i \in 1..n : i \in 1..Len(x.parts)
  BY <1>1, <1>3
<1>7. MaxKnown(x)
  <2>1. CASE m.max = -1 /\ \A i \in 1..n : m.parts[i].type # "map"
    <3>1. CASE e.type = "map"
      <4>1. x.max = e.len
        BY <2>1, <3>1, <1>2
      <4> QED
        BY <4>1, <3>1, <1>5, <1>6 DEF MaxKnown
    <3>2. CASE e.type # "map"
      <4>1. x.max = -1
        BY <2>1, <3>2, <1>2
      <4>2. \A i \in 1..Len(x.parts) : x.parts[i].type # "map"
        <5> TAKE i \in 1..Len(x.parts)
        <5>1. i \in 1..n \/ i = k
          BY <1>1, <1>3
        <5> QED
          BY <5>1, <2>1, <3>2, <1>4, <1>5
      <4> QED
        BY <4>1, <4>2 DEF MaxKnown
    <3> QED
      BY <3>1, <3>2
  <2>2. CASE \E i \in 1..n : m.parts[i].type = "map" /\ m.max = m.parts[i].len
    <3>1. PICK i \in 1..n : m.parts[i].type = "map" /\ m.max = m.parts[i].len
      BY <2>2
    <3>2. m.parts[i].len \in Nat
      BY <1>1, EntryFacts DEF n
    <3>3. x.max = m.parts[i].len
      BY <3>1, <3>2, <1>2
    <3> QED
      BY <3>1, <3>3, <1>4, <1>6 DEF MaxKnown
  <2> QED
    BY <2>1, <2>2 DEF MaxKnown, n
<1> QED
  BY <1>4, <1>5, <1>7 DEF x, n

\* The map of the first n blocks.
FirstRead(m, n) ==
  /\ Ordered(m) /\ Len(m.parts) = n
  /\ \A i \in 1..n : m.parts[i] = OnDisk(i)
  /\ Ascending(m) /\ MaxKnown(m)

LEMMA ReadsFirst ==
  ASSUME NEW N \in Nat, \A k \in 1..N : OnDisk(k) \in Entry, NEW f, Reads(f, N), NEW n \in 0..N
  PROVE  FirstRead(f[n], n)
<1> DEFINE Right(k) == FirstRead(f[k], k)
           Bad == {k \in 0..N : ~Right(k)}
<1>1. f[0] = Unread /\ \A k \in 1..N : f[k] = Insert(f[k - 1], k, OnDisk(k))
  <2>1. f = [k \in 0..N |-> IF k = 0 THEN Unread ELSE Insert(f[k - 1], k, OnDisk(k))]
    BY DEF Reads
  <2>2. \A k \in 0..N : f[k] = IF k = 0 THEN Unread ELSE Insert(f[k - 1], k, OnDisk(k))
    BY <2>1
  <2> QED
    BY <2>2
<1>2. SUFFICES ASSUME Bad # {} PROVE FALSE
  <2>1. CASE Bad = {}
    <3> HIDE DEF Right
    <3>1. Right(n)
      BY <2>1
    <3> QED
      BY <3>1 DEF Right
  <2> QED
    BY <2>1
<1>3. Bad \subseteq Nat
  OBVIOUS
<1> HIDE DEF Right
<1>4. PICK k \in Bad : \A y \in Bad : k <= y
  <2> HIDE DEF Bad
  <2> QED
    BY <1>2, <1>3, LeastNumber
<1>5. k \in 0..N /\ ~Right(k)
  OBVIOUS
<1>6. k # 0
  <2>1. Ascending(Unread) /\ MaxKnown(Unread)
    <3>1. Len(Unread.base) = 0 /\ Len(Unread.parts) = 0 /\ Unread.max = -1
      BY DEF Unread
    <3> QED
      BY <3>1 DEF Ascending, MaxKnown
  <2>2. FirstRead(Unread, 0)
    BY <2>1, UnreadFacts DEF FirstRead
  <2>3. Right(0)
    BY <1>1, <2>2 DEF Right
  <2> QED
    BY <2>3, <1>5
<1>7. k - 1 \in 0..N /\ k \in 1..N /\ (k - 1) + 1 = k /\ k \in Nat
  BY <1>5, <1>6
<1>8. Right(k - 1)
  <2>1. k - 1 \notin Bad
    <3> HIDE DEF Bad
    <3> QED
      BY <1>4, <1>7
  <2> QED
    BY <2>1, <1>7
<1> HIDE DEF Bad
<1>9. PICK m : m = f[k - 1]
  OBVIOUS
<1>10. PICK e : e = OnDisk(k)
  OBVIOUS
<1>11. /\ Ordered(m) /\ Len(m.parts) = k - 1 /\ Ascending(m) /\ MaxKnown(m)
       /\ \A i \in 1..(k - 1) : m.parts[i] = OnDisk(i)
  BY <1>8, <1>9 DEF Right, FirstRead
<1>12. e \in Entry /\ Len(m.parts) + 1 = k /\ k \in 1..(Len(m.parts) + 1)
  BY <1>7, <1>10, <1>11
<1>13. PICK x : x = Insert(m, k, e)
  OBVIOUS
<1>14. Ordered(x) /\ Len(x.parts) = k
  BY ONLY <1>7, <1>11, <1>12, <1>13, OneMore
<1>15. Ascending(x)
  BY ONLY <1>11, <1>12, <1>13, UpAfterInsert
<1>16. /\ \A i \in 1..Len(m.parts) : x.parts[i] = m.parts[i]
       /\ x.parts[k] = e /\ MaxKnown(x)
  BY ONLY <1>7, <1>11, <1>12, <1>13, InsertLast
<1>17. \A i \in 1..k : x.parts[i] = OnDisk(i)
  <2> TAKE i \in 1..k
  <2>1. i = k \/ i \in 1..(k - 1)
    BY <1>7
  <2> QED
    BY <2>1, <1>10, <1>11, <1>16
<1>18. f[k] = x
  BY <1>1, <1>7, <1>9, <1>10, <1>13
<1> QED
  BY <1>5, <1>14, <1>15, <1>16, <1>17, <1>18 DEF Right, FirstRead

(* The map that is read says what the blocks say, and they agree on their   *)
(* number.                                                                  *)
LEMMA ReadSays ==
  ASSUME disk \in [Blocks -> DPME \cup {Blank}], ReadMap # NoMap
  PROVE  /\ Limit \in Nat \ {0} /\ Limit < MediaSize
         /\ \A k \in 1..Limit : disk[k] \in DPME /\ disk[k] # Blank /\ disk[k].count = disk[1].count
         /\ FirstRead(ReadMap, Limit)
<1> DEFINE N == Limit
           first == CHOOSE f : Reads(f, N)
<1>1. /\ disk[1] # Blank
      /\ \A k \in 2..N : k \in Blocks /\ Good(k, disk[1].count)
      /\ ReadMap = first[N]
  BY DEF ReadMap, Reads, OnDisk, Unread
<1>2. MediaSize \in Nat /\ MediaSize > 2 /\ Word \in Nat /\ 1 \in Blocks
  BY SizesAssumption DEF Blocks
<1>3. disk[1] \in DPME
  BY <1>1, <1>2
<1>4. N \in Nat /\ N > 0
  BY <1>3 DEF Limit, DPME
<1> HIDE DEF N
<1>5. ASSUME NEW k \in 1..N
      PROVE  k \in Blocks /\ disk[k] \in DPME /\ disk[k] # Blank /\ disk[k].count = disk[1].count
  <2>1. CASE k = 1
    BY <2>1, <1>1, <1>2, <1>3
  <2>2. CASE k # 1
    <3>1. k \in 2..N
      BY <2>2, <1>4
    <3>2. k \in Blocks /\ disk[k] # Blank /\ disk[k].count = disk[1].count
      BY <3>1, <1>1 DEF Good
    <3> QED
      BY <3>2
  <2> QED
    BY <2>1, <2>2
<1>6. \A k \in 1..N : OnDisk(k) \in Entry
  <2> TAKE k \in 1..N
  <2>1. disk[k] \in DPME
    BY <1>5
  <2> QED
    BY <2>1 DEF OnDisk, Part, DPME, Entry
<1>7. Reads(first, N)
  <2>1. \E f : Reads(f, N)
    BY <1>4, <1>6, ReadsExists
  <2> QED
    BY <2>1
<1> HIDE DEF first
<1>8. N \in 0..N
  BY <1>4
<1>9. FirstRead(first[N], N)
  BY <1>4, <1>6, <1>7, <1>8, ReadsFirst
<1>10. N < MediaSize
  <2>1. N \in Blocks
    BY <1>4, <1>5
  <2> QED
    BY <2>1, <1>2, <1>4 DEF Blocks
<1> QED
  BY <1>1, <1>4, <1>5, <1>9, <1>10 DEF N

-----------------------------------------------------------------------------
(* The steps of a session.                                                  *)

\* x is what a command made of m.
Kept(m, x) ==
  /\ Ordered(x) /\ Len(x.parts) > 0
  /\ Row(ViewOf(m)) /\ Sane(x) => Row(ViewOf(x)) /\ (Loose(ViewOf(m)) => Loose(ViewOf(x)))

BlockWrite == [at : Nat \ {0}, v : DPME \cup {Blank}]

\* The invariant: a session's map is in order, and what is written to the drive are
\* entries.
IInv ==
  /\ user \in Users
  /\ disk \in [Blocks -> DPME \cup {Blank}]
  /\ Running => Ordered(map) /\ Len(map.parts) > 0
  /\ todo \in Seq(BlockWrite)
  /\ ~Idle => Running

LEMMA FlagsKept ==
  ASSUME NEW m, Ordered(m), Len(m.parts) > 0, NEW x \in Session, x.parts = m.parts, x.base = m.base
  PROVE  Kept(m, x)
<1>1. Ordered(x) /\ ViewOf(x) = ViewOf(m)
  BY FlagFacts
<1> QED
  BY <1>1 DEF Kept

LEMMA UserFacts ==
  ASSUME user \in Users
  PROVE  /\ user.bases \subseteq 0..(Word - 1) /\ user.lengths \subseteq 0..(Word - 1)
         /\ user.indices \subseteq Nat /\ user.sizes \subseteq 0..(Word - 1)
<1>1. user \in [bases : SUBSET (0..(Word - 1)), lengths : SUBSET (0..(Word - 1)),
                indices : SUBSET Nat, nths : SUBSET Nat, sizes : SUBSET (0..MediaSize), writes : Nat, fails : Nat]
  BY UsersAssumption
<1>2. 0..MediaSize \subseteq 0..(Word - 1)
  BY SizesAssumption
<1> QED
  BY <1>1, <1>2

LEMMA InitInv == Init => IInv
<1> SUFFICES ASSUME Init PROVE IInv
  OBVIOUS
<1>1. user \in Users /\ disk \in [Blocks -> DPME \cup {Blank}]
  BY DisksAssumption DEF Init
<1>2. todo \in Seq(BlockWrite) /\ Idle
  BY DEF Init, Idle
<1>3. ~Running
  BY DEF Init, Running
<1> QED
  BY <1>1, <1>2, <1>3 DEF IInv

\* What a step does, as far as the invariant and the property are concerned.
Sound ==
  /\ user' \in Users
  /\ disk' \in [Blocks -> DPME \cup {Blank}]
  /\ Running' => Ordered(map') /\ Len(map'.parts) > 0
  /\ todo' \in Seq(BlockWrite)
  /\ (~Idle)' => Running'
  /\ Running /\ map' # Closed => Kept(map, map')

(* A command that changes only the map, to one that is kept, is sound.      *)
LEMMA CommandSound ==
  ASSUME IInv, Idle, Kept(map, map'), UNCHANGED <<user, disk, todo>>
  PROVE  Sound
<1>1. user' = user /\ disk' = disk /\ todo' = todo
  OBVIOUS
<1>2. Idle'
  BY <1>1 DEF Idle
<1>3. Ordered(map') /\ Len(map'.parts) > 0
  BY DEF Kept
<1> QED
  BY <1>1, <1>2, <1>3 DEF IInv, Sound

LEMMA OpenSound == IInv /\ Open => Sound
<1> SUFFICES ASSUME IInv, Open PROVE Sound
  OBVIOUS
<1>1. user' = user /\ disk' = disk /\ todo' = todo /\ map = Closed /\ map' = ReadMap
  BY DEF Open
<1>2. ~Running
  BY <1>1 DEF Running
<1>3. Idle /\ Idle'
  BY <1>1, <1>2 DEF IInv, Idle
<1>4. ASSUME Running' PROVE Ordered(map') /\ Len(map'.parts) > 0
  <2>1. ReadMap # NoMap
    BY <1>1, <1>4 DEF Running
  <2> QED
    BY <2>1, <1>1, ReadFacts DEF IInv
<1> QED
  BY <1>1, <1>2, <1>3, <1>4 DEF IInv, Sound

LEMMA ArgumentsFacts ==
  ASSUME IInv, Running, NEW base \in BaseArguments, NEW length \in LengthArguments
  PROVE  base \in 0..(Word - 1) /\ length \in 0..(Word - 1)
<1>1. user.bases \subseteq 0..(Word - 1) /\ user.lengths \subseteq 0..(Word - 1)
  BY UserFacts DEF IInv
<1>2. \A k \in 1..Len(map.parts) : map.parts[k].start \in 0..(Word - 1) /\ map.parts[k].len \in 0..(Word - 1)
  <2> TAKE k \in 1..Len(map.parts)
  <2>1. map.parts[k] \in Entry
    BY SessionFacts DEF IInv
  <2> QED
    BY <2>1 DEF Entry
<1> QED
  BY <1>1, <1>2 DEF BaseArguments, LengthArguments

LEMMA CreateSound ==
  ASSUME IInv, NEW base \in BaseArguments, NEW length \in LengthArguments, Create(base, length)
  PROVE  Sound
<1>1. /\ Running /\ Idle /\ map' = Added(map, base, length, "data")
      /\ UNCHANGED <<user, disk, todo>>
  BY DEF Create
<1>2. Ordered(map) /\ Len(map.parts) > 0 /\ Len(map.parts) \in Nat
  BY <1>1, SessionFacts DEF IInv
<1>3. base \in 0..(Word - 1) /\ length \in 0..(Word - 1)
  BY <1>1, ArgumentsFacts
<1>4. "data" \in Types \ {"free"} /\ "data" \in Types
  BY DEF Types
<1> DEFINE x == Added(map, base, length, "data")
<1>5. Ordered(x) /\ Len(x.parts) >= Len(map.parts)
  BY <1>2, <1>3, <1>4, AddedOrdered
<1>6. Row(ViewOf(map)) /\ Sane(x) => Row(ViewOf(x)) /\ (Loose(ViewOf(map)) => Loose(ViewOf(x)))
  BY <1>2, <1>3, <1>4, AddedSound
<1>7. Len(x.parts) \in Nat
  BY <1>5, SessionFacts
<1> HIDE DEF x
<1>8. Len(x.parts) > 0
  BY <1>2, <1>5, <1>7
<1>9. Kept(map, map')
  BY <1>1, <1>5, <1>6, <1>8 DEF Kept, x
<1> QED
  BY <1>1, <1>9, CommandSound

LEMMA RenameSound ==
  ASSUME IInv, NEW k \in Blocks, Rename(k)
  PROVE  Sound
<1>1. /\ Running /\ Idle /\ map' = [map EXCEPT !.changed = TRUE]
      /\ UNCHANGED <<user, disk, todo>>
  BY DEF Rename
<1>2. Ordered(map) /\ Len(map.parts) > 0 /\ map \in Session
  BY <1>1, SessionFacts DEF IInv
<1>3. map' \in Session /\ map'.parts = map.parts /\ map'.base = map.base
  BY <1>1, <1>2 DEF Session
<1>4. Kept(map, map')
  BY <1>2, <1>3, FlagsKept
<1> QED
  BY <1>1, <1>4, CommandSound

LEMMA DeleteSound ==
  ASSUME IInv, NEW k \in Blocks, DeletePart(k)
  PROVE  Sound
<1>1. /\ Running /\ Idle /\ k <= Len(map.parts) /\ map' = Deleted(map, k)
      /\ UNCHANGED <<user, disk, todo>>
  BY DEF DeletePart
<1>2. Ordered(map) /\ Len(map.parts) > 0 /\ Len(map.parts) \in Nat /\ map \in Session
  BY <1>1, SessionFacts DEF IInv
<1>3. k \in 1..Len(map.parts)
  BY <1>1, <1>2, SizesAssumption DEF Blocks
<1>4. Kept(map, Freed(map, k))
  BY <1>2, <1>3, FreedSound DEF Kept
<1>5. Kept(map, map)
  BY <1>2, FlagsKept
<1>6. Kept(map, map')
  BY <1>1, <1>4, <1>5 DEF Deleted
<1> QED
  BY <1>1, <1>6, CommandSound

LEMMA ReorderSound ==
  ASSUME IInv, NEW k \in Blocks, NEW index \in user.indices, Reorder(k, index)
  PROVE  Sound
<1>1. /\ Running /\ Idle /\ k <= Len(map.parts) /\ map' = Moved(map, k, index)
      /\ UNCHANGED <<user, disk, todo>>
  BY DEF Reorder
<1>2. Ordered(map) /\ Len(map.parts) > 0 /\ Len(map.parts) \in Nat
  BY <1>1, SessionFacts DEF IInv
<1>3. k \in 1..Len(map.parts) /\ index \in Nat
  BY <1>1, <1>2, UserFacts, SizesAssumption DEF Blocks, IInv
<1>4. /\ Ordered(Moved(map, k, index)) /\ Len(Moved(map, k, index).parts) = Len(map.parts)
      /\ ViewOf(Moved(map, k, index)) = ViewOf(map)
  BY <1>2, <1>3, MovedFacts
<1>5. Kept(map, map')
  BY <1>1, <1>2, <1>4 DEF Kept
<1> QED
  BY <1>1, <1>5, CommandSound

LEMMA ChangeMapSizeSound ==
  ASSUME IInv, NEW size \in user.sizes, ChangeMapSize(size)
  PROVE  Sound
<1>1. Running /\ Idle /\ map' = Resized(map, size) /\ UNCHANGED <<user, disk, todo>>
  BY DEF ChangeMapSize
<1>2. Ordered(map) /\ Len(map.parts) > 0
  BY <1>1 DEF IInv
<1>3. size \in 0..(Word - 1)
  BY UserFacts DEF IInv
<1>4. Kept(map, map')
  BY <1>1, <1>2, <1>3, ResizedSound DEF Kept
<1> QED
  BY <1>1, <1>4, CommandSound

LEMMA InitMapSound ==
  ASSUME IInv, InitMap
  PROVE  Sound
<1>1. Idle /\ map' = Added(AllFree, 1, MapSize, "map") /\ UNCHANGED <<user, disk, todo>>
  BY DEF InitMap, AllFree, Empty
<1>2. Kept(map, map')
  BY <1>1, NewMapSound DEF Kept
<1> QED
  BY <1>1, <1>2, CommandSound


LEMMA BlockWritesFacts ==
  ASSUME NEW m, Ordered(m)
  PROVE  BlockWrites(m) \in Seq(BlockWrite)
<1> DEFINE n == Len(m.parts)
           v(k) == [count |-> n, start |-> m.parts[k].start, len |-> m.parts[k].len, type |-> m.parts[k].type]
           a == [k \in 1..n |-> [at |-> k, v |-> v(k)]]
<1>1. n \in Nat /\ m.parts \in Seq(Entry)
  BY SessionFacts
<1>2. \A k \in 1..n : v(k) \in DPME
  <2> TAKE k \in 1..n
  <2>1. m.parts[k] \in Entry
    BY <1>1
  <2> QED
    BY <2>1, <1>1 DEF Entry, DPME
<1> HIDE DEF v, n
<1>3. \A k \in 1..n : [at |-> k, v |-> v(k)] \in BlockWrite
  BY <1>2 DEF BlockWrite
<1>4. a \in Seq(BlockWrite)
  <2>1. a \in [1..n -> BlockWrite]
    BY <1>3
  <2> HIDE DEF a
  <2> QED
    BY <2>1, <1>1, FunIsSeq
<1>5. Zap(m) \in Seq(BlockWrite)
  <2>1. [at |-> n + 1, v |-> Blank] \in BlockWrite
    BY <1>1 DEF BlockWrite
  <2>2. <<[at |-> n + 1, v |-> Blank]>> \in Seq(BlockWrite) /\ <<>> \in Seq(BlockWrite)
    BY <2>1
  <2> QED
    BY <2>2 DEF Zap, n
<1>6. BlockWrites(m) = a \o Zap(m)
  BY DEF BlockWrites, v, n
<1> HIDE DEF a
<1> QED
  BY <1>4, <1>5, <1>6

LEMMA BeginWriteSound == IInv /\ BeginWrite => Sound
<1> SUFFICES ASSUME IInv, BeginWrite PROVE Sound
  OBVIOUS
<1>1. Running /\ Idle /\ todo' = BlockWrites(map) /\ user' = user /\ disk' = disk /\ map' = map
  BY DEF BeginWrite
<1>2. Ordered(map) /\ Len(map.parts) > 0 /\ map \in Session
  BY <1>1, SessionFacts DEF IInv
<1>3. todo' \in Seq(BlockWrite)
  BY <1>1, <1>2, BlockWritesFacts
<1>4. Kept(map, map)
  BY <1>2, FlagsKept
<1>5. Running'
  BY <1>1 DEF Running
<1> QED
  BY <1>1, <1>2, <1>3, <1>4, <1>5 DEF IInv, Sound

(* What a block write, or one that fails, does to the session.              *)
LEMMA WriteSteps ==
  ASSUME IInv, ~Idle, todo' = Tail(todo), map' = Saved(Tail(todo)), user' = user,
         disk' \in [Blocks -> DPME \cup {Blank}]
  PROVE  Sound
<1>1. Running /\ Ordered(map) /\ Len(map.parts) > 0 /\ map \in Session
  BY SessionFacts DEF IInv
<1>2. todo \in Seq(BlockWrite) /\ todo # <<>>
  BY DEF IInv, Idle
<1>3. todo' \in Seq(BlockWrite)
  BY <1>2
<1>4. map' \in Session /\ map'.parts = map.parts /\ map'.base = map.base
  BY <1>1 DEF Saved, Session
<1>5. Kept(map, map')
  BY <1>1, <1>4, FlagsKept
<1>6. (~Idle)' => Running'
  BY <1>1 DEF Idle, Saved, Running
<1> QED
  BY <1>3, <1>5, <1>6 DEF IInv, Sound, Kept

LEMMA WriteBlockSound == IInv /\ WriteBlock => Sound
<1> SUFFICES ASSUME IInv, WriteBlock PROVE Sound
  OBVIOUS
<1>1. /\ ~Idle /\ disk' = [disk EXCEPT ![Head(todo).at] = Head(todo).v]
      /\ todo' = Tail(todo) /\ map' = Saved(Tail(todo)) /\ user' = user
  BY DEF WriteBlock
<1>2. Head(todo).v \in DPME \cup {Blank}
  <2>1. todo \in Seq(BlockWrite) /\ todo # <<>>
    BY <1>1 DEF IInv, Idle
  <2>2. Head(todo) \in BlockWrite
    BY <2>1
  <2> QED
    BY <2>2 DEF BlockWrite
<1>3. disk' \in [Blocks -> DPME \cup {Blank}]
  BY <1>1, <1>2 DEF IInv
<1> QED
  BY <1>1, <1>3, WriteSteps

LEMMA WriteFailsSound == IInv /\ WriteFails => Sound
<1> SUFFICES ASSUME IInv, WriteFails PROVE Sound
  OBVIOUS
<1>1. ~Idle /\ todo' = Tail(todo) /\ map' = Saved(Tail(todo)) /\ user' = user /\ disk' = disk
  BY DEF WriteFails
<1> QED
  BY <1>1, WriteSteps DEF IInv

LEMMA QuitSound == IInv /\ Quit => Sound
<1> SUFFICES ASSUME IInv, Quit PROVE Sound
  OBVIOUS
<1>1. map' = Closed /\ todo' = <<>> /\ user' = user /\ disk' = disk
  BY DEF Quit
<1>2. ~Running' /\ Idle'
  BY <1>1 DEF Running, Idle
<1> QED
  BY <1>1, <1>2 DEF IInv, Sound

LEMMA NextSound == IInv /\ [Next]_vars => Sound
<1> SUFFICES ASSUME IInv, [Next]_vars PROVE Sound
  OBVIOUS
<1>1. CASE Open
  BY <1>1, OpenSound
<1>2. CASE InitMap
  BY <1>2, InitMapSound
<1>3. CASE \E base \in BaseArguments, length \in LengthArguments : Create(base, length)
  BY <1>3, CreateSound
<1>4. CASE \E k \in Blocks : Rename(k)
  BY <1>4, RenameSound
<1>5. CASE \E k \in Blocks : DeletePart(k)
  BY <1>5, DeleteSound
<1>6. CASE \E k \in Blocks, index \in user.indices : Reorder(k, index)
  BY <1>6, ReorderSound
<1>7. CASE \E size \in user.sizes : ChangeMapSize(size)
  BY <1>7, ChangeMapSizeSound
<1>8. CASE BeginWrite
  BY <1>8, BeginWriteSound
<1>9. CASE WriteBlock
  BY <1>9, WriteBlockSound
<1>10. CASE WriteFails
  BY <1>10, WriteFailsSound
<1>11. CASE Quit
  BY <1>11, QuitSound
<1>12. CASE UNCHANGED vars
  <2>1. user' = user /\ disk' = disk /\ map' = map /\ todo' = todo
    BY <1>12 DEF vars
  <2>2. Running => Kept(map, map)
    BY FlagsKept, SessionFacts DEF IInv
  <2>3. (Running' <=> Running) /\ (Idle' <=> Idle)
    BY <2>1 DEF Running, Idle
  <2> QED
    BY <2>1, <2>2, <2>3 DEF IInv, Sound
<1> QED
  BY <1>1, <1>2, <1>3, <1>4, <1>5, <1>6, <1>7, <1>8, <1>9, <1>10, <1>11, <1>12 DEF Next

LEMMA SoundInv == Sound => IInv'
BY DEF Sound, IInv

(* A sound step loses no block, and leaves no free space in pieces.         *)
LEMMA SoundStays ==
  ASSUME IInv, Sound
  PROVE  /\ Running /\ Tiled(map) /\ map' # Closed /\ Sane(map') => Tiled(map')
         /\ Running /\ Tiled(map) /\ Joined(map) /\ map' # Closed /\ Sane(map') => Joined(map')
<1> SUFFICES ASSUME Running, map' # Closed
             PROVE  /\ Tiled(map) /\ Sane(map') => Tiled(map')
                    /\ Tiled(map) /\ Joined(map) /\ Sane(map') => Joined(map')
  OBVIOUS
<1>1. Ordered(map) /\ Len(map.parts) > 0 /\ Kept(map, map')
  BY DEF IInv, Sound
<1>2. (Tiled(map) <=> Row(ViewOf(map))) /\ (Joined(map) <=> Loose(ViewOf(map)))
  BY <1>1, ViewSays
<1>3. (Tiled(map') <=> Row(ViewOf(map'))) /\ (Joined(map') <=> Loose(ViewOf(map')))
  BY <1>1, ViewSays DEF Kept
<1> QED
  BY <1>1, <1>2, <1>3 DEF Kept

(* For every drive, every width of block numbers and every sequence of      *)
(* commands: a map that accounts for every block once goes on doing so      *)
(* (add_partition_to_map, delete_partition_from_map, move_entry_in_map,     *)
(* resize_map), and its free space stays in one piece wherever it is.       *)
THEOREM EditorTheorem == Spec => StaysSound
<1>1. Init => IInv
  BY InitInv
<1>2. IInv /\ [Next]_vars => IInv'
  BY NextSound, SoundInv
<1>3. IInv /\ [Next]_vars =>
        [(Running /\ Tiled(map) /\ map' # Closed /\ Sane(map')) => Tiled(map')]_vars
  BY NextSound, SoundStays
<1>4. IInv /\ [Next]_vars =>
        [(Running /\ Tiled(map) /\ Joined(map) /\ map' # Closed /\ Sane(map')) => Joined(map')]_vars
  BY NextSound, SoundStays
<1> QED
  BY <1>1, <1>2, <1>3, <1>4, PTL DEF Spec, StaysSound, StaysTiled, StaysJoined

(* For every width of block numbers and every first block that is tried, the *)
(* size of a drive of any size is found by reading alone                    *)
(* (compute_device_size).                                                   *)
THEOREM SizeTheorem == Spec => []SizeIsFound
<1>1. SizeIsFound
  BY ComputedSizeRight DEF SizeIsFound
<1> QED
  BY <1>1, PTL

LEMMA InvType == IInv => TypeOK
<1> SUFFICES ASSUME IInv PROVE TypeOK
  OBVIOUS
<1>1. ASSUME Running
      PROVE  /\ map.parts \in Seq(Entry)
             /\ Len(map.base) = Len(map.parts) /\ ToSet(map.base) = 1..Len(map.parts)
             /\ map.max \in Nat \cup {-1}
             /\ map.changed \in BOOLEAN /\ map.written \in BOOLEAN
  <2>1. Ordered(map)
    BY <1>1 DEF IInv
  <2>2. ToSet(map.base) = {map.base[i] : i \in 1..Len(map.base)}
    <3>1. DOMAIN map.base = 1..Len(map.base)
      BY <2>1 DEF Ordered, Session
    <3> QED
      BY <3>1 DEF ToSet
  <2>3. ToSet(map.base) = 1..Len(map.parts)
    <3>1. \A i \in 1..Len(map.base) : map.base[i] \in 1..Len(map.parts)
      BY <2>1 DEF Ordered
    <3>2. \A k \in 1..Len(map.parts) : \E i \in 1..Len(map.base) : map.base[i] = k
      BY <2>1 DEF Ordered
    <3> QED
      BY <2>2, <3>1, <3>2
  <2> QED
    BY <2>1, <2>3 DEF Ordered, Session
<1>2. ASSUME NEW i \in 1..Len(todo)
      PROVE  todo[i].at \in Nat \ {0} /\ todo[i].v \in DPME \cup {Blank}
  <2>1. todo[i] \in BlockWrite
    BY DEF IInv
  <2> QED
    BY <2>1 DEF BlockWrite
<1> QED
  BY <1>1, <1>2 DEF IInv, TypeOK

(* In every session, whatever the drive carries and whichever writes failed *)
(* before, the two orders of the map are orders of the same entries, and    *)
(* only entries are written.                                                *)
THEOREM EditorTypeTheorem == Spec => []TypeOK
<1>1. Init => IInv
  BY InitInv
<1>2. IInv /\ [Next]_vars => IInv'
  BY NextSound, SoundInv
<1> QED
  BY <1>1, <1>2, InvType, PTL DEF Spec

-----------------------------------------------------------------------------
(* A write that is torn.                                                    *)

History == [old : Seq(Entry) \cup {NoMap}, new : Seq(Entry) \cup {NoMap}, failed : Nat, leftover : BOOLEAN]

\* What is written for entry k of these.
BlockOf(parts, k) ==
  [count |-> Len(parts), start |-> parts[k].start, len |-> parts[k].len, type |-> parts[k].type]

\* Block k of the map that is written.
NewBlock(k) == BlockOf(last.new, k)

\* Is b block k of the map that is replaced?
OldBlock(k, b) ==
  /\ k <= Len(last.old) /\ b # Blank
  /\ Part(b.start, b.len, b.type) = last.old[k]
  /\ IF Len(last.old) > 1 THEN b.count = Len(last.old) ELSE b.count <= 1

\* A block of the new map, or the one behind it that is cleared.
Written(k, b) ==
  \/ k \in 1..Len(last.new) /\ b = NewBlock(k)
  \/ k = Len(last.new) + 1 /\ b = Blank

\* A block behind the old map, which no map of the new one's size needs.
Behind(k, b) == k > Len(last.old) /\ (b = Blank \/ b.count # Len(last.new))

\* Every block is one of the new map's, one of the old one's or behind it, and what is
\* still to be written are the new map's.
Torn ==
  /\ last.old \in Seq(Entry) /\ last.new \in Seq(Entry)
  /\ Len(last.old) > 0 /\ Len(last.new) > 0
  /\ \A k \in Blocks : Written(k, disk[k]) \/ OldBlock(k, disk[k]) \/ Behind(k, disk[k])
  /\ \A i \in 1..Len(todo) : Written(todo[i].at, todo[i].v)

TornInv ==
  /\ last \in History
  /\ last.old # NoMap /\ ~last.leftover => Torn

LEMMA PartsOf ==
  ASSUME NEW e \in Entry
  PROVE  Part(e.start, e.len, e.type) = e
BY DEF Part, Entry

LEMMA SameEntries ==
  ASSUME NEW p \in Seq(Entry), NEW q \in Seq(Entry), Len(p) = Len(q), \A i \in 1..Len(p) : p[i] = q[i]
  PROVE  p = q
OBVIOUS

LEMMA TornRead ==
  ASSUME disk \in [Blocks -> DPME \cup {Blank}], Torn, Len(last.old) # Len(last.new), ReadMap # NoMap
  PROVE  ReadMap.parts \in {last.old, last.new}
<1> DEFINE n == Len(last.new)
           o == Len(last.old)
           N == Limit
           r == ReadMap.parts
<1>1. /\ N \in Nat \ {0} /\ N < MediaSize
      /\ \A k \in 1..N : disk[k] \in DPME /\ disk[k] # Blank /\ disk[k].count = disk[1].count
      /\ r \in Seq(Entry) /\ Len(r) = N /\ \A k \in 1..N : r[k] = OnDisk(k)
  <2>1. FirstRead(ReadMap, N)
    BY ReadSays
  <2>2. Ordered(ReadMap) /\ Len(ReadMap.parts) = N /\ \A k \in 1..N : ReadMap.parts[k] = OnDisk(k)
    BY <2>1 DEF FirstRead
  <2> QED
    BY <2>2, ReadSays, SessionFacts
<1>2. /\ last.old \in Seq(Entry) /\ last.new \in Seq(Entry) /\ o \in Nat /\ n \in Nat
      /\ o > 0 /\ n > 0 /\ o # n
  BY DEF Torn
<1>3. MediaSize \in Nat /\ \A k \in 1..N : k \in Blocks
  BY <1>1, SizesAssumption DEF Blocks
<1>4. disk[1].count \in Nat /\ disk[1] # Blank /\ N = IF disk[1].count > 1 THEN disk[1].count ELSE 1
  <2>1. 1 \in 1..N
    BY <1>1
  <2>2. disk[1] \in DPME /\ disk[1] # Blank
    BY <2>1, <1>1
  <2> QED
    BY <2>2 DEF Limit, DPME
<1>5. \A k \in 1..N : \/ k <= n /\ disk[k] = NewBlock(k)
                      \/ OldBlock(k, disk[k])
                      \/ Behind(k, disk[k]) /\ disk[k].count # n
  BY <1>1, <1>3 DEF Torn, Written, Behind
<1>6. 1 \in 1..N
  BY <1>1
<1> HIDE DEF N, r, n, o
<1>7. CASE disk[1] = NewBlock(1)
  <2>1. disk[1].count = n
    BY <1>7 DEF NewBlock, BlockOf, n
  <2>2. N = n
    BY <2>1, <1>2, <1>4
  <2>3. ASSUME NEW k \in 1..N PROVE disk[k] = NewBlock(k)
    <3>1. disk[k].count = n
      BY <2>1, <1>1
    <3>2. ~OldBlock(k, disk[k])
      <4>1. CASE o > 1
        BY <4>1, <3>1, <1>2 DEF OldBlock, o
      <4>2. CASE ~(o > 1)
        <5>1. SUFFICES ASSUME OldBlock(k, disk[k]) PROVE FALSE
          OBVIOUS
        <5>2. disk[k].count <= 1
          BY <5>1, <4>2, <1>2 DEF OldBlock, o
        <5>3. n > 1
          BY <1>2, <4>2
        <5> QED
          BY <5>2, <5>3, <3>1, <1>2
      <4> QED
        BY <4>1, <4>2
    <3> QED
      BY <3>1, <3>2, <1>5
  <2>4. \A k \in 1..N : r[k] = last.new[k]
    <3> TAKE k \in 1..N
    <3>0. disk[k] = NewBlock(k)
      BY <2>3
    <3>1. OnDisk(k) = Part(last.new[k].start, last.new[k].len, last.new[k].type)
      <4>1. /\ NewBlock(k).start = last.new[k].start /\ NewBlock(k).len = last.new[k].len
            /\ NewBlock(k).type = last.new[k].type
        BY DEF NewBlock, BlockOf
      <4> QED
        BY <3>0, <4>1 DEF OnDisk
    <3>2. last.new[k] \in Entry
      BY <2>2, <1>2 DEF n
    <3> QED
      BY <3>1, <3>2, <1>1, PartsOf
  <2>5. r = last.new
    BY <2>2, <2>4, <1>1, <1>2, SameEntries DEF n
  <2> QED
    BY <2>5 DEF r
<1>8. CASE OldBlock(1, disk[1])
  <2>1. N = o
    <3>1. IF o > 1 THEN disk[1].count = o ELSE disk[1].count <= 1
      BY <1>8 DEF OldBlock, o
    <3> QED
      BY <3>1, <1>2, <1>4
  <2>2. ASSUME NEW k \in 1..N PROVE OldBlock(k, disk[k])
    <3>1. CASE k = 1
      BY <3>1, <1>8
    <3>2. CASE k # 1
      <4>1. o > 1
        BY <3>2, <2>1, <1>2
      <4>2. disk[1].count = o
        BY <4>1, <1>8 DEF OldBlock, o
      <4>3. disk[k].count = o
        BY <4>2, <1>1
      <4>4. disk[k] # NewBlock(k)
        <5>1. NewBlock(k).count = n
          BY DEF NewBlock, BlockOf, n
        <5> QED
          BY <5>1, <4>3, <1>2
      <4>5. ~Behind(k, disk[k])
        BY <2>1, <1>2 DEF Behind, o
      <4> QED
        BY <4>4, <4>5, <1>5
    <3> QED
      BY <3>1, <3>2
  <2>3. \A k \in 1..N : r[k] = last.old[k]
    <3> TAKE k \in 1..N
    <3>1. OnDisk(k) = last.old[k]
      BY <2>2 DEF OnDisk, OldBlock
    <3> QED
      BY <3>1, <1>1
  <2>4. r = last.old
    BY <2>1, <2>3, <1>1, <1>2, SameEntries DEF o
  <2> QED
    BY <2>4 DEF r
<1>9. ~Behind(1, disk[1])
  BY <1>2 DEF Behind, o
<1> QED
  BY <1>5, <1>6, <1>7, <1>8, <1>9

LEMMA TornRight == IInv /\ TornInv => TornIsNoticed
<1> SUFFICES ASSUME IInv, TornInv, last.old # NoMap, ~last.leftover, Len(last.old) # Len(last.new), ReadMap # NoMap
             PROVE  ReadMap.parts \in {last.old, last.new}
  BY DEF TornIsNoticed
<1>1. Torn /\ disk \in [Blocks -> DPME \cup {Blank}]
  BY DEF TornInv, IInv
<1> QED
  BY <1>1, TornRead

(* The blocks of a write are the entries in their order, then the one behind *)
(* them.                                                                    *)
LEMMA BlockWritesSay ==
  ASSUME NEW m, Ordered(m)
  PROVE  LET n == Len(m.parts)
             q == BlockWrites(m)
         IN  /\ n \in Nat /\ q \in Seq(BlockWrite) /\ Len(q) = IF m.max > n THEN n + 1 ELSE n
             /\ \A i \in 1..n : q[i].at = i /\ q[i].v = BlockOf(m.parts, i)
             /\ \A i \in 1..Len(q) : i > n => i = n + 1 /\ q[i].at = i /\ q[i].v = Blank
<1> DEFINE n == Len(m.parts)
           q == BlockWrites(m)
           a == [k \in 1..n |-> [at |-> k, v |-> BlockOf(m.parts, k)]]
           zap == [at |-> n + 1, v |-> Blank]
<1>1. n \in Nat /\ m.max \in Int
  BY SessionFacts DEF Session
<1>2. q = a \o Zap(m)
  BY DEF BlockWrites, BlockOf
<1>3. Zap(m) = IF m.max > n THEN <<zap>> ELSE <<>>
  BY DEF Zap
<1>4. Len(a) = n /\ \A i \in 1..n : a[i].at = i /\ a[i].v = BlockOf(m.parts, i)
  <2>1. \A i \in 1..n : a[i] = [at |-> i, v |-> BlockOf(m.parts, i)]
    OBVIOUS
  <2> QED
    BY <2>1, <1>1
<1>5. PICK S : a \in Seq(S) /\ zap \in S
  <2>1. \E S : a \in [1..n -> S] /\ zap \in S
    <3> DEFINE S == {a[k] : k \in 1..n} \cup {zap}
    <3>1. a \in [1..n -> S] /\ zap \in S
      OBVIOUS
    <3> QED
      BY <3>1
  <2> HIDE DEF a, zap
  <2>2. PICK S : a \in [1..n -> S] /\ zap \in S
    BY <2>1
  <2>3. a \in Seq(S)
    BY <2>2, <1>1, FunIsSeq
  <2> QED
    BY <2>2, <2>3
<1>6. zap.at = n + 1 /\ zap.v = Blank
  OBVIOUS
<1> HIDE DEF a, zap
<1>7. q \in Seq(BlockWrite)
  BY BlockWritesFacts
<1>8. CASE m.max > n
  <2>1. q = a \o <<zap>>
    BY <1>2, <1>3, <1>8
  <2>2. <<zap>> \in Seq(S) /\ Len(<<zap>>) = 1 /\ <<zap>>[1] = zap
    BY <1>5
  <2>3. /\ Len(a \o <<zap>>) = n + 1
        /\ \A i \in 1..(n + 1) : (a \o <<zap>>)[i] = IF i <= n THEN a[i] ELSE <<zap>>[i - n]
    BY <2>2, <1>1, <1>4, <1>5, ConcatProperties
  <2>4. Len(q) = n + 1 /\ \A i \in 1..(n + 1) : q[i] = IF i <= n THEN a[i] ELSE zap
    <3>1. \A i \in 1..(n + 1) : i <= n \/ i - n = 1
      BY <1>1
    <3> QED
      BY <3>1, <2>1, <2>2, <2>3
  <2> HIDE DEF q, n
  <2>5. \A i \in 1..n : q[i] = a[i]
    BY <2>4, <1>1
  <2>6. \A i \in 1..Len(q) : i > n => i = n + 1 /\ q[i] = zap
    BY <2>4, <1>1
  <2> QED
    BY <2>4, <2>5, <2>6, <1>1, <1>4, <1>6, <1>7, <1>8 DEF q, n
<1>9. CASE ~(m.max > n)
  <2>1. q = a \o <<>>
    BY <1>2, <1>3, <1>9
  <2>2. q = a
    BY <2>1, <1>5, ConcatEmptySeq
  <2>3. \A i \in 1..Len(q) : ~(i > n)
    BY <2>2, <1>1, <1>4
  <2> QED
    BY <2>2, <2>3, <1>1, <1>4, <1>7, <1>9
<1> QED
  BY <1>8, <1>9

LEMMA TornInit == Init => TornInv
<1> SUFFICES ASSUME Init PROVE TornInv
  OBVIOUS
<1>1. last = Nothing
  BY DEF Init
<1> QED
  BY <1>1 DEF TornInv, Nothing, History

(* A step after which nothing is remembered.                                *)
LEMMA TornForgotten == last' = Nothing => TornInv'
<1> SUFFICES ASSUME last' = Nothing PROVE TornInv'
  OBVIOUS
<1>1. last' \in History /\ last'.old = NoMap
  BY DEF Nothing, History
<1> QED
  BY <1>1 DEF TornInv

(* A step that neither writes nor begins to.                                *)
LEMMA TornUntouched ==
  ASSUME TornInv, last' = last, disk' = disk, todo' = todo \/ todo' = <<>>
  PROVE  TornInv'
<1>1. last \in History
  BY DEF TornInv
<1>2. ASSUME last.old # NoMap, ~last.leftover PROVE Torn'
  <2>1. Torn
    BY <1>2 DEF TornInv
  <2>2. \A i \in 1..Len(todo') : Written(todo'[i].at, todo'[i].v)
    <3>1. CASE todo' = todo
      BY <3>1, <2>1 DEF Torn
    <3>2. CASE todo' = <<>>
      BY <3>2
    <3> QED
      BY <3>1, <3>2
  <2> QED
    BY <2>1, <2>2 DEF Torn, Written, OldBlock, Behind, NewBlock
<1> QED
  BY <1>1, <1>2 DEF TornInv

(* A block is written, or fails to be: it may keep what it had.             *)
LEMMA TornStep ==
  ASSUME IInv, Torn, ~Idle, todo' = Tail(todo), last'.old = last.old, last'.new = last.new,
         disk' = disk \/ disk' = [disk EXCEPT ![Head(todo).at] = Head(todo).v]
  PROVE  Torn'
<1>1. todo \in Seq(BlockWrite) /\ todo # <<>> /\ disk \in [Blocks -> DPME \cup {Blank}]
  BY DEF IInv, Idle
<1>2. /\ 1 \in 1..Len(todo) /\ Head(todo) = todo[1]
      /\ Len(todo') = Len(todo) - 1 /\ \A i \in 1..Len(todo') : todo'[i] = todo[i + 1] /\ i + 1 \in 1..Len(todo)
  BY <1>1
<1>3. \A i \in 1..Len(todo') : Written(todo'[i].at, todo'[i].v)
  BY <1>2 DEF Torn
<1>4. Written(Head(todo).at, Head(todo).v)
  BY <1>2 DEF Torn
<1>5. \A k \in Blocks : Written(k, disk'[k]) \/ OldBlock(k, disk'[k]) \/ Behind(k, disk'[k])
  <2> TAKE k \in Blocks
  <2>1. CASE disk'[k] = disk[k]
    BY <2>1 DEF Torn
  <2>2. CASE disk'[k] # disk[k]
    <3>1. k = Head(todo).at /\ disk'[k] = Head(todo).v
      BY <2>2, <1>1
    <3> QED
      BY <3>1, <1>4
  <2> QED
    BY <2>1, <2>2
<1>6. /\ last.old \in Seq(Entry) /\ last.new \in Seq(Entry)
      /\ Len(last.old) > 0 /\ Len(last.new) > 0
  BY DEF Torn
<1> QED
  BY <1>3, <1>5, <1>6 DEF Torn, Written, OldBlock, Behind, NewBlock

(* A write begins: the blocks are those of the map that is read, and behind *)
(* it.                                                                      *)
LEMMA TornBegins == IInv /\ BeginWrite => TornInv'
<1> SUFFICES ASSUME IInv, BeginWrite PROVE TornInv'
  OBVIOUS
<1>1. /\ Running /\ todo' = BlockWrites(map) /\ disk' = disk
      /\ last'.old = (IF ReadMap = NoMap THEN NoMap ELSE ReadMap.parts)
      /\ last'.new = map.parts /\ last'.failed = 0
      /\ last'.leftover = (\E k \in Blocks : k > Limit /\ disk[k] # Blank /\ disk[k].count = Len(map.parts))
      /\ last' = [old |-> last'.old, new |-> last'.new, failed |-> last'.failed, leftover |-> last'.leftover]
  BY DEF BeginWrite
<1>2. /\ disk \in [Blocks -> DPME \cup {Blank}]
      /\ Ordered(map) /\ Len(map.parts) > 0 /\ map.parts \in Seq(Entry)
  BY <1>1, SessionFacts DEF IInv
<1>3. ReadMap # NoMap => ReadMap.parts \in Seq(Entry) /\ Len(ReadMap.parts) > 0
  BY <1>2, ReadFacts, SessionFacts
<1>4. last' \in History
  <2>1. last'.leftover \in BOOLEAN
    <3>1. (\E k \in Blocks : k > Limit /\ disk[k] # Blank /\ disk[k].count = Len(map.parts)) \in BOOLEAN
      OBVIOUS
    <3> QED
      BY <1>1, <3>1
  <2>2. last'.old \in Seq(Entry) \cup {NoMap} /\ last'.new \in Seq(Entry) \cup {NoMap} /\ last'.failed \in Nat
    BY <1>1, <1>2, <1>3
  <2> QED
    BY <2>1, <2>2, <1>1 DEF History
<1>5. ASSUME last'.old # NoMap, ~last'.leftover PROVE Torn'
  <2>1. ReadMap # NoMap /\ last'.old = ReadMap.parts
    BY <1>1, <1>5
  <2>2. /\ Limit \in Nat \ {0}
        /\ \A k \in 1..Limit : disk[k] # Blank /\ disk[k].count = disk[1].count
        /\ FirstRead(ReadMap, Limit)
    BY <1>2, <2>1, ReadSays
  <2>3. Len(last'.old) = Limit /\ \A k \in 1..Limit : last'.old[k] = OnDisk(k)
    BY <2>1, <2>2 DEF FirstRead
  <2>4. disk[1].count \in Nat /\ Limit = IF disk[1].count > 1 THEN disk[1].count ELSE 1
    <3>1. 1 \in Blocks /\ disk[1] # Blank
      BY <2>2, SizesAssumption DEF Blocks
    <3>2. disk[1] \in DPME
      BY <3>1, <1>2
    <3> QED
      BY <3>1, <3>2 DEF Limit, DPME
  <2>5. ASSUME NEW k \in Blocks PROVE OldBlock(k, disk[k])' \/ Behind(k, disk[k])'
    <3>0. k \in Nat \ {0}
      BY DEF Blocks
    <3>1. CASE k <= Limit
      <4>1. k \in 1..Limit
        BY <3>0, <3>1, <2>2
      <4>2. disk[k] # Blank /\ disk[k].count = disk[1].count /\ last'.old[k] = OnDisk(k)
        BY <4>1, <2>2, <2>3
      <4>3. IF Limit > 1 THEN disk[k].count = Limit ELSE disk[k].count <= 1
        BY <4>2, <2>4
      <4>4. k <= Len(last'.old)
            /\ (IF Len(last'.old) > 1 THEN disk'[k].count = Len(last'.old) ELSE disk'[k].count <= 1)
        BY <4>3, <3>1, <2>3, <1>1
      <4>5. Part(disk'[k].start, disk'[k].len, disk'[k].type) = last'.old[k] /\ disk'[k] # Blank
        BY <4>2, <1>1 DEF OnDisk
      <4> QED
        BY <4>4, <4>5 DEF OldBlock
    <3>2. CASE ~(k <= Limit)
      <4>1. k > Limit
        BY <3>0, <3>2, <2>2
      <4>2. disk[k] = Blank \/ disk[k].count # Len(map.parts)
        BY <4>1, <1>1, <1>5
      <4> QED
        BY <4>1, <4>2, <2>3, <1>1 DEF Behind
    <3> QED
      BY <3>1, <3>2
  <2>6. \A i \in 1..Len(todo') : Written(todo[i].at, todo[i].v)'
    <3> TAKE i \in 1..Len(todo')
    <3> DEFINE n == Len(map.parts)
               q == BlockWrites(map)
    <3>1. /\ n \in Nat /\ q \in Seq(BlockWrite)
          /\ \A j \in 1..n : q[j].at = j /\ q[j].v = BlockOf(map.parts, j)
          /\ \A j \in 1..Len(q) : j > n => j = n + 1 /\ q[j].at = j /\ q[j].v = Blank
      BY <1>2, BlockWritesSay
    <3> HIDE DEF q, n
    <3>2. i \in 1..Len(q) /\ todo'[i] = q[i] /\ Len(q) \in Nat
      BY <3>1, <1>1 DEF q
    <3>3. CASE i <= n
      <4>1. i \in 1..n
        BY <3>1, <3>2, <3>3
      <4>2. todo'[i].at = i /\ todo'[i].v = BlockOf(map.parts, i)
        BY <4>1, <3>1, <3>2
      <4> QED
        BY <4>1, <4>2, <1>1 DEF Written, NewBlock, n
    <3>4. CASE ~(i <= n)
      <4>1. i > n
        BY <3>1, <3>2, <3>4
      <4>2. todo'[i].at = n + 1 /\ todo'[i].v = Blank
        BY <4>1, <3>1, <3>2
      <4> QED
        BY <4>2, <1>1 DEF Written, n
    <3> QED
      BY <3>3, <3>4
  <2> QED
    BY <2>1, <2>5, <2>6, <1>1, <1>2, <1>3 DEF Torn
<1> QED
  BY <1>4, <1>5 DEF TornInv

LEMMA TornWrite == IInv /\ TornInv /\ WriteBlock => TornInv'
<1> SUFFICES ASSUME IInv, TornInv, WriteBlock PROVE TornInv'
  OBVIOUS
<1>1. /\ ~Idle /\ disk' = [disk EXCEPT ![Head(todo).at] = Head(todo).v] /\ todo' = Tail(todo)
      /\ last' = Nothing \/ last' = last
  BY DEF WriteBlock
<1>2. CASE last' = Nothing
  BY <1>2, TornForgotten
<1>3. CASE last' = last
  <2>1. last \in History /\ (last.old # NoMap /\ ~last.leftover => Torn)
    BY DEF TornInv
  <2>2. Torn => Torn'
    BY <1>1, <1>3, TornStep
  <2> QED
    BY <2>1, <2>2, <1>3 DEF TornInv
<1> QED
  BY <1>1, <1>2, <1>3

LEMMA TornFails == IInv /\ TornInv /\ WriteFails => TornInv'
<1> SUFFICES ASSUME IInv, TornInv, WriteFails PROVE TornInv'
  OBVIOUS
<1>1. ~Idle /\ disk' = disk /\ todo' = Tail(todo) /\ last' = [last EXCEPT !.failed = @ + 1]
  BY DEF WriteFails
<1>2. last \in History /\ (last.old # NoMap /\ ~last.leftover => Torn)
  BY DEF TornInv
<1>3. /\ last' \in History /\ last'.old = last.old /\ last'.new = last.new
      /\ last'.leftover = last.leftover
  BY <1>1, <1>2 DEF History
<1>4. Torn => Torn'
  BY <1>1, <1>3, TornStep
<1> QED
  BY <1>2, <1>3, <1>4 DEF TornInv

LEMMA TornNext == IInv /\ TornInv /\ [Next]_vars => TornInv'
<1> SUFFICES ASSUME IInv, TornInv, [Next]_vars PROVE TornInv'
  OBVIOUS
<1>1. CASE Open
  BY <1>1, TornForgotten DEF Open
<1>2. CASE InitMap
  BY <1>2, TornUntouched DEF InitMap
<1>3. CASE \E base \in BaseArguments, length \in LengthArguments : Create(base, length)
  BY <1>3, TornUntouched DEF Create
<1>4. CASE \E k \in Blocks : Rename(k)
  BY <1>4, TornUntouched DEF Rename
<1>5. CASE \E k \in Blocks : DeletePart(k)
  BY <1>5, TornUntouched DEF DeletePart
<1>6. CASE \E k \in Blocks, index \in user.indices : Reorder(k, index)
  BY <1>6, TornUntouched DEF Reorder
<1>7. CASE \E size \in user.sizes : ChangeMapSize(size)
  BY <1>7, TornUntouched DEF ChangeMapSize
<1>8. CASE BeginWrite
  BY <1>8, TornBegins
<1>9. CASE WriteBlock
  BY <1>9, TornWrite
<1>10. CASE WriteFails
  BY <1>10, TornFails
<1>11. CASE Quit
  BY <1>11, TornUntouched DEF Quit
<1>12. CASE UNCHANGED vars
  BY <1>12, TornUntouched DEF vars
<1> QED
  BY <1>1, <1>2, <1>3, <1>4, <1>5, <1>6, <1>7, <1>8, <1>9, <1>10, <1>11, <1>12 DEF Next

(* For every drive, every sequence of commands and every choice of blocks   *)
(* that fail: a write that changes the number of entries and is left        *)
(* unfinished (write_partition_map) makes the next session read the old     *)
(* map, the new one, or none (read_partition_map).                          *)
THEOREM TornTheorem == Spec => []TornIsNoticed
<1>1. Init => IInv /\ TornInv
  BY InitInv, TornInit
<1>2. IInv /\ TornInv /\ [Next]_vars => IInv' /\ TornInv'
  BY NextSound, SoundInv, TornNext
<1> QED
  BY <1>1, <1>2, TornRight, PTL DEF Spec

-----------------------------------------------------------------------------
(* A map that was saved.                                                    *)

\* The drive carries these entries and would be read so.
OnDrive(parts) ==
  /\ Limit = Len(parts)
  /\ \A k \in 1..Len(parts) : /\ k \in Blocks /\ disk[k] # Blank
                              /\ disk[k].count = disk[1].count /\ OnDisk(k) = parts[k]

\* What of a write is done: its first blocks are on the drive if none has failed, and
\* the rest is still to be written.
Done == Len(BlockWrites(map)) - Len(todo)
Underway ==
  /\ Done >= 0
  /\ \A i \in 1..Len(todo) : todo[i] = BlockWrites(map)[Done + i]
  /\ last.failed = 0 =>
       \A i \in 1..Len(map.parts) : i <= Done => i \in Blocks /\ disk[i] = BlockOf(map.parts, i)

SavedInv == (~Idle => Underway) /\ (Clean => OnDrive(map.parts))

(* What is on the drive is read.                                            *)
LEMMA OnDriveRead ==
  ASSUME disk \in [Blocks -> DPME \cup {Blank}],
         NEW p \in Seq(Entry), Len(p) > 0, OnDrive(p)
  PROVE  ReadMap # NoMap /\ ReadMap.parts = p /\ Ordered(ReadMap) /\ Ascending(ReadMap)
<1> DEFINE N == Limit
           first == CHOOSE f : Reads(f, N)
<1>1. /\ N = Len(p) /\ N \in Nat /\ N > 0
      /\ \A k \in 1..N : /\ k \in Blocks /\ disk[k] # Blank
                         /\ disk[k].count = disk[1].count /\ OnDisk(k) = p[k]
  BY DEF OnDrive
<1>2. disk[1] # Blank /\ ~(\E k \in 2..N : k \notin Blocks \/ ~Good(k, disk[1].count))
  <2>1. 1 \in 1..N /\ \A k \in 2..N : k \in 1..N
    BY <1>1
  <2> QED
    BY <2>1, <1>1 DEF Good
<1>3. ReadMap = first[N]
  BY <1>2 DEF ReadMap, Reads, OnDisk, Unread
<1> HIDE DEF N
<1>4. \A k \in 1..N : OnDisk(k) \in Entry
  BY <1>1
<1>5. Reads(first, N)
  <2>1. \E f : Reads(f, N)
    BY <1>1, <1>4, ReadsExists
  <2> QED
    BY <2>1
<1> HIDE DEF first
<1>6. N \in 0..N
  BY <1>1
<1>7. FirstRead(first[N], N)
  BY <1>1, <1>4, <1>5, <1>6, ReadsFirst
<1>8. PICK m : m = first[N]
  OBVIOUS
<1>9. /\ Ordered(m) /\ Len(m.parts) = N /\ Ascending(m)
      /\ \A k \in 1..N : m.parts[k] = OnDisk(k)
  BY <1>7, <1>8 DEF FirstRead
<1>10. m.parts \in Seq(Entry) /\ m \in Session
  BY <1>9, SessionFacts
<1>11. m.parts = p
  BY <1>1, <1>9, <1>10, SameEntries
<1>12. m # NoMap
  <2>1. m \in [parts : Seq(Entry), base : Seq(Nat), max : Int, changed : BOOLEAN, written : BOOLEAN]
    BY <1>10 DEF Session
  <2> QED
    BY <2>1, NoneAssumption
<1> QED
  BY <1>3, <1>8, <1>9, <1>11, <1>12

(* And what was read is on the drive.                                       *)
LEMMA ReadIsOnDrive ==
  ASSUME disk \in [Blocks -> DPME \cup {Blank}], ReadMap # NoMap
  PROVE  OnDrive(ReadMap.parts)
<1>1. /\ Limit \in Nat /\ Limit < MediaSize
      /\ \A k \in 1..Limit : disk[k] \in DPME /\ disk[k] # Blank /\ disk[k].count = disk[1].count
      /\ FirstRead(ReadMap, Limit)
  BY ReadSays
<1>2. Len(ReadMap.parts) = Limit /\ \A k \in 1..Limit : ReadMap.parts[k] = OnDisk(k)
  BY <1>1 DEF FirstRead
<1>3. \A k \in 1..Limit : k \in Blocks
  BY <1>1, SizesAssumption DEF Blocks
<1> QED
  BY <1>1, <1>2, <1>3 DEF OnDrive

(* There is only one base order of entries that tile the drive.             *)
LEMMA OneOrder ==
  ASSUME NEW m, Ordered(m), Row(ViewOf(m)), NEW r, Ordered(r), Ascending(r), r.parts = m.parts
  PROVE  r.base = m.base
<1> DEFINE n == Len(m.parts)
           p == m.parts
           a == m.base
           b == r.base
           Bad == {i \in 1..n : b[i] # a[i]}
<1>1. /\ n \in Nat /\ p \in Seq(Entry) /\ a \in Seq(Nat) /\ b \in Seq(Nat) /\ Len(a) = n /\ Len(b) = n
      /\ \A i \in 1..n : a[i] \in 1..n /\ b[i] \in 1..n
  BY SessionFacts
<1>2. /\ \A i, j \in 1..n : a[i] = a[j] => i = j
      /\ \A i, j \in 1..n : b[i] = b[j] => i = j
      /\ \A k \in 1..n : \E i \in 1..n : a[i] = k
      /\ \A k \in 1..n : \E i \in 1..n : b[i] = k
  BY <1>1 DEF Ordered
<1> DEFINE s(k) == p[k].start
<1>3. \A k \in 1..n : s(k) \in Nat
  BY <1>1, EntryFacts
<1>4. \A i, j \in 1..n : i < j => s(a[i]) < s(a[j])
  <2>1. ViewOf(m) \in Seq(Entry) /\ Len(ViewOf(m)) = n /\ \A i \in 1..n : ViewOf(m)[i] = p[a[i]]
    BY <1>1, SessionFacts
  <2>2. \A i, j \in 1..Len(ViewOf(m)) : i < j => ViewOf(m)[i].start < ViewOf(m)[j].start
    <3> SUFFICES ASSUME NEW i \in 1..Len(ViewOf(m)), NEW j \in 1..Len(ViewOf(m)), i < j
                 PROVE  ViewOf(m)[i].start < ViewOf(m)[j].start
      OBVIOUS
    <3>1. PICK v \in Seq(Entry) : v = ViewOf(m)
      BY <2>1
    <3>2. v[i].start + v[i].len <= v[j].start
      BY <3>1, RowGoesUp
    <3>3. v[i].len > 0
      BY <3>1 DEF Row
    <3>4. v[i].start \in Nat /\ v[i].len \in Nat /\ v[j].start \in Nat
      BY <3>1, EntryFacts
    <3> QED
      BY <3>1, <3>2, <3>3, <3>4
  <2> QED
    BY <2>1, <2>2
<1>5. \A i \in 1..(n - 1) : s(b[i]) <= s(b[i + 1])
  <2>1. \A i \in 1..n : ViewOf(r)[i] = p[b[i]]
    <3>1. \A i \in 1..Len(r.base) : ViewOf(r)[i] = r.parts[r.base[i]]
      BY SessionFacts
    <3> QED
      BY <3>1, <1>1
  <2>2. \A i \in 1..(n - 1) : i \in 1..n /\ i + 1 \in 1..n
    BY <1>1
  <2> QED
    BY <2>1, <2>2, <1>1 DEF Ascending
<1> HIDE DEF n, p, a, b, s
<1>6. ASSUME NEW i \in 1..n, NEW j \in 1..n, i <= j PROVE s(b[i]) <= s(b[j])
  <2> DEFINE Low == {h \in i..n : ~(s(b[i]) <= s(b[h]))}
  <2>1. SUFFICES ASSUME Low # {} PROVE FALSE
    <3>1. j \in i..n
      BY <1>1, <1>6
    <3> QED
      BY <3>1
  <2>2. Low \subseteq Nat
    OBVIOUS
  <2>3. PICK h \in Low : \A y \in Low : h <= y
    <3> HIDE DEF Low
    <3> QED
      BY <2>1, <2>2, LeastNumber
  <2>4. h \in i..n /\ ~(s(b[i]) <= s(b[h])) /\ h \in Nat /\ i \in Nat /\ n \in Nat
    BY <1>1
  <2>5. h # i
    BY <2>4, <1>1, <1>3
  <2>6. h - 1 \in i..n /\ h - 1 \in 1..(n - 1) /\ (h - 1) + 1 = h /\ h - 1 \in 1..n /\ h \in 1..n
    BY <2>4, <2>5
  <2>7. s(b[i]) <= s(b[h - 1])
    <3>1. h - 1 \notin Low
      <4> HIDE DEF Low
      <4> QED
        BY <2>3, <2>6
    <3> QED
      BY <3>1, <2>6
  <2>8. s(b[h - 1]) <= s(b[h])
    BY <2>6, <1>5
  <2>9. s(b[i]) \in Nat /\ s(b[h - 1]) \in Nat /\ s(b[h]) \in Nat
    BY <2>6, <1>1, <1>3
  <2> QED
    BY ONLY <2>4, <2>7, <2>8, <2>9
<1>7. Bad = {}
  <2> SUFFICES ASSUME Bad # {} PROVE FALSE
    OBVIOUS
  <2>1. Bad \subseteq Nat
    OBVIOUS
  <2>2. PICK i \in Bad : \A y \in Bad : i <= y
    <3> HIDE DEF Bad
    <3> QED
      BY <2>1, LeastNumber
  <2>3. i \in 1..n /\ b[i] # a[i] /\ i \in Nat
    OBVIOUS
  <2>4. \A h \in 1..n : h < i => b[h] = a[h]
    <3> TAKE h \in 1..n
    <3>1. h \notin Bad => b[h] = a[h]
      OBVIOUS
    <3>2. h < i => h \notin Bad
      <4> HIDE DEF Bad
      <4> QED
        BY <2>2, <2>3
    <3> QED
      BY <3>1, <3>2
  <2>5. PICK j \in 1..n : a[j] = b[i]
    BY <2>3, <1>1, <1>2
  <2>6. PICK h \in 1..n : b[h] = a[i]
    BY <2>3, <1>1, <1>2
  <2> HIDE DEF Bad
  <2>7. i < j
    <3>1. i # j
      BY <2>3, <2>5
    <3>2. ~(j < i)
      <4>1. j < i => b[j] = b[i]
        BY <2>4, <2>5
      <4> QED
        BY <4>1, <2>3, <1>2
    <3> QED
      BY <3>1, <3>2, <2>3
  <2>8. i <= h
    <3>1. h < i => a[h] = a[i]
      BY <2>4, <2>6
    <3>2. ~(h < i)
      BY <3>1, <2>3, <1>2
    <3> QED
      BY <3>2, <2>3
  <2>9. s(b[i]) <= s(b[h])
    BY <2>3, <2>8, <1>6
  <2>10. s(a[i]) < s(a[j])
    BY <2>3, <2>7, <1>4
  <2>11. s(a[i]) \in Nat /\ s(b[i]) \in Nat
    BY <2>3, <1>1, <1>3
  <2> QED
    BY <2>5, <2>6, <2>9, <2>10, <2>11
<1>8. \A i \in 1..n : b[i] = a[i]
  BY <1>7
<1>9. b = a
  BY <1>1, <1>8
<1> QED
  BY <1>9 DEF a, b

LEMMA SavedRight == IInv /\ SavedInv => SavedReadsBack
<1> SUFFICES ASSUME IInv, SavedInv, Clean
             PROVE  ReadMap # NoMap /\ ReadMap.parts = map.parts /\ (Tiled(map) => ReadMap.base = map.base)
  BY DEF SavedReadsBack
<1>1. /\ Ordered(map) /\ Len(map.parts) > 0 /\ map.parts \in Seq(Entry)
      /\ disk \in [Blocks -> DPME \cup {Blank}] /\ OnDrive(map.parts)
  BY SessionFacts DEF IInv, SavedInv, Clean
<1>2. ReadMap # NoMap /\ ReadMap.parts = map.parts /\ Ordered(ReadMap) /\ Ascending(ReadMap)
  BY <1>1, OnDriveRead
<1>3. ASSUME Tiled(map) PROVE ReadMap.base = map.base
  <2>1. Row(ViewOf(map))
    BY <1>1, <1>3, ViewSays
  <2> QED
    BY <2>1, <1>1, <1>2, OneOrder
<1> QED
  BY <1>2, <1>3

(* Every command leaves the map as it was or says that it is changed.       *)
LEMMA DeleteFlag ==
  ASSUME NEW m \in Session, NEW k, NEW g, NEW p
  PROVE  Delete([m EXCEPT !.parts[k] = g], p).changed = m.changed
BY DEF Delete, Session

LEMMA FreedFlag ==
  ASSUME NEW m, Ordered(m), NEW k \in 1..Len(m.parts)
  PROVE  Freed(m, k).changed = TRUE
<1> DEFINE a == [m EXCEPT !.parts[k].type = "free", !.changed = TRUE]
           b == JoinNext(a, k)
           h == After(a, k)
<1>1. m \in Session
  BY SessionFacts
<1>2. Ordered(a) /\ Len(a.parts) = Len(m.parts)
  BY FreeFacts
<1>3. a.changed = TRUE
  BY <1>1 DEF Session
<1> HIDE DEF a
<1>4. k \in 1..Len(a.parts) /\ a \in Session
  BY <1>2, SessionFacts
<1>5. b.changed = TRUE
  BY <1>3, <1>4, DeleteFlag DEF JoinNext
<1>6. Ordered(b)
  BY <1>2, <1>4, JoinNextFacts
<1> HIDE DEF b, h
<1>7. b \in Session
  BY <1>6, SessionFacts
<1>8. JoinPrev(b, h).changed = TRUE
  BY <1>5, <1>7, DeleteFlag DEF JoinPrev
<1> QED
  BY <1>8 DEF Freed, a, b, h

LEMMA AddedFlag ==
  ASSUME NEW m, Ordered(m), NEW base \in 0..(Word - 1), NEW length \in 0..(Word - 1), NEW type \in Types
  PROVE  Added(m, base, length, type) = m \/ Added(m, base, length, type).changed = TRUE
<1>1. CASE Refused(m, base, length)
  BY <1>1 DEF Added
<1>2. CASE ~Refused(m, base, length)
  <2>1. PICK y : y = WithPartition(m, base, length, type)
    OBVIOUS
  <2>2. Found(m, base, length) # 0
    BY <1>2 DEF Refused
  <2>3. y \in Session
    <3>1. Ordered(y)
      BY <2>1, <2>2, WithOrdered
    <3> QED
      BY <3>1, SessionFacts
  <2>4. Added(m, base, length, type) = [y EXCEPT !.changed = TRUE]
    BY <1>2, <2>1 DEF Added
  <2>5. [y EXCEPT !.changed = TRUE].changed = TRUE
    BY <2>3 DEF Session
  <2> QED
    BY <2>4, <2>5
<1> QED
  BY <1>1, <1>2

LEMMA MovedFlag ==
  ASSUME NEW m \in Session, NEW k, NEW index
  PROVE  Moved(m, k, index).changed = TRUE
BY DEF Moved, Session

LEMMA ResizedFlag ==
  ASSUME NEW m, Ordered(m), NEW size \in 0..(Word - 1)
  PROVE  Resized(m, size) = m \/ Resized(m, size).changed = TRUE
<1> DEFINE f == Freed(m, MapEntry(m))
           a == Added(f, 1, size, "map")
<1>1. CASE MapEntries(m) = {}
  BY <1>1 DEF Resized
<1>2. CASE MapEntries(m) # {}
  <2>1. MapEntry(m) \in 1..Len(m.parts)
    BY <1>2, MapEntryFacts
  <2>2. Ordered(f) /\ f.changed = TRUE
    BY <2>1, FreedSound, FreedFlag
  <2>3. Resized(m, size) \in {m, [a EXCEPT !.max = size]}
    BY DEF Resized
  <2> HIDE DEF f
  <2>4. 1 \in 0..(Word - 1) /\ "map" \in Types
    BY SizesAssumption DEF Types
  <2>5. a.changed = TRUE /\ Ordered(a)
    BY <2>2, <2>4, AddedFlag, AddedOrdered
  <2> HIDE DEF a
  <2>6. [a EXCEPT !.max = size].changed = TRUE
    <3>1. a \in Session
      BY <2>5, SessionFacts
    <3> QED
      BY <3>1, <2>5 DEF Session
  <2> QED
    BY <2>3, <2>6
<1> QED
  BY <1>1, <1>2

LEMMA SavedInit == Init => SavedInv
BY DEF Init, SavedInv, Idle, Clean, Running

(* A command that changes only the map.                                     *)
LEMMA SavedCommand ==
  ASSUME SavedInv, Idle, Running, map' = map \/ map'.changed = TRUE, UNCHANGED <<disk, todo, last>>
  PROVE  SavedInv'
<1>1. Idle'
  BY DEF Idle
<1>2. CASE map' = map
  <2>1. Clean' <=> Clean
    BY <1>1, <1>2 DEF Clean, Running
  <2> QED
    BY <1>1, <1>2, <2>1 DEF SavedInv, OnDrive, Limit, OnDisk
<1>3. CASE map'.changed = TRUE
  <2>1. ~Clean'
    BY <1>3 DEF Clean
  <2> QED
    BY <1>1, <2>1 DEF SavedInv
<1> QED
  BY <1>2, <1>3

LEMMA SavedOpen == IInv /\ Open => SavedInv'
<1> SUFFICES ASSUME IInv, Open PROVE SavedInv'
  OBVIOUS
<1>1. disk' = disk /\ todo' = todo /\ map = Closed /\ map' = ReadMap
  BY DEF Open
<1>2. Idle /\ Idle'
  BY <1>1 DEF IInv, Idle, Running
<1>3. Running' => OnDrive(map.parts)'
  <2> SUFFICES ASSUME Running' PROVE OnDrive(map.parts)'
    OBVIOUS
  <2>1. ReadMap # NoMap /\ disk \in [Blocks -> DPME \cup {Blank}]
    BY <1>1 DEF Running, IInv
  <2>2. OnDrive(ReadMap.parts)
    BY <2>1, ReadIsOnDrive
  <2> QED
    BY <2>2, <1>1 DEF OnDrive, Limit, OnDisk
<1> QED
  BY <1>2, <1>3 DEF SavedInv, Clean

LEMMA SavedBegins == IInv /\ BeginWrite => SavedInv'
<1> SUFFICES ASSUME IInv, BeginWrite PROVE SavedInv'
  OBVIOUS
<1>1. Running /\ map' = map /\ todo' = BlockWrites(map)
  BY DEF BeginWrite
<1>2. Ordered(map) /\ Len(map.parts) > 0
  BY <1>1 DEF IInv
<1>3. /\ Len(map.parts) \in Nat /\ BlockWrites(map) \in Seq(BlockWrite)
      /\ Len(BlockWrites(map)) = IF map.max > Len(map.parts) THEN Len(map.parts) + 1 ELSE Len(map.parts)
  BY <1>2, BlockWritesSay
<1>4. BlockWrites(map)' = BlockWrites(map)
  BY <1>1 DEF BlockWrites, Zap
<1>5. Done' = 0
  BY <1>1, <1>3, <1>4 DEF Done
<1>6. Underway'
  <2>1. \A i \in 1..Len(todo') : todo'[i] = BlockWrites(map)'[Done' + i]
    BY <1>1, <1>3, <1>4, <1>5
  <2>2. \A i \in 1..Len(map'.parts) : ~(i <= Done')
    BY <1>5
  <2> QED
    BY <2>1, <2>2, <1>5 DEF Underway
<1>7. ~Idle'
  <2>1. Len(todo') > 0
    BY <1>1, <1>2, <1>3
  <2> QED
    BY <2>1 DEF Idle
<1> QED
  BY <1>6, <1>7 DEF SavedInv, Clean

(* When all blocks of a map are written it is on the drive.                 *)
LEMMA AllWritten ==
  ASSUME NEW p \in Seq(Entry), Len(p) > 0, \A i \in 1..Len(p) : i \in Blocks /\ disk[i] = BlockOf(p, i)
  PROVE  OnDrive(p)
<1>1. Len(p) \in Nat /\ 1 \in 1..Len(p)
  OBVIOUS
<1>2. ASSUME NEW i \in 1..Len(p)
      PROVE  disk[i] # Blank /\ disk[i].count = Len(p) /\ OnDisk(i) = p[i]
  <2>1. p[i] \in Entry
    OBVIOUS
  <2>2. /\ BlockOf(p, i).count = Len(p) /\ BlockOf(p, i).start = p[i].start
        /\ BlockOf(p, i).len = p[i].len /\ BlockOf(p, i).type = p[i].type
    BY DEF BlockOf
  <2>3. BlockOf(p, i) \in DPME
    BY <2>1, <1>1 DEF BlockOf, DPME, Entry
  <2>4. OnDisk(i) = p[i]
    <3>1. OnDisk(i) = Part(p[i].start, p[i].len, p[i].type)
      BY <2>2 DEF OnDisk
    <3> QED
      BY <3>1, <2>1, PartsOf
  <2> QED
    BY <2>2, <2>3, <2>4, NoneAssumption
<1>3. Limit = Len(p)
  <2>1. disk[1] # Blank /\ disk[1].count = Len(p)
    BY <1>1, <1>2
  <2>2. Limit = IF Len(p) > 1 THEN Len(p) ELSE 1
    BY <2>1 DEF Limit
  <2>3. PICK n \in Nat : n = Len(p) /\ n > 0
    BY <1>1
  <2> QED
    BY <2>2, <2>3
<1>4. disk[1].count = Len(p)
  BY <1>1, <1>2
<1> QED
  BY <1>2, <1>3, <1>4 DEF OnDrive

LEMMA AllWrittenNext ==
  ASSUME NEW p \in Seq(Entry), Len(p) > 0
  PROVE  ((\A i \in 1..Len(p) : i \in Blocks /\ disk[i] = BlockOf(p, i)) => OnDrive(p))'
<1>1. (\A i \in 1..Len(p) : i \in Blocks /\ disk[i] = BlockOf(p, i)) => OnDrive(p)
  BY AllWritten
<1> QED
  BY <1>1, PTL

(* What is left of a write, and what was done of it, after one more block.  *)
LEMMA OneBlockMore ==
  ASSUME IInv, ~Idle, Underway, todo' = Tail(todo)
  PROVE  LET n == Len(map.parts)
             d == Done
             q == BlockWrites(map)
         IN  /\ Ordered(map) /\ map.parts \in Seq(Entry) /\ n \in Nat /\ n > 0
             /\ d \in Nat /\ Len(q) \in Nat /\ Len(q) - Len(todo') = d + 1
             /\ \A i \in 1..Len(todo') : todo'[i] = q[d + 1 + i]
             /\ Head(todo).at = d + 1
             /\ d + 1 <= n => Head(todo).v = BlockOf(map.parts, d + 1)
             /\ todo' = <<>> => n <= d + 1
<1> DEFINE n == Len(map.parts)
           d == Done
           q == BlockWrites(map)
<1>1. Ordered(map) /\ n > 0 /\ map.parts \in Seq(Entry)
  BY SessionFacts DEF IInv
<1>2. /\ n \in Nat /\ q \in Seq(BlockWrite) /\ Len(q) = IF map.max > n THEN n + 1 ELSE n
      /\ \A i \in 1..n : q[i].at = i /\ q[i].v = BlockOf(map.parts, i)
      /\ \A i \in 1..Len(q) : i > n => i = n + 1 /\ q[i].at = i /\ q[i].v = Blank
  BY <1>1, BlockWritesSay
<1>3. todo \in Seq(BlockWrite) /\ todo # <<>>
  BY DEF IInv, Idle
<1>4. /\ Len(todo) \in Nat /\ Len(todo) > 0 /\ Head(todo) = todo[1] /\ Len(todo') = Len(todo) - 1
      /\ \A i \in 1..Len(todo') : todo'[i] = todo[i + 1] /\ i + 1 \in 1..Len(todo)
  BY <1>3
<1>5. d = Len(q) - Len(todo) /\ d >= 0 /\ \A i \in 1..Len(todo) : todo[i] = q[d + i]
  BY DEF Underway, Done
<1> HIDE DEF n, d, q
<1>6. Len(q) \in Nat /\ d \in Nat /\ Len(q) - Len(todo') = d + 1 /\ d + 1 <= Len(q)
  <2>1. Len(q) \in Nat /\ n <= Len(q)
    BY <1>2
  <2>2. \A a, b, c, e \in Int : a >= 0 /\ b > 0 /\ c = b - 1 /\ e = a - b /\ e >= 0
                                => e \in Nat /\ a - c = e + 1 /\ e + 1 <= a
    OBVIOUS
  <2>3. Len(todo') \in Int /\ Len(todo) \in Int /\ Len(q) \in Int /\ Len(q) >= 0
    BY <2>1, <1>4
  <2>4. d \in Int /\ d = Len(q) - Len(todo) /\ d >= 0 /\ Len(todo) > 0 /\ Len(todo') = Len(todo) - 1
    BY <2>3, <1>4, <1>5
  <2>5. d \in Nat /\ Len(q) - Len(todo') = d + 1 /\ d + 1 <= Len(q)
    BY ONLY <2>2, <2>3, <2>4
  <2> QED
    BY <2>1, <2>5
<1>7. \A i \in 1..Len(todo') : todo'[i] = q[d + 1 + i]
  <2> TAKE i \in 1..Len(todo')
  <2>1. todo'[i] = q[d + (i + 1)]
    BY <1>4, <1>5
  <2>2. d + (i + 1) = d + 1 + i
    BY <1>6
  <2> QED
    BY <2>1, <2>2
<1>8. Head(todo) = q[d + 1]
  BY <1>4, <1>5
<1>9. d + 1 \in 1..Len(q) /\ (d + 1 <= n => d + 1 \in 1..n) /\ (~(d + 1 <= n) => d + 1 > n)
  BY <1>2, <1>6
<1>10. Head(todo).at = d + 1 /\ (d + 1 <= n => Head(todo).v = BlockOf(map.parts, d + 1))
  BY <1>2, <1>8, <1>9
<1>11. todo' = <<>> => n <= d + 1
  <2>1. todo' = <<>> => Len(todo') = 0
    OBVIOUS
  <2>2. n <= Len(q) /\ n \in Nat
    BY <1>2
  <2>3. \A a \in Nat : a - 0 = a
    OBVIOUS
  <2>4. todo' = <<>> => Len(q) = d + 1
    BY <2>1, <2>3, <1>6
  <2> QED
    BY <2>2, <2>4
<1> QED
  BY <1>1, <1>2, <1>6, <1>7, <1>10, <1>11 DEF n, d, q

LEMMA SavedWrite == IInv /\ SavedInv /\ WriteBlock => SavedInv'
<1> SUFFICES ASSUME IInv, SavedInv, WriteBlock PROVE SavedInv'
  OBVIOUS
<1> DEFINE q == BlockWrites(map)
<1>1. /\ ~Idle /\ Head(todo).at \in Blocks /\ disk' = [disk EXCEPT ![Head(todo).at] = Head(todo).v]
      /\ todo' = Tail(todo) /\ map' = Saved(Tail(todo))
      /\ last' = IF Tail(todo) = <<>> /\ last.failed = 0 THEN Nothing ELSE last
  BY DEF WriteBlock
<1>2. Underway /\ disk \in [Blocks -> DPME \cup {Blank}]
  BY <1>1 DEF SavedInv, IInv
<1>3. PICK p : p = map.parts
  OBVIOUS
<1>4. PICK d : d = Done
  OBVIOUS
<1>5. /\ Ordered(map) /\ p \in Seq(Entry) /\ Len(p) \in Nat /\ Len(p) > 0
      /\ d \in Nat /\ Len(q) - Len(todo') = d + 1
      /\ \A i \in 1..Len(todo') : todo'[i] = q[d + 1 + i]
      /\ Head(todo).at = d + 1
      /\ d + 1 <= Len(p) => Head(todo).v = BlockOf(p, d + 1)
      /\ todo' = <<>> => Len(p) <= d + 1
  BY <1>1, <1>2, <1>3, <1>4, OneBlockMore
<1>6. ASSUME last.failed = 0, NEW i \in 1..Len(p), i <= d + 1
      PROVE  i \in Blocks /\ disk'[i] = BlockOf(p, i)
  <2>1. CASE i = d + 1
    BY <2>1, <1>1, <1>2, <1>5, <1>6
  <2>2. CASE i # d + 1
    <3>1. i <= d
      BY <2>2, <1>5, <1>6
    <3>2. i \in Blocks /\ disk[i] = BlockOf(p, i)
      BY <3>1, <1>2, <1>3, <1>4, <1>6 DEF Underway
    <3> QED
      BY <3>2, <2>2, <1>1, <1>2, <1>5
  <2> QED
    BY <2>1, <2>2
<1>7. CASE todo' # <<>>
  <2>1. map' = map /\ last' = last /\ ~Idle'
    BY <1>1, <1>7 DEF Saved, Idle
  <2>2. BlockWrites(map)' = q
    BY <2>1 DEF BlockWrites, Zap
  <2> HIDE DEF q
  <2>3. Done' = d + 1
    BY <2>2, <1>5 DEF Done
  <2>4. Underway'
    <3>1. Done' >= 0
      BY <2>3, <1>5
    <3>2. \A i \in 1..Len(todo') : todo'[i] = BlockWrites(map)'[Done' + i]
      BY <2>2, <2>3, <1>5
    <3>3. last'.failed = 0 =>
            \A i \in 1..Len(map'.parts) : i <= Done' => i \in Blocks /\ disk'[i] = BlockOf(map'.parts, i)
      BY <2>1, <2>3, <1>3, <1>6
    <3> QED
      BY <3>1, <3>2, <3>3 DEF Underway
  <2> QED
    BY <2>1, <2>4 DEF SavedInv, Clean
<1>8. CASE todo' = <<>>
  <2>1. Idle' /\ map' = [map EXCEPT !.changed = FALSE, !.written = TRUE]
    BY <1>1, <1>8 DEF Saved, Idle
  <2>2. map'.parts = p
    <3>1. map \in Session
      BY <1>5, SessionFacts
    <3> QED
      BY <3>1, <2>1, <1>3 DEF Session
  <2>3. CASE last.failed = 0
    <3>1. \A i \in 1..Len(p) : i \in Blocks /\ disk'[i] = BlockOf(p, i)
      <4>1. \A i \in 1..Len(p) : i <= d + 1
        BY <1>5, <1>8
      <4> QED
        BY <4>1, <2>3, <1>6
    <3>2. OnDrive(p)'
      BY <3>1, <1>5, AllWrittenNext
    <3>3. OnDrive(map.parts)'
      BY <3>2, <2>2 DEF OnDrive
    <3> QED
      BY <3>3, <2>1 DEF SavedInv
  <2>4. CASE last.failed # 0
    <3>1. last' = last
      BY <2>4, <1>1
    <3>2. ~Clean'
      BY <3>1, <2>4 DEF Clean
    <3> QED
      BY <3>2, <2>1 DEF SavedInv
  <2> QED
    BY <2>3, <2>4
<1> QED
  BY <1>7, <1>8

LEMMA SavedFails == IInv /\ TornInv /\ SavedInv /\ WriteFails => SavedInv'
<1> SUFFICES ASSUME IInv, TornInv, SavedInv, WriteFails PROVE SavedInv'
  OBVIOUS
<1> DEFINE q == BlockWrites(map)
<1>1. ~Idle /\ todo' = Tail(todo) /\ map' = Saved(Tail(todo)) /\ last' = [last EXCEPT !.failed = @ + 1]
  BY DEF WriteFails
<1>2. last'.failed # 0
  <2>1. last \in History
    BY DEF TornInv
  <2> QED
    BY <2>1, <1>1 DEF History
<1>3. ~Clean'
  BY <1>2 DEF Clean
<1>4. ASSUME ~Idle' PROVE Underway'
  <2>1. todo' # <<>> /\ map' = map
    BY <1>1, <1>4 DEF Saved, Idle
  <2>2. BlockWrites(map)' = q
    BY <2>1 DEF BlockWrites, Zap
  <2>3. PICK d : d = Done
    OBVIOUS
  <2>4. /\ d \in Nat /\ Len(q) - Len(todo') = d + 1
        /\ \A i \in 1..Len(todo') : todo'[i] = q[d + 1 + i]
    <3>1. Underway
      BY <1>1 DEF SavedInv
    <3> QED
      BY <3>1, <2>3, <1>1, OneBlockMore
  <2> HIDE DEF q
  <2>5. Done' = d + 1
    BY <2>2, <2>4 DEF Done
  <2>6. Done' >= 0 /\ \A i \in 1..Len(todo') : todo'[i] = BlockWrites(map)'[Done' + i]
    BY <2>2, <2>4, <2>5
  <2> QED
    BY <2>6, <1>2 DEF Underway
<1> QED
  BY <1>3, <1>4 DEF SavedInv

LEMMA SavedCreate ==
  ASSUME IInv, SavedInv, NEW base \in BaseArguments, NEW length \in LengthArguments, Create(base, length)
  PROVE  SavedInv'
<1>1. /\ Running /\ Idle /\ map' = Added(map, base, length, "data")
      /\ disk' = disk /\ todo' = todo /\ last' = last
  BY DEF Create
<1>2. Ordered(map)
  BY <1>1 DEF IInv
<1>3. base \in 0..(Word - 1) /\ length \in 0..(Word - 1) /\ "data" \in Types
  BY <1>1, ArgumentsFacts DEF Types
<1>4. map' = map \/ map'.changed = TRUE
  BY <1>1, <1>2, <1>3, AddedFlag
<1> QED
  BY <1>1, <1>4, SavedCommand

LEMMA SavedDelete ==
  ASSUME IInv, SavedInv, NEW k \in Blocks, DeletePart(k)
  PROVE  SavedInv'
<1>1. /\ Running /\ Idle /\ k <= Len(map.parts) /\ map' = Deleted(map, k)
      /\ disk' = disk /\ todo' = todo /\ last' = last
  BY DEF DeletePart
<1>2. Ordered(map) /\ k \in 1..Len(map.parts)
  BY <1>1, SessionFacts DEF IInv, Blocks
<1>3. map' = map \/ map' = Freed(map, k)
  BY <1>1 DEF Deleted
<1>4. map' = map \/ map'.changed = TRUE
  BY <1>2, <1>3, FreedFlag
<1> QED
  BY <1>1, <1>4, SavedCommand

LEMMA SavedInitMap ==
  ASSUME IInv, SavedInv, InitMap
  PROVE  SavedInv'
<1>1. /\ Idle /\ map' = Added(AllFree, 1, MapSize, "map")
      /\ disk' = disk /\ todo' = todo /\ last' = last
  BY DEF InitMap, AllFree, Empty
<1>2. map'.changed = TRUE
  <2>1. Ordered(AllFree) /\ AllFree.changed = TRUE
    BY AllFreeFacts
  <2>2. 1 \in 0..(Word - 1) /\ MapSize \in 0..(Word - 1) /\ "map" \in Types
    BY SizesAssumption DEF Types
  <2> QED
    BY <2>1, <2>2, <1>1, AddedFlag
<1>3. Idle' /\ ~Clean'
  BY <1>1, <1>2 DEF Idle, Clean
<1> QED
  BY <1>3 DEF SavedInv

LEMMA SavedNext == IInv /\ TornInv /\ SavedInv /\ [Next]_vars => SavedInv'
<1> SUFFICES ASSUME IInv, TornInv, SavedInv, [Next]_vars PROVE SavedInv'
  OBVIOUS
<1>0. Running => Ordered(map) /\ map \in Session
  BY SessionFacts DEF IInv
<1>1. CASE Open
  BY <1>1, SavedOpen
<1>2. CASE InitMap
  BY <1>2, SavedInitMap
<1>3. CASE \E base \in BaseArguments, length \in LengthArguments : Create(base, length)
  BY <1>3, SavedCreate
<1>4. CASE \E k \in Blocks : Rename(k)
  <2>1. Running /\ Idle /\ map' = [map EXCEPT !.changed = TRUE] /\ disk' = disk /\ todo' = todo /\ last' = last
    BY <1>4 DEF Rename
  <2>2. map'.changed = TRUE
    BY <2>1, <1>0 DEF Session
  <2> QED
    BY <2>1, <2>2, SavedCommand
<1>5. CASE \E k \in Blocks : DeletePart(k)
  BY <1>5, SavedDelete
<1>6. CASE \E k \in Blocks, index \in user.indices : Reorder(k, index)
  <2>1. PICK k \in Blocks, index \in user.indices : Reorder(k, index)
    BY <1>6
  <2>2. Running /\ Idle /\ map' = Moved(map, k, index) /\ disk' = disk /\ todo' = todo /\ last' = last
    BY <2>1 DEF Reorder
  <2>3. map'.changed = TRUE
    BY <2>2, <1>0, MovedFlag
  <2> QED
    BY <2>2, <2>3, SavedCommand
<1>7. CASE \E size \in user.sizes : ChangeMapSize(size)
  <2>1. PICK size \in user.sizes : ChangeMapSize(size)
    BY <1>7
  <2>2. Running /\ Idle /\ map' = Resized(map, size) /\ disk' = disk /\ todo' = todo /\ last' = last
    BY <2>1 DEF ChangeMapSize
  <2>3. size \in 0..(Word - 1)
    BY <2>1, UserFacts DEF IInv
  <2>4. map' = map \/ map'.changed = TRUE
    BY <2>2, <2>3, <1>0, ResizedFlag
  <2> QED
    BY <2>2, <2>4, SavedCommand
<1>8. CASE BeginWrite
  BY <1>8, SavedBegins
<1>9. CASE WriteBlock
  BY <1>9, SavedWrite
<1>10. CASE WriteFails
  BY <1>10, SavedFails
<1>11. CASE Quit
  <2>1. Idle' /\ ~Clean'
    BY <1>11 DEF Quit, Idle, Clean, Running
  <2> QED
    BY <2>1 DEF SavedInv
<1>12. CASE UNCHANGED vars
  BY <1>12 DEF vars, SavedInv, Idle, Clean, Running, OnDrive, Limit, OnDisk, Underway, Done, BlockWrites, Zap
<1> QED
  BY <1>1, <1>2, <1>3, <1>4, <1>5, <1>6, <1>7, <1>8, <1>9, <1>10, <1>11, <1>12 DEF Next

(* For every drive, every sequence of commands and every choice of blocks   *)
(* that fail, and wherever the machine stops: a session that may be left    *)
(* without a question is what the next one reads, in both orders, and a map *)
(* that is written in part is read as the old one, the new one, or not at   *)
(* all (write_partition_map, read_partition_map).                           *)
THEOREM ReadsBackTheorem == Spec => []ReadsBackWhole
<1>1. Init => IInv /\ TornInv /\ SavedInv
  BY InitInv, TornInit, SavedInit
<1>2. IInv /\ TornInv /\ SavedInv /\ [Next]_vars => IInv' /\ TornInv' /\ SavedInv'
  BY NextSound, SoundInv, TornNext, SavedNext
<1>3. IInv /\ TornInv /\ SavedInv => ReadsBackWhole
  BY TornRight, SavedRight DEF ReadsBackWhole
<1> QED
  BY <1>1, <1>2, <1>3, PTL DEF Spec
=============================================================================
