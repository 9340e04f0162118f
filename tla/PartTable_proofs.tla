--------------------------- MODULE PartTable_proofs ---------------------------
(***************************************************************************)
(* For every device, map size, set of handles and initial map: the types,  *)
(* the reference counts and the stability of partitions in use.  And what  *)
(* a table write leaves on the drive, for every set of map sectors whose   *)
(* write may fail, the boot block excepted: wherever the tool dies, the    *)
(* next one finds the partitions that were in use.                         *)
(***************************************************************************)
EXTENDS PartTable, FiniteSetTheorems, SequenceTheorems, WellFoundedInduction, TLAPS

(* A non-empty set of naturals has a least element. *)
LEMMA LeastNat ==
  ASSUME NEW T, T \subseteq Nat, T # {}
  PROVE  \E x \in T : \A y \in T : x <= y
<1>1. IsWellFoundedOn(OpToRel(<, Nat), Nat)
  BY NatLessThanWellFounded
<1>2. PICK x \in T : \A y \in T : ~(<<y, x>> \in OpToRel(<, Nat))
  BY <1>1, WFMin, Zenon
<1>3. \A y \in T : ~(y < x)
  BY <1>2 DEF OpToRel
<1>4. \A y \in T : x <= y
  <2> TAKE y \in T
  <2>1. x \in Nat /\ y \in Nat /\ ~(y < x)
    BY <1>3
  <2> QED
    BY <2>1
<1> QED
  BY <1>4

(* Nth(K, n) is the element of K that has n up to it, for every n up to the *)
(* size of K.                                                               *)
LEMMA NthInK ==
  ASSUME NEW m \in Nat, NEW K, \A k \in K : k \in 1..m, NEW n \in 1..Cardinality(K)
  PROVE  Nth(K, n) \in K /\ Cardinality({k \in K : k <= Nth(K, n)}) = n
<1> DEFINE Upto(j) == {k \in K : k <= j}
           T == {j \in Nat : Cardinality(Upto(j)) >= n}
<1>0. IsFiniteSet(K) /\ Cardinality(K) \in Nat
  <2>1. IsFiniteSet(1..m)
    BY FS_Interval
  <2>2. IsFiniteSet(K)
    BY <2>1, FS_Subset
  <2> QED
    BY <2>2, FS_CardinalityType
<1>1. \A j : IsFiniteSet(Upto(j)) /\ Cardinality(Upto(j)) \in Nat
  <2> TAKE j
  <2>1. Upto(j) \subseteq K
    OBVIOUS
  <2> QED
    BY <1>0, <2>1, FS_Subset, FS_CardinalityType
<1>2. m \in T
  <2>1. Upto(m) = K
    OBVIOUS
  <2>2. Cardinality(Upto(m)) >= n
    BY <2>1, <1>0
  <2> QED
    BY <2>2
<1>3. PICK j \in T : \A y \in T : j <= y
  BY <1>2, LeastNat, Zenon
<1>4. j \in Nat /\ Cardinality(Upto(j)) >= n
  BY <1>3
<1>5. Upto(0) = {}
  OBVIOUS
<1>6. j # 0
  <2>1. Cardinality(Upto(0)) = 0
    BY <1>5, FS_EmptySet
  <2> QED
    BY <2>1, <1>4
<1>7. Cardinality(Upto(j - 1)) < n
  <2>1. j - 1 \in Nat /\ ~(j <= j - 1)
    BY <1>4, <1>6
  <2>2. j - 1 \notin T
    BY <2>1, <1>3
  <2>3. Cardinality(Upto(j - 1)) \in Nat
    BY <1>1
  <2> QED
    BY <2>1, <2>2, <2>3, <1>0
<1>8. CASE j \in K
  <2>0. \A k \in K : k \in Int
    OBVIOUS
  <2>1. \A k \in K : (k <= j) <=> (k <= j - 1 \/ k = j)
    BY <2>0, <1>4
  <2>2. Upto(j) = Upto(j - 1) \cup {j}
    BY <2>1, <1>8
  <2>3. j \notin Upto(j - 1)
    BY <1>4
  <2>4. Cardinality(Upto(j)) = Cardinality(Upto(j - 1)) + 1
    <3> HIDE DEF Upto
    <3> QED
      BY <2>2, <2>3, <1>1, FS_AddElement
  <2>5. Cardinality(Upto(j)) = n
    <3>1. Cardinality(Upto(j - 1)) \in Nat /\ Cardinality(Upto(j)) \in Nat
      BY <1>1
    <3> QED
      BY <3>1, <2>4, <1>4, <1>7, <1>0
  <2> QED
    BY <1>8, <2>5 DEF Nth
<1>9. CASE j \notin K
  <2>1. Upto(j) = Upto(j - 1)
    BY <1>9, <1>4
  <2> QED
    BY <2>1, <1>1, <1>4, <1>7
<1> QED
  BY <1>8, <1>9

(* A non-empty set of naturals with a bound has a greatest element. *)
LEMMA GreatestNat ==
  ASSUME NEW m \in Nat, NEW T, \A x \in T : x \in Nat /\ x <= m, T # {}
  PROVE  \E x \in T : \A y \in T : y <= x
<1> DEFINE D == {d \in 0..m : m - d \in T}
<1>1. D \subseteq Nat
  OBVIOUS
<1>2. D # {}
  <2>1. PICK x \in T : TRUE
    OBVIOUS
  <2>2. x \in Nat /\ x <= m
    OBVIOUS
  <2>3. m - x \in 0..m /\ m - (m - x) = x
    BY <2>2
  <2> QED
    BY <2>3
<1>3. PICK d \in D : \A y \in D : d <= y
  BY <1>1, <1>2, LeastNat, Zenon
<1>4. m - d \in T
  BY <1>3
<1>5. \A y \in T : y <= m - d
  <2> TAKE y \in T
  <2>1. y \in Nat /\ y <= m
    OBVIOUS
  <2>2. m - y \in 0..m /\ m - (m - y) = y
    BY <2>1
  <2>3. m - y \in D
    BY <2>2
  <2>4. d <= m - y /\ d \in Nat
    BY <2>3, <1>3
  <2> QED
    BY <2>4, <2>1
<1> QED
  BY <1>4, <1>5

(* Where tivo_read_partition_table stops: at the count of the first entry, at *)
(* the end of the map, or before the first sector without a signature.       *)
LEMMA ReadCountFacts ==
  ASSUME disk \in Disk, disk[1] # Blank
  PROVE  /\ ReadCount \in 1..MapSectors
         /\ ReadCount = 1 \/ ReadCount <= disk[1].count
         /\ \A k \in 1..ReadCount : disk[k] # Blank
         /\ \/ ReadCount >= disk[1].count
            \/ ReadCount = MapSectors
            \/ disk[ReadCount + 1] = Blank
<1> DEFINE S == {x \in 1..MapSectors :
                   x >= disk[1].count \/ x = MapSectors \/ disk[x + 1] = Blank}
<1>0. MapSectors \in Nat /\ MapSectors >= 1
  BY SizesAssumption
<1>2. disk[1] \in DiskEntry /\ disk[1].count \in Nat
  BY <1>0 DEF Disk, DiskEntry
<1>3. MapSectors \in S /\ S \subseteq Nat
  BY <1>0
<1>4. PICK x \in S : \A y \in S : x <= y
  BY <1>3, LeastNat, Zenon
<1>5. x \in 1..MapSectors
  BY <1>4
<1>6. \A k \in 1..x : disk[k] # Blank
  <2> SUFFICES ASSUME NEW k \in 1..x, disk[k] = Blank PROVE FALSE
    OBVIOUS
  <2>1. k # 1
    OBVIOUS
  <2>2. k - 1 \in 1..MapSectors /\ (k - 1) + 1 = k /\ ~(x <= k - 1)
    BY <2>1, <1>5, <1>0
  <2>3. k - 1 \in S
    BY <2>2
  <2> QED
    BY <2>2, <2>3, <1>4
<1>7. x = 1 \/ x <= disk[1].count
  <2> SUFFICES ASSUME x # 1, ~(x <= disk[1].count) PROVE FALSE
    OBVIOUS
  <2>1. x - 1 \in 1..MapSectors /\ x - 1 >= disk[1].count /\ ~(x <= x - 1)
    BY <1>2, <1>5, <1>0
  <2>2. x - 1 \in S
    BY <2>1
  <2> QED
    BY <2>1, <2>2, <1>4
<1>8. x >= disk[1].count \/ x = MapSectors \/ disk[x + 1] = Blank
  BY <1>4
<1> QED
  BY <1>5, <1>6, <1>7, <1>8 DEF ReadCount

(* What a table read from the drive looks like: one reference to every entry. *)
LEMMA ReadTableFacts ==
  ASSUME disk \in Disk, ReadTable # NoTable
  PROVE  /\ ReadTable \in Table
         /\ ReadTable.refs = 0
         /\ Len(ReadTable.parts) >= 1
         /\ \A i \in 1..Len(ReadTable.parts) : ReadTable.parts[i].refs = 1
<1> DEFINE n == ReadCount
           p == [k \in 1..n |-> [start |-> disk[k].start, sectors |-> disk[k].sectors,
                                  type |-> disk[k].type, refs |-> 1]]
<1>0. MapSectors \in Nat /\ MapSectors >= 1
  BY SizesAssumption
<1>1. /\ ReadTable = [parts |-> p, refs |-> 0, flags |-> {}]
      /\ disk[1] # Blank
  BY DEF ReadTable
<1>9. n \in 1..MapSectors /\ \A k \in 1..n : disk[k] # Blank
  BY <1>1, ReadCountFacts
<1> HIDE DEF n
<1>10. \A k \in 1..n : disk[k] \in DiskEntry
  BY <1>9, <1>0 DEF Disk
<1>11. \A k \in 1..n : p[k] \in Entry /\ p[k].refs = 1
  BY <1>10 DEF DiskEntry, Entry
<1>12. p \in Seq(Entry) /\ Len(p) = n
  BY <1>9, <1>11
<1> QED
  BY <1>1, <1>9, <1>11, <1>12 DEF Table

(* FirstMovable(q) is the slot after the last one in use. *)
LEMMA FirstMovableFacts ==
  ASSUME NEW q \in Seq(Entry), Len(q) >= 1
  PROVE  /\ FirstMovable(q) \in 2..(Len(q) + 1)
         /\ \A i \in FirstMovable(q)..Len(q) : q[i].refs <= 1
         /\ FirstMovable(q) = 2 \/ q[FirstMovable(q) - 1].refs > 1
<1> DEFINE T == {1} \cup {i \in 2..Len(q) : q[i].refs > 1}
           IsLast(m) == \A i \in 2..Len(q) : q[i].refs > 1 => i <= m
<1>1. Len(q) \in Nat /\ \A i \in 1..Len(q) : q[i].refs \in Nat
  <2>1. \A i \in 1..Len(q) : q[i] \in Entry
    OBVIOUS
  <2> QED
    BY <2>1 DEF Entry
<1>2. \A x \in T : x \in Nat /\ x <= Len(q)
  BY <1>1
<1>3. PICK m \in T : \A y \in T : y <= m
  <2>1. T # {}
    OBVIOUS
  <2> QED
    BY <1>1, <1>2, <2>1, GreatestNat, ZenonT(40)
<1>4. m \in T /\ IsLast(m)
  BY <1>3
<1> DEFINE c == CHOOSE x \in T : IsLast(x)
<1>5. c \in T /\ IsLast(c)
  BY <1>4, Zenon
<1>6. FirstMovable(q) = 1 + c
  BY DEF FirstMovable
<1> HIDE DEF c
<1>7. c \in Nat /\ c >= 1 /\ c <= Len(q) /\ (c = 1 \/ q[c].refs > 1)
  BY <1>1, <1>5
<1>8. \A i \in (1 + c)..Len(q) : q[i].refs <= 1
  <2> TAKE i \in (1 + c)..Len(q)
  <2>1. i \in 2..Len(q) /\ ~(i <= c) /\ q[i].refs \in Nat
    BY <1>1, <1>7
  <2> QED
    BY <2>1, <1>5
<1> QED
  BY <1>1, <1>6, <1>7, <1>8

(* A validated table is the table itself, or the table with one free *)
(* partition added after its last one, if the map has a sector left. *)
LEMMA ValidationFacts ==
  ASSUME NEW t \in Table, NEW v \in Validations(t)
  PROVE  /\ v.table \in Table
         /\ v.table.refs = t.refs
         /\ Len(v.table.parts) >= Len(t.parts)
         /\ \A i \in 1..Len(t.parts) : v.table.parts[i] = t.parts[i]
         /\ \A i \in (Len(t.parts) + 1)..Len(v.table.parts) :
              v.table.parts[i].refs = 1 /\ v.table.parts[i].type = "free"
         /\ Len(v.table.parts) > Len(t.parts) => Len(v.table.parts) <= MapSectors
         /\ v.table.flags \ {"VALID"} = t.flags \ {"VALID"}
<1> DEFINE w == Walk(t.parts)
           short == w.end \in 1..(DevSize - 1)
           full == Len(t.parts) >= MapSectors
           q == IF short THEN Append(t.parts, Filler(w.end)) ELSE t.parts
<1>1. t.parts \in Seq(Entry) /\ Len(t.parts) \in Nat /\ t.flags \in SUBSET Flags /\ t.refs \in Nat
  BY DEF Table
<1>2. /\ q \in Seq(Entry)
      /\ Len(q) >= Len(t.parts)
      /\ \A i \in 1..Len(t.parts) : q[i] = t.parts[i]
      /\ \A i \in (Len(t.parts) + 1)..Len(q) : q[i].refs = 1 /\ q[i].type = "free"
      /\ ~full => (Len(q) > Len(t.parts) => Len(q) <= MapSectors)
  <2>0. MapSectors \in Nat
    BY SizesAssumption
  <2> HIDE DEF w
  <2>1. CASE w.end \in 1..(DevSize - 1)
    <3>1. Filler(w.end) \in Entry /\ Filler(w.end).refs = 1 /\ Filler(w.end).type = "free"
      BY <2>1, SizesAssumption DEF Filler, Entry, Types
    <3> HIDE DEF Filler
    <3> QED
      BY <2>0, <2>1, <3>1, <1>1
  <2>2. CASE w.end \notin 1..(DevSize - 1)
    BY <2>2, <1>1
  <2> QED
    BY <2>1, <2>2
<1>3. \/ v.table = t
      \/ v.table = [t EXCEPT !.parts = q] /\ ~(short /\ full)
      \/ v.table = [t EXCEPT !.parts = q, !.flags = @ \cup {"VALID"}] /\ ~(short /\ full)
  <2> DEFINE ok(x) == [ok |-> TRUE, table |-> x]
             no(x) == [ok |-> FALSE, table |-> x]
             more  == [t EXCEPT !.parts = q]
             good  == [t EXCEPT !.parts = q, !.flags = @ \cup {"VALID"}]
  <2>1. \/ v \in {ok(t), no(t)}
        \/ v \in {ok(good), no(more)} /\ ~(short /\ full)
    BY Zenon DEF Validations
  <2>2. \A x : ok(x).table = x /\ no(x).table = x
    OBVIOUS
  <2> HIDE DEF ok, no
  <2> QED
    BY <2>1, <2>2, Zenon
<1>7. ~(short /\ full) => (Len(q) > Len(t.parts) => Len(q) <= MapSectors)
  BY <1>2
<1> HIDE DEF q, w, short, full
<1>4. CASE v.table = t
  BY <1>4, <1>1
<1>5. CASE v.table = [t EXCEPT !.parts = q] /\ ~(short /\ full)
  BY <1>5, <1>1, <1>2, <1>7 DEF Table
<1>6. CASE v.table = [t EXCEPT !.parts = q, !.flags = @ \cup {"VALID"}] /\ ~(short /\ full)
  <2>1. /\ v.table.parts = q /\ v.table.flags = t.flags \cup {"VALID"} /\ v.table.refs = t.refs
        /\ v.table = [parts |-> q, refs |-> t.refs, flags |-> t.flags \cup {"VALID"}]
    BY <1>6 DEF Table
  <2>2. v.table \in Table
    BY <2>1, <1>1, <1>2 DEF Table, Flags
  <2> QED
    BY <2>1, <2>2, <1>6, <1>2, <1>7
<1> QED
  BY <1>3, <1>4, <1>5, <1>6

(* Truncating an entry leaves an entry with the same references. *)
LEMMA TrimmedFacts ==
  ASSUME NEW q \in Seq(Entry), NEW i \in 1..Len(q), NEW gone,
         NEW first \in Nat, NEW last \in Nat
  PROVE  /\ Trimmed(q, i, gone, first, last) \in Entry
         /\ Trimmed(q, i, gone, first, last).refs = q[i].refs
<1> DEFINE e == q[i]
           t == [start |-> last, sectors |-> e.start + e.sectors - last,
                 type |-> e.type, refs |-> e.refs]
<1>1. /\ e \in Entry
      /\ e.start \in Nat /\ e.sectors \in Nat
  <2>1. e \in Entry
    OBVIOUS
  <2> HIDE DEF e
  <2> QED
    BY <2>1 DEF Entry
<1>2. CASE StartsIn(e, first, last) /\ ~Inside(e, first, last)
  <2>1. e.start < last /\ ~(e.start + e.sectors <= last)
    BY <1>2 DEF StartsIn, Inside
  <2>2. e.start + e.sectors - last \in Nat
    BY <1>1, <2>1
  <2> HIDE DEF e
  <2>3. t \in Entry /\ t.refs = e.refs
    BY <1>1, <2>2 DEF Entry
  <2> QED
    BY <1>1, <2>3 DEF Trimmed, e
<1>3. CASE ~(StartsIn(e, first, last) /\ ~Inside(e, first, last))
  BY <1>1, <1>3 DEF Trimmed
<1> QED
  BY <1>2, <1>3

(* The deletion loop leaves the slots before sp alone and adds none. *)
LEMMA SweptFacts ==
  ASSUME NEW q \in Seq(Entry), NEW sp \in 2..(Len(q) + 1),
         \A i \in sp..Len(q) : q[i].refs = 1,
         NEW first \in Nat, NEW last \in Nat
  PROVE  /\ Swept(q, sp, first, last) \in Seq(Entry)
         /\ Len(Swept(q, sp, first, last)) >= sp - 1
         /\ Len(Swept(q, sp, first, last)) <= Len(q)
         /\ \A i \in 1..(sp - 1) : Swept(q, sp, first, last)[i] = q[i]
         /\ \A i \in sp..Len(Swept(q, sp, first, last)) :
              Swept(q, sp, first, last)[i].refs = 1
<1> DEFINE gone == Removed(q, sp, first, last)
           kept == (sp..Len(q)) \ gone
           n    == Cardinality(kept)
           head == SubSeq(q, 1, sp - 1)
           rest == [k \in 1..n |-> Trimmed(q, Nth(kept, k), gone, first, last)]
<1>1. Len(q) \in Nat /\ sp \in Nat /\ sp - 1 \in 1..Len(q)
  OBVIOUS
<1>2. \A k \in kept : k \in sp..Len(q) /\ k \in 1..Len(q)
  BY <1>1
<1> HIDE DEF gone
<1>3. n \in Nat /\ n <= Len(q) - sp + 1
  <2>1. kept \subseteq sp..Len(q)
    BY <1>2
  <2>2. IsFiniteSet(sp..Len(q)) /\ Cardinality(sp..Len(q)) = Len(q) - sp + 1
    BY <1>1, FS_Interval
  <2> HIDE DEF kept
  <2>3. IsFiniteSet(kept) /\ Cardinality(kept) <= Cardinality(sp..Len(q))
    BY <2>1, <2>2, FS_Subset
  <2>4. Cardinality(kept) \in Nat
    BY <2>3, FS_CardinalityType
  <2> QED
    BY <2>2, <2>3, <2>4
<1>4. \A k \in 1..n : Nth(kept, k) \in kept
  <2> HIDE DEF kept
  <2> QED
    BY <1>1, <1>2, NthInK
<1> HIDE DEF kept
<1>5. \A k \in 1..n : /\ Trimmed(q, Nth(kept, k), gone, first, last) \in Entry
                      /\ Trimmed(q, Nth(kept, k), gone, first, last).refs = 1
  <2> TAKE k \in 1..n
  <2>1. Nth(kept, k) \in 1..Len(q) /\ Nth(kept, k) \in sp..Len(q)
    BY <1>2, <1>4
  <2>2. q[Nth(kept, k)].refs = 1
    BY <2>1
  <2> QED
    BY <2>1, <2>2, TrimmedFacts
<1> HIDE DEF n
<1>6. rest \in Seq(Entry) /\ Len(rest) = n /\ \A k \in 1..n : rest[k].refs = 1
  BY <1>3, <1>5
<1>7. head \in Seq(Entry) /\ Len(head) = sp - 1 /\ \A i \in 1..(sp - 1) : head[i] = q[i]
  BY <1>1
<1>8. Swept(q, sp, first, last) = head \o rest
  BY DEF Swept, gone, kept, n
<1> HIDE DEF head, rest
<1>9. /\ head \o rest \in Seq(Entry)
      /\ Len(head \o rest) = sp - 1 + n
      /\ \A i \in 1..(sp - 1 + n) :
           (head \o rest)[i] = IF i <= sp - 1 THEN head[i] ELSE rest[i - (sp - 1)]
  <2>1. /\ head \o rest \in Seq(Entry)
        /\ Len(head \o rest) = Len(head) + Len(rest)
        /\ \A i \in 1..(Len(head) + Len(rest)) :
             (head \o rest)[i] = IF i <= Len(head) THEN head[i] ELSE rest[i - Len(head)]
    BY <1>6, <1>7, ConcatProperties
  <2> QED
    BY <2>1, <1>6, <1>7
<1>10. \A i \in 1..(sp - 1) : (head \o rest)[i] = q[i]
  <2> TAKE i \in 1..(sp - 1)
  <2>1. i \in 1..(sp - 1 + n) /\ i <= sp - 1
    BY <1>1, <1>3
  <2>2. (head \o rest)[i] = head[i]
    BY <1>9, <2>1
  <2> QED
    BY <1>7, <2>2
<1>11. \A i \in sp..(sp - 1 + n) : (head \o rest)[i].refs = 1
  <2> TAKE i \in sp..(sp - 1 + n)
  <2>1. i \in 1..(sp - 1 + n) /\ ~(i <= sp - 1) /\ i - (sp - 1) \in 1..n
    BY <1>1, <1>3
  <2>2. (head \o rest)[i] = rest[i - (sp - 1)]
    BY <1>9, <2>1
  <2> QED
    BY <1>6, <2>1, <2>2
<1>12. sp - 1 + n >= sp - 1 /\ sp - 1 + n <= Len(q)
  BY <1>1, <1>3
<1> DEFINE s == Swept(q, sp, first, last)
<1>13. s = head \o rest
  BY <1>8
<1> HIDE DEF s
<1>14. s \in Seq(Entry) /\ Len(s) = sp - 1 + n
  BY <1>9, <1>13
<1>15. \A i \in 1..(sp - 1) : s[i] = q[i]
  BY <1>10, <1>13
<1>16. \A i \in sp..Len(s) : s[i].refs = 1
  BY <1>11, <1>13, <1>14
<1> QED
  BY <1>12, <1>14, <1>15, <1>16 DEF s

(* Inserting at a slot keeps what is before it and moves the rest up. *)
IsInserted(r, s, slot, e) ==
  /\ r \in Seq(Entry) /\ Len(r) = Len(s) + 1
  /\ \A i \in 1..Len(r) : r[i] = IF i < slot THEN s[i] ELSE IF i = slot THEN e ELSE s[i - 1]

LEMMA InsertedFacts ==
  ASSUME NEW s \in Seq(Entry), NEW slot \in 1..(Len(s) + 1), NEW e \in Entry
  PROVE  IsInserted(Inserted(s, slot, e), s, slot, e)
<1> DEFINE a == SubSeq(s, 1, slot - 1)
           b == SubSeq(s, slot, Len(s))
<1>1. Len(s) \in Nat /\ slot \in Nat
  OBVIOUS
<1>2. a \in Seq(Entry) /\ Len(a) = slot - 1 /\ \A i \in 1..(slot - 1) : a[i] = s[i]
  BY <1>1
<1>3. /\ b \in Seq(Entry) /\ Len(b) = Len(s) - slot + 1
      /\ \A i \in 1..(Len(s) - slot + 1) : b[i] = s[slot + i - 1]
  BY <1>1
<1>4. <<e>> \in Seq(Entry) /\ Len(<<e>>) = 1 /\ <<e>>[1] = e
  OBVIOUS
<1> HIDE DEF a, b
<1> DEFINE c == a \o <<e>>
<1>5. /\ c \in Seq(Entry) /\ Len(c) = slot
      /\ \A i \in 1..slot : c[i] = IF i <= slot - 1 THEN a[i] ELSE e
  BY <1>1, <1>2, <1>4
<1> HIDE DEF c
<1>6. /\ c \o b \in Seq(Entry) /\ Len(c \o b) = Len(s) + 1
      /\ \A i \in 1..(Len(s) + 1) : (c \o b)[i] = IF i <= slot THEN c[i] ELSE b[i - slot]
  <2>1. /\ c \o b \in Seq(Entry)
        /\ Len(c \o b) = Len(c) + Len(b)
        /\ \A i \in 1..(Len(c) + Len(b)) :
             (c \o b)[i] = IF i <= Len(c) THEN c[i] ELSE b[i - Len(c)]
    BY <1>3, <1>5, ConcatProperties
  <2>2. Len(c) = slot /\ Len(c) + Len(b) = Len(s) + 1
    BY <1>1, <1>3, <1>5
  <2> QED
    BY <2>1, <2>2
<1>7. \A i \in 1..(Len(s) + 1) : (c \o b)[i] =
        IF i < slot THEN s[i] ELSE IF i = slot THEN e ELSE s[i - 1]
  <2> TAKE i \in 1..(Len(s) + 1)
  <2>0. i \in Int /\ slot \in Int
    BY <1>1
  <2>1. CASE i <= slot
    BY <2>1, <1>1, <1>2, <1>5, <1>6
  <2>2. CASE ~(i <= slot)
    <3>1. i - slot \in 1..(Len(s) - slot + 1) /\ slot + (i - slot) - 1 = i - 1
      BY <2>2, <2>0, <1>1
    <3>2. b[i - slot] = s[i - 1]
      BY <3>1, <1>3
    <3>3. (c \o b)[i] = b[i - slot]
      BY <2>2, <1>6
    <3> QED
      BY <3>2, <3>3, <2>2, <2>0
  <2> QED
    BY <2>1, <2>2
<1>8. Inserted(s, slot, e) = c \o b
  BY DEF Inserted, a, b, c
<1> DEFINE r == c \o b
<1>9. IsInserted(r, s, slot, e)
  <2>1. r \in Seq(Entry) /\ Len(r) = Len(s) + 1
    BY <1>6
  <2>2. \A i \in 1..(Len(s) + 1) : r[i] =
          IF i < slot THEN s[i] ELSE IF i = slot THEN e ELSE s[i - 1]
    BY <1>7
  <2> HIDE DEF r
  <2> QED
    BY ONLY <2>1, <2>2 DEF IsInserted
<1> QED
  BY <1>8, <1>9

(* The slot for a new partition is not before the movable ones. *)
LEMMA NewSlotFacts ==
  ASSUME NEW s \in Seq(Entry), NEW sp \in 2..(Len(s) + 1), NEW before \in Nat,
         before \notin 2..(sp - 1),
         sp = 2 \/ s[sp - 1].type # "free"
  PROVE  NewSlot(s, before) \in sp..(Len(s) + 1)
<1> DEFINE T == {1} \cup {i \in 2..Len(s) : s[i].type # "free"}
           IsLast(b) == \A i \in 2..Len(s) : s[i].type # "free" => i <= b
           c == CHOOSE b \in T : IsLast(b)
<1>1. Len(s) \in Nat /\ sp \in Nat
  OBVIOUS
<1>2. CASE before \in 2..(Len(s) + 1)
  BY <1>1, <1>2 DEF NewSlot
<1>3. CASE before \notin 2..(Len(s) + 1)
  <2>1. \A x \in T : x \in Nat /\ x <= Len(s)
    BY <1>1
  <2>2. PICK m \in T : \A y \in T : y <= m
    <3>1. T # {}
      OBVIOUS
    <3> HIDE DEF T
    <3> QED
      BY <1>1, <2>1, <3>1, GreatestNat, Zenon
  <2>3. m \in T /\ IsLast(m)
    BY <2>2
  <2>4. c \in T /\ IsLast(c)
    BY <2>3, Zenon
  <2>5. NewSlot(s, before) = 1 + c
    BY <1>3 DEF NewSlot
  <2> HIDE DEF c
  <2>6. c \in Nat /\ c >= 1 /\ c <= Len(s)
    BY <1>1, <2>4
  <2>7. sp - 1 <= c
    <3>1. CASE sp = 2
      BY <3>1, <2>6
    <3>2. CASE sp # 2
      <4>1. sp - 1 \in 2..Len(s) /\ s[sp - 1].type # "free"
        BY <3>2, <1>1
      <4> QED
        BY <4>1, <2>4
    <3> QED
      BY <3>1, <3>2
  <2> QED
    BY <1>1, <2>5, <2>6, <2>7
<1> QED
  BY <1>2, <1>3

(* tivo_partition_add leaves every slot up to the last one in use alone. *)
LEMMA AddFacts ==
  ASSUME NEW q \in Seq(Entry), NEW sp \in 2..(Len(q) + 1),
         \A i \in sp..Len(q) : q[i].refs = 1,
         sp = 2 \/ q[sp - 1].type # "free",
         NEW first \in Nat, NEW size \in Nat, NEW before \in Nat, before \notin 2..(sp - 1)
  PROVE  /\ WithPartition(q, sp, first, size, before) \in Seq(Entry)
         /\ Len(WithPartition(q, sp, first, size, before)) >= sp
         /\ Len(WithPartition(q, sp, first, size, before)) <= Len(q) + 1
         /\ \A i \in 1..(sp - 1) : WithPartition(q, sp, first, size, before)[i] = q[i]
         /\ \A i \in sp..Len(WithPartition(q, sp, first, size, before)) :
              WithPartition(q, sp, first, size, before)[i].refs = 1
<1> DEFINE last == first + size
           s == Swept(q, sp, first, last)
<1>1. Len(q) \in Nat /\ sp \in Nat /\ last \in Nat
  OBVIOUS
<1> HIDE DEF last
<1>2. /\ s \in Seq(Entry)
      /\ Len(s) >= sp - 1
      /\ Len(s) <= Len(q)
      /\ \A i \in 1..(sp - 1) : s[i] = q[i]
      /\ \A i \in sp..Len(s) : s[i].refs = 1
  <2>1. q \in Seq(Entry) /\ sp \in 2..(Len(q) + 1) /\ first \in Nat /\ last \in Nat
    BY <1>1
  <2>2. \A i \in sp..Len(q) : q[i].refs = 1
    OBVIOUS
  <2> QED
    BY ONLY <2>1, <2>2, SweptFacts, ZenonT(40)
<1> DEFINE k == NewSlot(s, before)
           e == [start |-> first, sectors |-> size, type |-> "data", refs |-> 1]
           r == Inserted(s, k, e)
<1>3. e \in Entry /\ e.refs = 1
  BY DEF Entry, Types
<1> HIDE DEF s, e
<1>4. sp \in 2..(Len(s) + 1) /\ (sp = 2 \/ s[sp - 1].type # "free")
  <2>1. Len(s) \in Nat
    BY <1>2
  <2> QED
    BY <1>1, <1>2, <2>1
<1>5. k \in sp..(Len(s) + 1)
  BY <1>2, <1>4, NewSlotFacts
<1> HIDE DEF k
<1>6. k \in 1..(Len(s) + 1) /\ Len(s) \in Nat
  BY <1>1, <1>2, <1>5
<1>7. /\ r \in Seq(Entry) /\ Len(r) = Len(s) + 1
      /\ \A i \in 1..(Len(s) + 1) :
           r[i] = IF i < k THEN s[i] ELSE IF i = k THEN e ELSE s[i - 1]
  <2>1. IsInserted(r, s, k, e)
    BY <1>2, <1>3, <1>6, InsertedFacts, Zenon
  <2> QED
    BY <2>1 DEF IsInserted
<1> HIDE DEF r
<1>8. \A i \in 1..(sp - 1) : r[i] = q[i]
  BY <1>1, <1>2, <1>5, <1>6, <1>7
<1>9. \A i \in sp..Len(r) : r[i].refs = 1
  <2> TAKE i \in sp..Len(r)
  <2>1. i \in 1..(Len(s) + 1)
    BY <1>1, <1>6, <1>7
  <2>2. CASE i < k
    <3>1. i \in sp..Len(s)
      BY <2>1, <2>2, <1>5, <1>6
    <3> QED
      BY <2>1, <2>2, <3>1, <1>2, <1>7
  <2>3. CASE i = k
    <3>1. ~(i < k)
      BY <1>6, <2>3
    <3>2. r[i] = e
      BY ONLY <1>7, <2>1, <2>3, <3>1
    <3> QED
      BY <3>2, <1>3, Zenon
  <2>4. CASE ~(i < k) /\ i # k
    <3>1. i - 1 \in sp..Len(s)
      BY <2>1, <2>4, <1>1, <1>5, <1>6
    <3> QED
      BY <2>1, <2>4, <3>1, <1>2, <1>7
  <2> QED
    BY <2>2, <2>3, <2>4
<1>10. WithPartition(q, sp, first, size, before) = r
  BY DEF WithPartition, last, s, k, e, r
<1> QED
  BY <1>1, <1>2, <1>7, <1>8, <1>9, <1>10

-----------------------------------------------------------------------------
(* The inductive invariant.  Good(t) says of a table t what the open files *)
(* need: exact reference counts, and at every slot a file points to the    *)
(* partition it was opened on, which is not free space (free space is what *)
(* a new partition may be put in front of).                                *)
Good(t) ==
  /\ t \in Table
  /\ Len(t.parts) >= 1
  /\ t.refs = Cardinality({h \in Handles : Open(h)})
  /\ \A n \in 1..Len(t.parts) : t.parts[n].refs = 1 + Cardinality(Users(n))
  /\ \A h \in Handles : Open(h) =>
       /\ file[h].slot <= Len(t.parts)
       /\ t.parts[file[h].slot].start = file[h].start
       /\ t.parts[file[h].slot].sectors = file[h].sectors
       /\ t.parts[file[h].slot].type # "free"

IInv ==
  /\ TypeOK
  /\ wr # Idle => tab # NoTable
  /\ IF tab = NoTable THEN \A h \in Handles : ~Open(h) ELSE Good(tab)

(* Sets of handles are finite. *)
LEMMA HandleSets ==
  ASSUME NEW S, \A h \in S : h \in Handles
  PROVE  IsFiniteSet(S) /\ Cardinality(S) \in Nat
<1>1. S \subseteq Handles
  OBVIOUS
<1>2. IsFiniteSet(S)
  BY <1>1, HandlesAssumption, FS_Subset
<1> QED
  BY <1>2, FS_CardinalityType

(* The table an operation starts from is good, cached or just read. *)
LEMMA CachedGood ==
  ASSUME IInv, Cached # NoTable
  PROVE  Good(Cached)
<1>1. CASE tab # NoTable
  BY <1>1 DEF IInv, Cached
<1>2. CASE tab = NoTable
  <2>1. Cached = ReadTable /\ ReadTable # NoTable /\ \A h \in Handles : ~Open(h)
    BY <1>2 DEF Cached, IInv
  <2>2. disk \in Disk
    BY DEF IInv, TypeOK
  <2>3. /\ ReadTable \in Table /\ ReadTable.refs = 0 /\ Len(ReadTable.parts) >= 1
        /\ \A i \in 1..Len(ReadTable.parts) : ReadTable.parts[i].refs = 1
    BY <2>1, <2>2, ReadTableFacts
  <2>4. {h \in Handles : Open(h)} = {}
    BY <2>1
  <2>5. \A n \in 1..Len(ReadTable.parts) : Users(n) = {}
    <3> TAKE n \in 1..Len(ReadTable.parts)
    <3>1. n # 0
      OBVIOUS
    <3> QED
      BY <2>1, <3>1 DEF Users, Open
  <2>6. Cardinality({}) = 0
    BY FS_EmptySet
  <2>7. \A n \in 1..Len(ReadTable.parts) : ReadTable.parts[n].refs = 1 + Cardinality(Users(n))
    <3> TAKE n \in 1..Len(ReadTable.parts)
    <3>1. ReadTable.parts[n].refs = 1
      BY <2>3
    <3>2. Cardinality(Users(n)) = 0
      BY <2>5, <2>6
    <3> QED
      BY <3>1, <3>2
  <2>8. ReadTable.refs = Cardinality({h \in Handles : Open(h)})
    BY <2>3, <2>4, <2>6
  <2> QED
    BY <2>1, <2>3, <2>7, <2>8 DEF Good
<1> QED
  BY <1>1, <1>2

(* Validation keeps a good table good. *)
LEMMA ValidationGood ==
  ASSUME TypeOK, NEW t, Good(t), NEW v \in Validations(t)
  PROVE  Good(v.table)
<1> DEFINE u == v.table
<1>1. t \in Table
  BY DEF Good
<1>2. /\ u \in Table
      /\ u.refs = t.refs
      /\ Len(u.parts) >= Len(t.parts)
      /\ \A i \in 1..Len(t.parts) : u.parts[i] = t.parts[i]
      /\ \A i \in (Len(t.parts) + 1)..Len(u.parts) : u.parts[i].refs = 1
  BY <1>1, ValidationFacts
<1> HIDE DEF u
<1>3. Len(t.parts) \in Nat /\ Len(u.parts) \in Nat
  BY <1>1, <1>2 DEF Table
<1>4. \A h \in Handles : Open(h) => file[h].slot \in 1..Len(t.parts)
  BY DEF Good, TypeOK, Open
<1>5. \A n \in 1..Len(u.parts) : u.parts[n].refs = 1 + Cardinality(Users(n))
  <2> TAKE n \in 1..Len(u.parts)
  <2>1. CASE n \in 1..Len(t.parts)
    BY <2>1, <1>2 DEF Good
  <2>2. CASE n \notin 1..Len(t.parts)
    <3>1. n \in (Len(t.parts) + 1)..Len(u.parts)
      BY <2>2, <1>3
    <3>2. Users(n) = {}
      BY <2>2, <1>4 DEF Users, Open
    <3>3. Cardinality({}) = 0
      BY FS_EmptySet
    <3> QED
      BY <3>1, <3>2, <3>3, <1>2
  <2> QED
    BY <2>1, <2>2
<1>6. \A h \in Handles : Open(h) =>
        /\ file[h].slot <= Len(u.parts)
        /\ u.parts[file[h].slot] = t.parts[file[h].slot]
  BY <1>2, <1>3, <1>4
<1>7. Len(u.parts) >= 1 /\ u.refs = Cardinality({h \in Handles : Open(h)})
  BY <1>2, <1>3 DEF Good
<1> QED
  BY <1>2, <1>5, <1>6, <1>7 DEF Good, u

(* So does adding a partition: no slot before the first movable one changes *)
(* and no file points at a later one.                                       *)
LEMMA AddGood ==
  ASSUME TypeOK, NEW t, Good(t), NEW first \in Nat, NEW size \in Nat, NEW before \in Nat,
         before \notin 2..(FirstMovable(t.parts) - 1)
  PROVE  /\ Good([t EXCEPT
                    !.parts = WithPartition(t.parts, FirstMovable(t.parts), first, size, before),
                    !.flags = @ \cup {"DIRTY"}])
         /\ Len(WithPartition(t.parts, FirstMovable(t.parts), first, size, before))
              <= Len(t.parts) + 1
<1> DEFINE q  == t.parts
           sp == FirstMovable(q)
           r  == WithPartition(q, sp, first, size, before)
           u  == [t EXCEPT !.parts = r, !.flags = @ \cup {"DIRTY"}]
<1>1. t \in Table /\ q \in Seq(Entry) /\ Len(q) >= 1 /\ Len(q) \in Nat
  BY DEF Good, Table
<1>2. /\ sp \in 2..(Len(q) + 1)
      /\ \A i \in sp..Len(q) : q[i].refs <= 1
      /\ sp = 2 \/ q[sp - 1].refs > 1
  BY <1>1, FirstMovableFacts
<1>3. \A n \in 1..Len(q) : /\ q[n].refs = 1 + Cardinality(Users(n))
                           /\ IsFiniteSet(Users(n)) /\ Cardinality(Users(n)) \in Nat
  BY HandleSets DEF Good, Users
<1>4. \A h \in Handles : Open(h) => file[h].slot \in 1..Len(q)
  BY DEF Good, TypeOK, Open
<1> HIDE DEF q, sp
<1>5. \A i \in sp..Len(q) : q[i].refs = 1 /\ Cardinality(Users(i)) = 0
  <2> TAKE i \in sp..Len(q)
  <2>1. i \in 1..Len(q)
    BY <1>1, <1>2
  <2> QED
    BY <2>1, <1>2, <1>3
<1>6. sp = 2 \/ q[sp - 1].type # "free"
  <2> SUFFICES ASSUME sp # 2 PROVE q[sp - 1].type # "free"
    OBVIOUS
  <2>1. sp - 1 \in 1..Len(q) /\ q[sp - 1].refs > 1
    BY <1>1, <1>2
  <2>2. Cardinality(Users(sp - 1)) # 0
    BY <2>1, <1>3
  <2>3. PICK h \in Users(sp - 1) : TRUE
    <3>1. Users(sp - 1) # {}
      BY <2>2, FS_EmptySet
    <3> QED
      BY <3>1
  <2>4. h \in Handles /\ file[h].slot = sp - 1 /\ Open(h)
    BY <2>1, <2>3 DEF Users, Open
  <2> QED
    BY <2>4 DEF Good, q
<1>7. before \notin 2..(sp - 1)
  BY DEF sp, q
<1>8. /\ r \in Seq(Entry)
      /\ Len(r) >= sp
      /\ Len(r) <= Len(q) + 1
      /\ \A i \in 1..(sp - 1) : r[i] = q[i]
      /\ \A i \in sp..Len(r) : r[i].refs = 1
  BY <1>1, <1>2, <1>5, <1>6, <1>7, AddFacts, SMTT(40)
<1> HIDE DEF r
<1>9. Len(r) \in Nat /\ sp \in Nat
  BY <1>2, <1>8
<1>10. \A h \in Handles : Open(h) => file[h].slot \in 1..(sp - 1)
  <2> TAKE h \in Handles
  <2> HAVE Open(h)
  <2>1. file[h].slot \in 1..Len(q)
    BY <1>4
  <2>2. file[h].slot \notin sp..Len(q)
    <3> SUFFICES ASSUME file[h].slot \in sp..Len(q) PROVE FALSE
      OBVIOUS
    <3>1. h \in Users(file[h].slot)
      BY DEF Users
    <3>2. Cardinality(Users(file[h].slot)) = 0 /\ IsFiniteSet(Users(file[h].slot))
      BY <1>3, <1>5, <2>1
    <3> QED
      BY <3>1, <3>2, FS_EmptySet
  <2> QED
    BY <2>1, <2>2, <1>1, <1>2
<1>11. \A n \in 1..Len(r) : r[n].refs = 1 + Cardinality(Users(n))
  <2> TAKE n \in 1..Len(r)
  <2>1. CASE n \in 1..(sp - 1)
    <3>1. n \in 1..Len(q)
      BY <2>1, <1>1, <1>2
    <3> QED
      BY <2>1, <3>1, <1>3, <1>8
  <2>2. CASE n \notin 1..(sp - 1)
    <3>1. n \in sp..Len(r)
      BY <2>2, <1>9
    <3>2. Users(n) = {}
      BY <2>2, <1>10, <3>1, <1>2 DEF Users, Open
    <3>3. Cardinality({}) = 0
      BY FS_EmptySet
    <3> QED
      BY <3>1, <3>2, <3>3, <1>8
  <2> QED
    BY <2>1, <2>2
<1>12. u \in Table /\ u.parts = r /\ u.refs = t.refs
  BY <1>1, <1>8 DEF Table, Flags
<1> HIDE DEF u
<1>13. \A h \in Handles : Open(h) =>
         file[h].slot <= Len(r) /\ r[file[h].slot] = q[file[h].slot]
  <2> TAKE h \in Handles
  <2> HAVE Open(h)
  <2>1. file[h].slot \in 1..(sp - 1)
    BY <1>10
  <2> QED
    BY <2>1, <1>8, <1>9
<1>14. Len(r) >= 1
  BY <1>2, <1>8, <1>9
<1>15. Good(u)
  BY <1>11, <1>12, <1>13, <1>14 DEF Good, q
<1> QED
  BY <1>8, <1>15 DEF u, r, sp, q

-----------------------------------------------------------------------------
LEMMA InitIInv == Init => IInv
<1> SUFFICES ASSUME Init PROVE IInv
  OBVIOUS
<1>1. disk \in Disk /\ boot \in BOOLEAN
  BY DisksAssumption DEF Init
<1>2. file \in [Handles -> [slot : Nat, start : Nat, sectors : Nat, clean : BOOLEAN]]
  BY DEF Init, Closed
<1>3. \A h \in Handles : ~Open(h)
  BY DEF Init, Closed, Open
<1> QED
  BY <1>1, <1>2, <1>3 DEF Init, IInv, TypeOK, Idle

(* The calls that change the cached table only. *)
LEMMA TableStep ==
  ASSUME IInv, UNCHANGED <<boot, disk, file, wr>>, Good(tab')
  PROVE  IInv'
<1>1. tab' \in Table /\ tab' # NoTable
  BY NoneAssumption DEF Good
<1>2. TypeOK'
  BY <1>1 DEF IInv, TypeOK
<1>3. Good(tab)'
  BY DEF Good, Open, Users
<1> QED
  BY <1>1, <1>2, <1>3 DEF IInv

(* Counting references leaves what the entries describe alone. *)
LEMMA RefFacts ==
  ASSUME NEW q \in Seq(Entry), NEW n \in 1..Len(q), NEW d \in Int, q[n].refs + d \in Nat
  PROVE  /\ Ref(q, n, d) \in Seq(Entry)
         /\ Len(Ref(q, n, d)) = Len(q)
         /\ Ref(q, n, d)[n].refs = q[n].refs + d
         /\ \A i \in 1..Len(q) : /\ i # n => Ref(q, n, d)[i] = q[i]
                                /\ Ref(q, n, d)[i].start = q[i].start
                                /\ Ref(q, n, d)[i].sectors = q[i].sectors
                                /\ Ref(q, n, d)[i].type = q[i].type
<1> DEFINE e == [q[n] EXCEPT !.refs = @ + d]
           r == [q EXCEPT ![n] = e]
<1>1. q[n] \in Entry
  OBVIOUS
<1>2. /\ e \in Entry /\ e.refs = q[n].refs + d
      /\ e.start = q[n].start /\ e.sectors = q[n].sectors /\ e.type = q[n].type
  BY <1>1 DEF Entry
<1> HIDE DEF e
<1>3. /\ r \in Seq(Entry) /\ Len(r) = Len(q)
      /\ \A i \in 1..Len(q) : r[i] = IF i = n THEN e ELSE q[i]
  BY <1>2
<1>4. Ref(q, n, d) = r
  BY Zenon DEF Ref, r, e
<1> HIDE DEF r
<1> QED
  BY <1>2, <1>3, <1>4

LEMMA OpenStep ==
  ASSUME IInv, NEW h \in Handles, NEW n \in 1..MapSectors, OpenPart(h, n)
  PROVE  IInv'
<1> DEFINE t == Cached
           p == Ref(t.parts, n, 1)
           u == Counted(t, n, 1)
           F == [slot |-> n, start |-> t.parts[n].start, sectors |-> t.parts[n].sectors,
                 clean |-> "DIRTY" \notin t.flags]
<1>1. /\ t # NoTable /\ ~Open(h) /\ n <= Len(t.parts) /\ t.parts[n].type # "free"
      /\ tab' = u /\ file' = [file EXCEPT ![h] = F]
      /\ UNCHANGED <<boot, disk, wr>>
  BY DEF OpenPart
<1>2. Good(t)
  BY <1>1, CachedGood
<1> HIDE DEF t
<1>3. /\ t \in Table /\ t.parts \in Seq(Entry) /\ Len(t.parts) \in Nat /\ t.refs \in Nat
      /\ n \in 1..Len(t.parts)
  BY <1>1, <1>2, SizesAssumption DEF Good, Table
<1>4. t.parts[n] \in Entry /\ t.parts[n].refs \in Nat
  <2>1. t.parts[n] \in Entry
    BY <1>3
  <2> QED
    BY <2>1 DEF Entry
<1>5. /\ p \in Seq(Entry) /\ Len(p) = Len(t.parts) /\ p[n].refs = t.parts[n].refs + 1
      /\ \A i \in 1..Len(t.parts) : /\ i # n => p[i] = t.parts[i]
                                    /\ p[i].start = t.parts[i].start
                                    /\ p[i].sectors = t.parts[i].sectors
                                    /\ p[i].type = t.parts[i].type
  BY <1>3, <1>4, RefFacts, SMTT(40)
<1> HIDE DEF p
<1>6. u \in Table /\ u.parts = p /\ u.refs = t.refs + 1
  <2>1. u = [parts |-> p, refs |-> t.refs + 1, flags |-> t.flags]
    BY DEF Counted, p
  <2> QED
    BY <2>1, <1>3, <1>5 DEF Table
<1>7. F \in [slot : Nat, start : Nat, sectors : Nat, clean : BOOLEAN]
  BY <1>3, <1>4, SMTT(40) DEF Entry
<1>8. file \in [Handles -> [slot : Nat, start : Nat, sectors : Nat, clean : BOOLEAN]]
  BY DEF IInv, TypeOK
<1> HIDE DEF u
<1>9. TypeOK'
  BY <1>1, <1>6, <1>7, <1>8 DEF IInv, TypeOK
<1>10. file[h].slot = 0
  BY <1>1 DEF Open
<1>11. Users(n)' = Users(n) \cup {h} /\ h \notin Users(n)
  BY <1>1, <1>3, <1>8, <1>10 DEF Users
<1>12. \A i \in 1..Len(t.parts) : i # n => Users(i)' = Users(i)
  BY <1>1, <1>8, <1>10 DEF Users
<1>13. {x \in Handles : Open(x)}' = {x \in Handles : Open(x)} \cup {h}
  BY <1>1, <1>3, <1>8 DEF Open
<1>14. Cardinality(Users(n)') = Cardinality(Users(n)) + 1
  <2>1. IsFiniteSet(Users(n))
    BY HandleSets DEF Users
  <2> QED
    BY <1>11, <2>1, FS_AddElement
<1>15. Cardinality({x \in Handles : Open(x)}') = Cardinality({x \in Handles : Open(x)}) + 1
  <2>1. IsFiniteSet({x \in Handles : Open(x)}) /\ h \notin {x \in Handles : Open(x)}
    BY HandleSets, <1>1
  <2> QED
    BY <1>13, <2>1, FS_AddElement
<1>16. \A i \in 1..Len(p) : p[i].refs = 1 + Cardinality(Users(i)')
  <2> TAKE i \in 1..Len(p)
  <2>1. t.parts[i].refs = 1 + Cardinality(Users(i)) /\ Cardinality(Users(i)) \in Nat
    BY <1>2, <1>5, HandleSets DEF Good, Users
  <2>2. CASE i = n
    BY <2>1, <2>2, <1>5, <1>14
  <2>3. CASE i # n
    BY <2>1, <2>3, <1>5, <1>12
  <2> QED
    BY <2>2, <2>3
<1>17. \A x \in Handles : Open(x)' =>
         /\ file'[x].slot <= Len(p)
         /\ p[file'[x].slot].start = file'[x].start
         /\ p[file'[x].slot].sectors = file'[x].sectors
         /\ p[file'[x].slot].type # "free"
  <2> TAKE x \in Handles
  <2> HAVE Open(x)'
  <2>1. CASE x = h
    <3>1. file'[x] = F
      BY <2>1, <1>1, <1>8
    <3>2. F.slot = n /\ F.start = t.parts[n].start /\ F.sectors = t.parts[n].sectors
      OBVIOUS
    <3> HIDE DEF F
    <3> QED
      BY <3>1, <3>2, <1>1, <1>3, <1>5
  <2>2. CASE x # h
    <3>1. file'[x] = file[x] /\ Open(x)
      BY <2>2, <1>1, <1>8 DEF Open
    <3>2. file[x].slot \in 1..Len(t.parts)
      BY <3>1, <1>2, <1>8 DEF Good, Open
    <3> QED
      BY <3>1, <3>2, <1>2, <1>5 DEF Good
  <2> QED
    BY <2>1, <2>2
<1>18. Good(tab)'
  <2>1. u.refs = Cardinality({x \in Handles : Open(x)}')
    BY <1>2, <1>6, <1>15 DEF Good
  <2>2. Len(u.parts) >= 1
    BY <1>2, <1>5, <1>6 DEF Good
  <2> QED
    BY <2>1, <2>2, <1>1, <1>6, <1>16, <1>17 DEF Good
<1>19. tab' # NoTable
  BY <1>1, <1>6, NoneAssumption
<1> QED
  BY <1>9, <1>18, <1>19 DEF IInv

LEMMA CloseStep ==
  ASSUME IInv, NEW h \in Handles, ClosePart(h)
  PROVE  IInv'
<1>0. PICK n : n = file[h].slot
  OBVIOUS
<1> DEFINE t == tab
           p == Ref(t.parts, n, -1)
           u == Counted(t, n, -1)
<1>1. /\ Open(h) /\ tab' = u /\ file' = [file EXCEPT ![h] = Closed]
      /\ UNCHANGED <<boot, disk, wr>>
  BY <1>0 DEF ClosePart
<1>2. Good(t)
  BY <1>1 DEF IInv
<1>3. file \in [Handles -> [slot : Nat, start : Nat, sectors : Nat, clean : BOOLEAN]]
  BY DEF IInv, TypeOK
<1>4. n \in Nat /\ n # 0 /\ n <= Len(t.parts)
  BY <1>0, <1>1, <1>2, <1>3 DEF Good, Open
<1> HIDE DEF t
<1>5. /\ t \in Table /\ t.parts \in Seq(Entry) /\ Len(t.parts) \in Nat /\ t.refs \in Nat
      /\ n \in 1..Len(t.parts)
  BY <1>2, <1>4 DEF Good, Table
<1>6. h \in Users(n) /\ IsFiniteSet(Users(n)) /\ Cardinality(Users(n)) \in Nat
  BY <1>0, HandleSets DEF Users
<1>7. Cardinality(Users(n) \ {h}) = Cardinality(Users(n)) - 1
  BY <1>6, FS_RemoveElement
<1>8. t.parts[n].refs = 1 + Cardinality(Users(n)) /\ Cardinality(Users(n)) >= 1
  <2>1. Cardinality(Users(n) \ {h}) \in Nat
    <3>1. IsFiniteSet(Users(n) \ {h})
      BY <1>6, FS_Subset
    <3> QED
      BY <3>1, FS_CardinalityType
  <2> QED
    BY <1>2, <1>5, <1>6, <1>7, <2>1 DEF Good
<1>9. /\ p \in Seq(Entry) /\ Len(p) = Len(t.parts) /\ p[n].refs = t.parts[n].refs - 1
      /\ \A i \in 1..Len(t.parts) : /\ i # n => p[i] = t.parts[i]
                                    /\ p[i].start = t.parts[i].start
                                    /\ p[i].sectors = t.parts[i].sectors
                                    /\ p[i].type = t.parts[i].type
  <2>1. t.parts[n].refs + (-1) \in Nat /\ t.parts[n].refs + (-1) = t.parts[n].refs - 1
    BY <1>6, <1>8
  <2> QED
    BY <1>5, <2>1, RefFacts
<1> HIDE DEF p
<1> DEFINE O == {x \in Handles : Open(x)}
<1>11. O' = O \ {h} /\ h \in O
  BY <1>1, <1>3 DEF Open, Closed
<1>12. t.refs = Cardinality(O) /\ Cardinality(O') = Cardinality(O) - 1 /\ Cardinality(O') \in Nat
  <2>1. IsFiniteSet(O)
    BY HandleSets
  <2>2. IsFiniteSet(O \ {h})
    BY <2>1, FS_Subset
  <2> QED
    BY <1>2, <1>11, <2>1, <2>2, FS_RemoveElement, FS_CardinalityType DEF Good
<1>13. u \in Table /\ u.parts = p /\ u.refs = t.refs - 1
  <2>1. u = [parts |-> p, refs |-> t.refs + (-1), flags |-> t.flags]
    BY DEF Counted, p
  <2>2. t.refs + (-1) = t.refs - 1 /\ t.refs - 1 \in Nat
    BY <1>5, <1>12
  <2>3. t.flags \in SUBSET Flags
    BY <1>5 DEF Table
  <2> HIDE DEF u
  <2> QED
    BY <2>1, <2>2, <2>3, <1>9 DEF Table
<1> HIDE DEF u
<1>14. TypeOK'
  <2>1. Closed \in [slot : Nat, start : Nat, sectors : Nat, clean : BOOLEAN]
    BY DEF Closed
  <2> QED
    BY <1>1, <1>3, <1>13, <2>1 DEF IInv, TypeOK
<1>15. \A x \in Handles : file'[x] = IF x = h THEN Closed ELSE file[x]
  BY <1>1, <1>3
<1>16. Users(n)' = Users(n) \ {h}
  BY <1>0, <1>4, <1>15 DEF Users, Closed
<1>17. \A i \in 1..Len(t.parts) : i # n => Users(i)' = Users(i)
  BY <1>0, <1>15 DEF Users, Closed
<1>18. \A i \in 1..Len(p) : p[i].refs = 1 + Cardinality(Users(i)')
  <2> TAKE i \in 1..Len(p)
  <2>1. t.parts[i].refs = 1 + Cardinality(Users(i)) /\ Cardinality(Users(i)) \in Nat
    BY <1>2, <1>9, HandleSets DEF Good, Users
  <2>2. CASE i = n
    BY <2>1, <2>2, <1>7, <1>9, <1>16
  <2>3. CASE i # n
    BY <2>1, <2>3, <1>9, <1>17
  <2> QED
    BY <2>2, <2>3
<1>19. \A x \in Handles : Open(x)' =>
         /\ file'[x].slot <= Len(p)
         /\ p[file'[x].slot].start = file'[x].start
         /\ p[file'[x].slot].sectors = file'[x].sectors
         /\ p[file'[x].slot].type # "free"
  <2> TAKE x \in Handles
  <2> HAVE Open(x)'
  <2>1. x # h
    BY <1>15 DEF Open, Closed
  <2>2. file'[x] = file[x] /\ Open(x)
    BY <2>1, <1>15 DEF Open
  <2>3. file[x].slot \in 1..Len(t.parts)
    BY <2>2, <1>2, <1>3 DEF Good, Open
  <2> QED
    BY <2>2, <2>3, <1>2, <1>9 DEF Good
<1>20. Good(tab)'
  <2>1. u.refs = Cardinality({x \in Handles : Open(x)}')
    BY <1>12, <1>13
  <2>2. Len(u.parts) >= 1
    BY <1>2, <1>9, <1>13 DEF Good
  <2> QED
    BY <2>1, <2>2, <1>1, <1>13, <1>18, <1>19 DEF Good
<1>21. tab' # NoTable
  BY <1>1, <1>13, NoneAssumption
<1> QED
  BY <1>14, <1>20, <1>21 DEF IInv

(* The calls that only read, search or change the array of the table.       *)
LEMMA LoadStep ==
  ASSUME IInv, Load
  PROVE  IInv'
<1>1. /\ tab = NoTable /\ tab' = ReadTable /\ Cached = ReadTable
      /\ UNCHANGED <<boot, disk, file, wr>>
  BY DEF Load, Cached
<1>2. CASE ReadTable = NoTable
  <2>1. UNCHANGED vars
    BY <1>1, <1>2 DEF vars
  <2> QED
    BY <2>1 DEF IInv, vars, TypeOK, Good, Open, Users
<1>3. CASE ReadTable # NoTable
  <2>1. Good(tab')
    BY <1>1, <1>3, CachedGood
  <2> QED
    BY <1>1, <2>1, TableStep
<1> QED
  BY <1>2, <1>3

LEMMA ValidateStep ==
  ASSUME IInv, Cached # NoTable, NEW v \in Validations(Cached), tab' = v.table,
         UNCHANGED <<boot, disk, file, wr>>
  PROVE  IInv'
<1>1. Good(Cached) /\ TypeOK
  BY CachedGood DEF IInv
<1>2. Good(tab')
  BY <1>1, ValidationGood
<1> QED
  BY <1>2, TableStep

LEMMA AddStep ==
  ASSUME IInv, NEW size \in Sizes, NEW before \in 0..MapSectors, Add(size, before)
  PROVE  IInv'
<1>1. Cached # NoTable /\ UNCHANGED <<boot, disk, file, wr>>
  BY DEF Add
<1>2. PICK v \in Validations(Cached) :
        LET q  == v.table.parts
            sp == FirstMovable(q)
        IN  /\ ~Refused(v, size, before)
            /\ \E i \in sp..Len(q) :
                 /\ q[i].start = FirstFit(q, sp, size)
                 /\ tab' = [v.table EXCEPT
                              !.parts = WithPartition(q, sp, q[i].start, size, before),
                              !.flags = @ \cup {"DIRTY"}]
  BY DEF Add
<1>3. TypeOK /\ Good(v.table)
  BY <1>1, CachedGood, ValidationGood DEF IInv
<1> DEFINE t == v.table
           q == t.parts
<1>4. PICK i \in FirstMovable(q)..Len(q) :
        tab' = [t EXCEPT !.parts = WithPartition(q, FirstMovable(q), q[i].start, size, before),
                         !.flags = @ \cup {"DIRTY"}]
  BY <1>2
<1>5. before \notin 2..(FirstMovable(q) - 1)
  BY <1>2 DEF Refused
<1>6. q \in Seq(Entry) /\ Len(q) \in Nat /\ Len(q) >= 1
  BY <1>3 DEF Good, Table
<1>7. i \in 1..Len(q)
  BY <1>6, FirstMovableFacts
<1>8. q[i].start \in Nat
  <2>1. q[i] \in Entry
    BY <1>6, <1>7
  <2> QED
    BY <2>1 DEF Entry
<1>9. size \in Nat /\ before \in Nat
  BY SizesAssumption
<1>10. Good(tab')
  BY <1>3, <1>4, <1>5, <1>8, <1>9, AddGood
<1> QED
  BY <1>1, <1>10, TableStep

(* Nothing points into a table that tivo_partition_rrpart may drop.          *)
LEMMA DroppableUnused ==
  ASSUME IInv, Droppable
  PROVE  \A h \in Handles : ~Open(h)
<1>1. CASE tab = NoTable
  BY <1>1 DEF IInv
<1>2. CASE tab # NoTable
  <2>1. Cardinality({h \in Handles : Open(h)}) = 0
    BY <1>2 DEF IInv, Good, Droppable
  <2>2. IsFiniteSet({h \in Handles : Open(h)})
    BY HandleSets
  <2>3. {h \in Handles : Open(h)} = {}
    BY <2>1, <2>2, FS_EmptySet
  <2> QED
    BY <2>3
<1> QED
  BY <1>1, <1>2

LEMMA InitTableStep ==
  ASSUME IInv, InitTable
  PROVE  IInv'
<1> DEFINE e == [start |-> 1, sectors |-> MapSectors, type |-> "map", refs |-> 1]
           u == [parts |-> <<e>>, refs |-> 0, flags |-> {"NONINIT"}]
<1>1. tab' = u /\ UNCHANGED <<boot, disk, file, wr>>
  BY DEF InitTable
<1>2. \A h \in Handles : ~Open(h)
  BY DroppableUnused DEF InitTable
<1>3. e \in Entry /\ e.refs = 1
  BY SizesAssumption DEF Entry, Types
<1> HIDE DEF e
<1>4. <<e>> \in Seq(Entry) /\ Len(<<e>>) = 1 /\ <<e>>[1] = e
  BY <1>3
<1>5. /\ u \in Table /\ u.parts = <<e>> /\ u.refs = 0
  BY <1>4 DEF Table, Flags
<1> HIDE DEF u
<1>6. Cardinality({}) = 0
  BY FS_EmptySet
<1>7. {h \in Handles : Open(h)} = {} /\ Users(1) = {}
  BY <1>2 DEF Users, Open
<1>8. Good(u)
  <2>1. \A n \in 1..Len(u.parts) : u.parts[n].refs = 1 + Cardinality(Users(n))
    BY <1>3, <1>4, <1>5, <1>6, <1>7
  <2> QED
    BY <2>1, <1>2, <1>4, <1>5, <1>6, <1>7 DEF Good
<1> QED
  BY <1>1, <1>8, TableStep

(* Only flags change when a write begins or ends.                            *)
LEMMA FlagsGood ==
  ASSUME NEW t, Good(t), NEW S \in SUBSET Flags
  PROVE  Good([t EXCEPT !.flags = S])
<1> DEFINE u == [t EXCEPT !.flags = S]
<1>1. u \in Table /\ u.parts = t.parts /\ u.refs = t.refs
  BY DEF Good, Table
<1> HIDE DEF u
<1>2. Good(u)
  BY <1>1 DEF Good
<1> QED
  BY <1>2 DEF u

LEMMA BeginWriteStep ==
  ASSUME IInv, BeginWrite
  PROVE  IInv'
<1> DEFINE S == tab.flags \ {"NONINIT"}
<1>1. /\ tab # NoTable /\ tab' = [tab EXCEPT !.flags = S] /\ wr' \in {0, 1}
      /\ UNCHANGED <<boot, disk, file>>
  BY DEF BeginWrite
<1>2. Good(tab)
  BY <1>1 DEF IInv
<1>3. S \in SUBSET Flags
  BY <1>2 DEF Good, Table
<1>4. Good(tab')
  BY <1>1, <1>2, <1>3, FlagsGood
<1>5. tab' \in Table /\ tab' # NoTable
  BY <1>4, NoneAssumption DEF Good
<1>6. TypeOK'
  BY <1>1, <1>5, SizesAssumption DEF IInv, TypeOK
<1>7. Good(tab)'
  BY <1>1, <1>4 DEF Good, Open, Users
<1> QED
  BY <1>5, <1>6, <1>7 DEF IInv

LEMMA WriteBootStep ==
  ASSUME IInv, WriteBoot
  PROVE  IInv'
<1>1. TypeOK'
  BY SizesAssumption DEF IInv, TypeOK, WriteBoot
<1>2. UNCHANGED <<tab, file>> /\ wr # Idle
  BY DEF WriteBoot, Idle
<1> QED
  BY <1>1, <1>2 DEF IInv, Good, Open, Users

LEMMA WriteSectorStep ==
  ASSUME IInv, WriteSector
  PROVE  IInv'
<1>1. /\ wr > 0 /\ wr <= Len(tab.parts) + 1 /\ wr <= MapSectors
      /\ disk' = [disk EXCEPT ![wr] = MapSector(tab.parts, wr)]
      /\ wr' = wr + 1 /\ UNCHANGED <<boot, tab, file>>
  BY DEF WriteSector
<1>2. tab # NoTable /\ tab.parts \in Seq(Entry)
  BY <1>1 DEF IInv, Good, Table, Idle
<1>3. wr \in 1..MapSectors
  BY <1>1, SizesAssumption DEF IInv, TypeOK, Idle
<1>4. MapSector(tab.parts, wr) \in DiskEntry \cup {Blank}
  <2>1. CASE wr > Len(tab.parts)
    BY <2>1 DEF MapSector
  <2>2. CASE ~(wr > Len(tab.parts))
    <3>1. wr \in 1..Len(tab.parts) /\ Len(tab.parts) \in Nat
      BY <1>2, <1>3, <2>2
    <3>2. tab.parts[wr] \in Entry
      BY <1>2, <3>1
    <3> QED
      BY <2>2, <3>1, <3>2 DEF MapSector, Entry, DiskEntry
  <2> QED
    BY <2>1, <2>2
<1>5. disk' \in Disk
  BY <1>1, <1>3, <1>4 DEF IInv, TypeOK, Disk
<1>6. wr' \in {Idle} \cup 0..(MapSectors + 1)
  BY <1>1, <1>3, SizesAssumption DEF Idle
<1> QED
  BY <1>1, <1>2, <1>5, <1>6 DEF IInv, TypeOK, Good, Open, Users

LEMMA EndWriteStep ==
  ASSUME IInv, EndWrite
  PROVE  IInv'
<1> DEFINE S == tab.flags \ {"DIRTY"}
<1>1. /\ tab' = [tab EXCEPT !.flags = S] /\ wr' = Idle /\ UNCHANGED <<boot, disk>>
      /\ file' = [h \in Handles |-> IF Open(h) THEN [file[h] EXCEPT !.clean = TRUE] ELSE Closed]
  BY DEF EndWrite
<1>2. Good(tab)
  BY DEF IInv, EndWrite, Idle
<1>3. S \in SUBSET Flags
  BY <1>2 DEF Good, Table
<1>4. Good(tab')
  BY <1>1, <1>2, <1>3, FlagsGood
<1>5. tab' \in Table /\ tab' # NoTable
  BY <1>4, NoneAssumption DEF Good
<1>6. file \in [Handles -> [slot : Nat, start : Nat, sectors : Nat, clean : BOOLEAN]]
  BY DEF IInv, TypeOK
<1>7. file' \in [Handles -> [slot : Nat, start : Nat, sectors : Nat, clean : BOOLEAN]]
  BY <1>1, <1>6 DEF Closed
<1>8. TypeOK'
  BY <1>1, <1>5, <1>7 DEF IInv, TypeOK
<1>9. \A h \in Handles : /\ file'[h].slot = file[h].slot
                         /\ Open(h) => /\ file'[h].start = file[h].start
                                       /\ file'[h].sectors = file[h].sectors
  BY <1>1, <1>6 DEF Open, Closed
<1>10. \A n : Users(n)' = Users(n)
  BY <1>9 DEF Users
<1>11. {h \in Handles : Open(h)}' = {h \in Handles : Open(h)}
  BY <1>9 DEF Open
<1>12. \A h \in Handles : Open(h)' <=> Open(h)
  BY <1>9 DEF Open
<1>13. Good(tab)'
  BY <1>4, <1>9, <1>10, <1>11, <1>12, ZenonT(40) DEF Good
<1> QED
  BY <1>5, <1>8, <1>13 DEF IInv

LEMMA ToolEndsStep ==
  ASSUME IInv, ToolEnds
  PROVE  IInv'
<1>1. TypeOK'
  BY DEF IInv, TypeOK, ToolEnds, Closed
<1> QED
  BY <1>1 DEF IInv, ToolEnds, Closed, Open, Idle

-----------------------------------------------------------------------------
LEMMA NextStep == IInv /\ [Next]_vars => IInv'
<1> SUFFICES ASSUME IInv, [Next]_vars PROVE IInv'
  OBVIOUS
<1>1. CASE Load
  BY <1>1, LoadStep
<1>2. CASE QueryFree
  BY <1>2, ValidateStep DEF QueryFree
<1>3. ASSUME NEW size \in Sizes, NEW before \in 0..MapSectors, AddFails(size, before)
      PROVE  IInv'
  BY <1>3, ValidateStep DEF AddFails
<1>4. ASSUME NEW size \in Sizes, NEW before \in 0..MapSectors, Add(size, before)
      PROVE  IInv'
  BY <1>4, AddStep
<1>5. CASE InitTable
  BY <1>5, InitTableStep
<1>6. ASSUME NEW h \in Handles, NEW n \in 1..MapSectors, OpenPart(h, n)
      PROVE  IInv'
  BY <1>6, OpenStep
<1>7. ASSUME NEW h \in Handles, ClosePart(h)
      PROVE  IInv'
  BY <1>7, CloseStep
<1>8. CASE BeginWrite
  BY <1>8, BeginWriteStep
<1>9. CASE WriteBoot
  BY <1>9, WriteBootStep
<1>10. CASE WriteSector
  BY <1>10, WriteSectorStep
<1>11. CASE EndWrite
  BY <1>11, EndWriteStep
<1>12. CASE ToolEnds
  BY <1>12, ToolEndsStep
<1>13. CASE WriteFails
  BY <1>13 DEF WriteFails, IInv, TypeOK, Good, Open, Users
<1>14. CASE UNCHANGED vars
  BY <1>14 DEF vars, IInv, TypeOK, Good, Open, Users
<1> QED
  BY <1>1, <1>2, <1>3, <1>4, <1>5, <1>6, <1>7, <1>8, <1>9, <1>10, <1>11, <1>12, <1>13, <1>14
     DEF Next

LEMMA Inductive == Spec => []IInv
<1>1. Init => IInv
  BY InitIInv
<1>2. IInv /\ [Next]_vars => IInv'
  BY NextStep
<1> QED
  BY <1>1, <1>2, PTL DEF Spec

(* Type correctness: every variable keeps its type, whatever tables the     *)
(* drive carries and tivo_partition_add makes of them.                      *)
THEOREM TypeCorrect == Spec => []TypeOK
<1>1. IInv => TypeOK
  BY DEF IInv
<1> QED
  BY <1>1, Inductive, PTL

(* The counts of tivo_partition_open_direct_int and tivo_partition_close    *)
(* agree with the open files, however tivo_partition_add moves the entries  *)
(* that carry them: tivo_partition_rrpart never frees a table in use.       *)
THEOREM RefsCorrect == Spec => []RefsBalanced
<1>1. IInv => RefsBalanced
  BY DEF IInv, RefsBalanced, Good
<1> QED
  BY <1>1, Inductive, PTL

(* "Make sure no partitions that are currently being used are affected":    *)
(* no sequence of calls moves, resizes or renumbers a partition a file is   *)
(* open on.                                                                 *)
THEOREM InUseTheorem == Spec => []InUseStable
<1>1. IInv => InUseStable
  BY DEF IInv, InUseStable, Good
<1> QED
  BY <1>1, Inductive, PTL

-----------------------------------------------------------------------------
(* The table on the drive.                                                  *)

(* tivo_partition_table_write clears VOL_NONINIT before it writes the boot *)
(* block and never tries again: the results are about drives whose boot    *)
(* block can be written.                                                   *)
BootWritable == 0 \notin BadSectors

(* The next tool reads slot n of the drive, and finds e there. *)
OnDrive(n, e) ==
  /\ boot
  /\ n \in 1..MapSectors
  /\ \A k \in 1..n : disk[k] # Blank
  /\ n = 1 \/ n <= disk[1].count
  /\ disk[n].start = e.start
  /\ disk[n].sectors = e.sectors

(* The inductive invariant, beside IInv.  A slot whose file is clean is on  *)
(* the drive, and stays there because the write puts the same entry at the *)
(* same sector; for that the map has a sector for every entry, and a table *)
(* made by tivo_partition_table_init, which the drive knows nothing of, is *)
(* not in use before its boot block is written.                            *)
CleanOnDrive == \A h \in Handles : Open(h) /\ file[h].clean => OnDrive(file[h].slot, file[h])

FitsMap(t) == Len(t.parts) <= MapSectors
Fresh(t)   == "NONINIT" \in t.flags \/ wr = 0

TableFits ==
  tab # NoTable => /\ FitsMap(tab)
                   /\ Fresh(tab) => \A h \in Handles : ~Open(h)
                   /\ ~Fresh(tab) => boot

Writing == wr # Idle => "DIRTY" \in tab.flags /\ "NONINIT" \notin tab.flags
Written == wr > 0 => \A k \in 1..(wr - 1) : disk[k] = MapSector(tab.parts, k)

CInv == CleanOnDrive /\ ReadsBack /\ TableFits /\ Writing /\ Written

(* A slot on the drive is one of those the next tool reads. *)
LEMMA OnDriveRead ==
  ASSUME disk \in Disk, NEW n, NEW e, OnDrive(n, e)
  PROVE  /\ ReadTable # NoTable
         /\ n \in 1..Len(ReadTable.parts)
         /\ ReadTable.parts[n].start = e.start
         /\ ReadTable.parts[n].sectors = e.sectors
<1> DEFINE c == ReadCount
           p == [k \in 1..c |-> [start |-> disk[k].start, sectors |-> disk[k].sectors,
                                  type |-> disk[k].type, refs |-> 1]]
           r == [parts |-> p, refs |-> 0, flags |-> {}]
<1>1. MapSectors \in Nat /\ n \in 1..MapSectors /\ disk[1] # Blank /\ boot
  BY SizesAssumption DEF OnDrive
<1>2. disk[1] \in DiskEntry /\ disk[1].count \in Nat
  BY <1>1 DEF Disk, DiskEntry
<1>3. /\ c \in 1..MapSectors
      /\ \A k \in 1..c : disk[k] # Blank
      /\ c >= disk[1].count \/ c = MapSectors \/ disk[c + 1] = Blank
  BY <1>1, ReadCountFacts
<1>4. ReadTable = r
  BY <1>1 DEF ReadTable
<1> HIDE DEF c
<1>5. n <= c
  <2> SUFFICES ASSUME ~(n <= c) PROVE FALSE
    OBVIOUS
  <2>1. c + 1 \in 1..n /\ n # 1
    BY <1>1, <1>3
  <2>2. disk[c + 1] # Blank /\ n <= disk[1].count
    BY <2>1 DEF OnDrive
  <2> QED
    BY <1>1, <1>2, <1>3, <2>1, <2>2
<1>6. \A k \in 1..c : disk[k] \in DiskEntry
  BY <1>1, <1>3 DEF Disk
<1>7. p \in Seq(Entry) /\ Len(p) = c
  <2>1. \A k \in 1..c : p[k] \in Entry
    BY <1>6 DEF DiskEntry, Entry
  <2> QED
    BY <2>1, <1>3
<1>8. p[n].start = disk[n].start /\ p[n].sectors = disk[n].sectors /\ n \in 1..c
  BY <1>1, <1>5
<1> HIDE DEF p
<1>9. r \in Table /\ r.parts = p
  BY <1>7 DEF Table, Flags
<1>10. r # NoTable
  BY <1>9, NoneAssumption
<1> QED
  BY <1>4, <1>7, <1>8, <1>9, <1>10 DEF OnDrive

(* Every slot a tool reads is on the drive. *)
LEMMA ReadOnDrive ==
  ASSUME disk \in Disk, ReadTable # NoTable
  PROVE  /\ boot
         /\ Len(ReadTable.parts) <= MapSectors
         /\ ReadTable.flags = {}
         /\ \A n \in 1..Len(ReadTable.parts) : OnDrive(n, ReadTable.parts[n])
<1> DEFINE c == ReadCount
           p == [k \in 1..c |-> [start |-> disk[k].start, sectors |-> disk[k].sectors,
                                  type |-> disk[k].type, refs |-> 1]]
           r == [parts |-> p, refs |-> 0, flags |-> {}]
<1>1. MapSectors \in Nat /\ boot /\ disk[1] # Blank /\ ReadTable = r
  BY SizesAssumption DEF ReadTable
<1>2. /\ c \in 1..MapSectors
      /\ c = 1 \/ c <= disk[1].count
      /\ \A k \in 1..c : disk[k] # Blank
  BY <1>1, ReadCountFacts
<1> HIDE DEF c
<1>3. Len(p) = c
  BY <1>2
<1>4. \A n \in 1..c : OnDrive(n, p[n])
  <2> TAKE n \in 1..c
  <2>1. n \in 1..MapSectors /\ \A k \in 1..n : k \in 1..c
    BY <1>1, <1>2
  <2>2. p[n].start = disk[n].start /\ p[n].sectors = disk[n].sectors
    OBVIOUS
  <2>3. n = 1 \/ n <= disk[1].count
    <3>1. 1 \in 1..MapSectors /\ disk[1] \in DiskEntry
      BY <1>1, <1>2 DEF Disk
    <3>2. disk[1].count \in Nat
      BY <3>1 DEF DiskEntry
    <3> QED
      BY <1>2, <3>2
  <2> HIDE DEF p
  <2> QED
    BY <1>1, <1>2, <2>1, <2>2, <2>3 DEF OnDrive
<1> HIDE DEF p
<1> QED
  BY <1>1, <1>2, <1>3, <1>4

(* What ReadsBack says of a table that counts as written. *)
Changed(t) == t.flags \cap {"DIRTY", "NONINIT"} # {}
Agrees(t) ==
  /\ ReadTable # NoTable
  /\ Len(ReadTable.parts) <= Len(t.parts)
  /\ \A k \in 1..Len(ReadTable.parts) :
       /\ t.parts[k].start = ReadTable.parts[k].start
       /\ t.parts[k].sectors = ReadTable.parts[k].sectors
       /\ t.parts[k].type = ReadTable.parts[k].type
  /\ \A k \in (Len(ReadTable.parts) + 1)..Len(t.parts) : t.parts[k].type = "free"

LEMMA ReadsBackAgrees ==
  ReadsBack <=> (tab # NoTable /\ wr = Idle /\ ~Changed(tab) => Agrees(tab))
  BY Zenon DEF ReadsBack, Settled, Changed, Agrees

(* The table an operation starts from, cached or just read. *)
LEMMA CachedFacts ==
  ASSUME IInv, CInv, wr = Idle, Cached # NoTable
  PROVE  /\ Good(Cached)
         /\ FitsMap(Cached)
         /\ "NONINIT" \in Cached.flags => \A h \in Handles : ~Open(h)
         /\ "NONINIT" \notin Cached.flags => boot
         /\ ~Changed(Cached) => Agrees(Cached)
<1>0. Good(Cached)
  BY CachedGood
<1>1. CASE tab # NoTable
  <2>1. Cached = tab /\ wr # 0
    BY <1>1 DEF Cached, Idle
  <2>2. ~Changed(tab) => Agrees(tab)
    BY <1>1, ReadsBackAgrees DEF CInv
  <2> QED
    BY <1>0, <1>1, <2>1, <2>2 DEF CInv, TableFits, Fresh
<1>2. CASE tab = NoTable
  <2>1. Cached = ReadTable /\ ReadTable # NoTable /\ disk \in Disk
    BY <1>2 DEF Cached, IInv, TypeOK
  <2>2. boot /\ Len(ReadTable.parts) <= MapSectors /\ ReadTable.flags = {}
    BY <2>1, ReadOnDrive
  <2>3. ReadTable.parts \in Seq(Entry)
    BY <1>0, <2>1 DEF Good, Table
  <2>4. Agrees(ReadTable)
    BY <2>1, <2>3 DEF Agrees
  <2> QED
    BY <1>0, <2>1, <2>2, <2>4 DEF FitsMap
<1> QED
  BY <1>1, <1>2

(* A partition with data that the written table has is on the drive. *)
LEMMA AgreesOnDrive ==
  ASSUME disk \in Disk, NEW t \in Table, Agrees(t),
         NEW n \in 1..Len(t.parts), t.parts[n].type # "free"
  PROVE  OnDrive(n, t.parts[n])
<1>1. ReadTable # NoTable
  BY DEF Agrees
<1>2. ReadTable \in Table /\ Len(ReadTable.parts) \in Nat /\ Len(t.parts) \in Nat
  <2>1. ReadTable \in Table
    BY <1>1, ReadTableFacts
  <2> QED
    BY <2>1 DEF Table
<1>3. n \in 1..Len(ReadTable.parts)
  <2> SUFFICES ASSUME n \notin 1..Len(ReadTable.parts) PROVE FALSE
    OBVIOUS
  <2>1. n \in (Len(ReadTable.parts) + 1)..Len(t.parts)
    BY <1>2
  <2> QED
    BY <2>1 DEF Agrees
<1>4. OnDrive(n, ReadTable.parts[n])
  BY <1>1, <1>3, ReadOnDrive
<1> QED
  BY <1>3, <1>4 DEF Agrees, OnDrive

(* Appending free space and counting references keep that. *)
LEMMA AgreesKept ==
  ASSUME disk \in Disk, NEW t, NEW u, Agrees(t),
         Len(t.parts) \in Nat, Len(u.parts) \in Nat, Len(t.parts) <= Len(u.parts),
         \A k \in 1..Len(t.parts) : /\ u.parts[k].start = t.parts[k].start
                                    /\ u.parts[k].sectors = t.parts[k].sectors
                                    /\ u.parts[k].type = t.parts[k].type,
         \A k \in (Len(t.parts) + 1)..Len(u.parts) : u.parts[k].type = "free"
  PROVE  Agrees(u)
<1> DEFINE m == Len(ReadTable.parts)
<1>1. ReadTable # NoTable /\ m <= Len(t.parts)
  BY DEF Agrees
<1>2. m \in Nat
  <2>1. ReadTable \in Table
    BY <1>1, ReadTableFacts
  <2> QED
    BY <2>1 DEF Table
<1>3. \A k \in 1..m : k \in 1..Len(t.parts)
  BY <1>1, <1>2
<1>4. \A k \in (m + 1)..Len(u.parts) :
        k \in (m + 1)..Len(t.parts) \/ k \in (Len(t.parts) + 1)..Len(u.parts)
  BY <1>2
<1>5. \A k \in (m + 1)..Len(t.parts) : k \in 1..Len(t.parts)
  BY <1>2
<1>6. m <= Len(u.parts)
  BY <1>1, <1>2
<1> QED
  BY <1>1, <1>3, <1>4, <1>5, <1>6 DEF Agrees

(* The calls that change the cached table, and open or close files. *)
LEMMA TableCrash ==
  ASSUME IInv, CInv, wr = Idle, UNCHANGED <<boot, disk, wr>>, NEW t, tab' = t,
         FitsMap(t), t.flags \subseteq Flags,
         "NONINIT" \in t.flags => \A h \in Handles : ~Open(h)',
         "NONINIT" \notin t.flags => boot,
         ~Changed(t) => Agrees(t),
         \A h \in Handles : Open(h)' /\ file'[h].clean => OnDrive(file'[h].slot, file'[h])
  PROVE  CInv'
<1>1. ReadTable' = ReadTable
  BY DEF ReadTable, ReadCount
<1>2. CleanOnDrive'
  BY DEF CleanOnDrive, OnDrive
<1>3. ReadsBack'
  BY <1>1 DEF ReadsBack, Settled, Agrees, Changed
<1>4. TableFits'
  BY DEF TableFits, FitsMap, Fresh, Idle
<1>5. Writing' /\ Written'
  BY DEF Writing, Written, Idle
<1> QED
  BY <1>2, <1>3, <1>4, <1>5 DEF CInv

(* Calls that change nothing but the table. *)
LEMMA SameFiles ==
  ASSUME CInv, UNCHANGED file
  PROVE  /\ \A h \in Handles : Open(h)' <=> Open(h)
         /\ \A h \in Handles : Open(h)' /\ file'[h].clean => OnDrive(file'[h].slot, file'[h])
  BY DEF CInv, CleanOnDrive, Open

LEMMA LoadCrash ==
  ASSUME IInv, CInv, Load
  PROVE  CInv'
<1>1. wr = Idle /\ tab = NoTable /\ tab' = ReadTable /\ UNCHANGED <<boot, disk, file, wr>>
  BY DEF Load
<1>2. CASE ReadTable = NoTable
  BY <1>1, <1>2 DEF CInv, CleanOnDrive, OnDrive, Open, ReadsBack, Settled, TableFits,
                    Writing, Written, Idle
<1>3. CASE ReadTable # NoTable
  <2>1. Cached = ReadTable
    BY <1>1 DEF Cached
  <2>2. /\ Good(ReadTable) /\ FitsMap(ReadTable)
        /\ "NONINIT" \in ReadTable.flags => \A h \in Handles : ~Open(h)
        /\ "NONINIT" \notin ReadTable.flags => boot
        /\ ~Changed(ReadTable) => Agrees(ReadTable)
    BY <1>1, <1>3, <2>1, CachedFacts
  <2>3. ReadTable.flags \subseteq Flags
    BY <2>2 DEF Good, Table
  <2> QED
    BY <1>1, <2>2, <2>3, SameFiles, TableCrash
<1> QED
  BY <1>2, <1>3

LEMMA ValidateCrash ==
  ASSUME IInv, CInv, wr = Idle, Cached # NoTable, NEW v \in Validations(Cached),
         tab' = v.table, UNCHANGED <<boot, disk, file, wr>>
  PROVE  CInv'
<1> DEFINE t == Cached
           u == v.table
<1>1. /\ Good(t) /\ FitsMap(t)
      /\ "NONINIT" \in t.flags => \A h \in Handles : ~Open(h)
      /\ "NONINIT" \notin t.flags => boot
      /\ ~Changed(t) => Agrees(t)
  BY CachedFacts
<1>2. t \in Table /\ Len(t.parts) \in Nat
  BY <1>1 DEF Good, Table
<1>3. /\ u \in Table /\ Len(u.parts) >= Len(t.parts)
      /\ \A i \in 1..Len(t.parts) : u.parts[i] = t.parts[i]
      /\ \A i \in (Len(t.parts) + 1)..Len(u.parts) : u.parts[i].type = "free"
      /\ Len(u.parts) > Len(t.parts) => Len(u.parts) <= MapSectors
      /\ u.flags \ {"VALID"} = t.flags \ {"VALID"}
  BY <1>2, ValidationFacts
<1> HIDE DEF t, u
<1>4. Len(u.parts) \in Nat /\ u.flags \subseteq Flags
  BY <1>3 DEF Table
<1>5. FitsMap(u)
  BY <1>1, <1>2, <1>3, <1>4, SizesAssumption DEF FitsMap
<1>6. /\ "NONINIT" \in u.flags <=> "NONINIT" \in t.flags
      /\ Changed(u) <=> Changed(t)
  <2>1. \A f \in {"DIRTY", "NONINIT"} : f \in u.flags <=> f \in t.flags
    BY <1>3
  <2> QED
    BY <2>1 DEF Changed
<1>7. Agrees(t) => Agrees(u)
  <2>1. disk \in Disk
    BY DEF IInv, TypeOK
  <2> QED
    BY <1>2, <1>3, <1>4, <2>1, AgreesKept
<1>8. tab' = u
  BY DEF u
<1> QED
  BY <1>1, <1>4, <1>5, <1>6, <1>7, <1>8, SameFiles, TableCrash

LEMMA AddCrash ==
  ASSUME IInv, CInv, NEW size \in Sizes, NEW before \in 0..MapSectors, Add(size, before)
  PROVE  CInv'
<1>1. wr = Idle /\ Cached # NoTable /\ UNCHANGED <<boot, disk, file, wr>>
  BY DEF Add
<1>2. PICK v \in Validations(Cached) :
        LET q  == v.table.parts
            sp == FirstMovable(q)
        IN  /\ ~Refused(v, size, before)
            /\ \E i \in sp..Len(q) :
                 /\ q[i].start = FirstFit(q, sp, size)
                 /\ tab' = [v.table EXCEPT
                              !.parts = WithPartition(q, sp, q[i].start, size, before),
                              !.flags = @ \cup {"DIRTY"}]
  BY DEF Add
<1> DEFINE t == v.table
           q == t.parts
<1>3. PICK i \in FirstMovable(q)..Len(q) :
        tab' = [t EXCEPT !.parts = WithPartition(q, FirstMovable(q), q[i].start, size, before),
                         !.flags = @ \cup {"DIRTY"}]
  BY <1>2
<1>4. before \notin 2..(FirstMovable(q) - 1) /\ ~(Len(q) + 1 >= MapSectors)
  BY <1>2 DEF Refused
<1>5. TypeOK /\ Good(Cached) /\ Good(t)
  BY <1>1, CachedGood, ValidationGood DEF IInv
<1>6. t \in Table /\ q \in Seq(Entry) /\ Len(q) \in Nat /\ Len(q) >= 1
  BY <1>5 DEF Good, Table
<1>7. q[i] \in Entry
  <2>1. i \in 1..Len(q)
    BY <1>6, FirstMovableFacts
  <2> QED
    BY <1>6, <2>1
<1>8. q[i].start \in Nat /\ size \in Nat /\ before \in Nat
  BY <1>7, SizesAssumption DEF Entry
<1> DEFINE r == WithPartition(q, FirstMovable(q), q[i].start, size, before)
           u == [t EXCEPT !.parts = r, !.flags = @ \cup {"DIRTY"}]
<1>9. Good(u) /\ Len(r) <= Len(q) + 1
  BY <1>4, <1>5, <1>8, AddGood
<1>10. u.parts = r /\ u.flags = t.flags \cup {"DIRTY"} /\ tab' = u
  BY <1>3, <1>6 DEF Table
<1> HIDE DEF r, u
<1>11. r \in Seq(Entry) /\ u.flags \subseteq Flags
  BY <1>9, <1>10 DEF Good, Table
<1>12. FitsMap(u)
  BY <1>4, <1>6, <1>9, <1>10, <1>11, SizesAssumption DEF FitsMap
<1>13. /\ "NONINIT" \in Cached.flags => \A h \in Handles : ~Open(h)
       /\ "NONINIT" \notin Cached.flags => boot
  BY <1>1, CachedFacts
<1>14. "NONINIT" \in u.flags <=> "NONINIT" \in Cached.flags
  <2>1. t.flags \ {"VALID"} = Cached.flags \ {"VALID"}
    <3>1. Cached \in Table
      BY <1>5 DEF Good
    <3> QED
      BY <3>1, ValidationFacts
  <2> QED
    BY <1>10, <2>1
<1>15. Changed(u)
  BY <1>10 DEF Changed
<1> QED
  BY <1>1, <1>10, <1>11, <1>12, <1>13, <1>14, <1>15, SameFiles, TableCrash

LEMMA InitTableCrash ==
  ASSUME IInv, CInv, InitTable
  PROVE  CInv'
<1> DEFINE e == [start |-> 1, sectors |-> MapSectors, type |-> "map", refs |-> 1]
           u == [parts |-> <<e>>, refs |-> 0, flags |-> {"NONINIT"}]
<1>1. wr = Idle /\ tab' = u /\ UNCHANGED <<boot, disk, file, wr>>
  BY DEF InitTable
<1>2. \A h \in Handles : ~Open(h)
  BY DroppableUnused DEF InitTable
<1>3. Len(u.parts) = 1 /\ u.flags = {"NONINIT"}
  OBVIOUS
<1> HIDE DEF u
<1>4. FitsMap(u) /\ u.flags \subseteq Flags /\ Changed(u)
  BY <1>3, SizesAssumption DEF FitsMap, Flags, Changed
<1> QED
  BY <1>1, <1>2, <1>3, <1>4, SameFiles, TableCrash

(* Counting references leaves what the table describes alone. *)
LEMMA CountedFacts ==
  ASSUME disk \in Disk, NEW t \in Table, NEW n \in 1..Len(t.parts), NEW d \in Int,
         t.parts[n].refs + d \in Nat
  PROVE  /\ Len(Counted(t, n, d).parts) = Len(t.parts)
         /\ Counted(t, n, d).flags = t.flags
         /\ Agrees(t) => Agrees(Counted(t, n, d))
<1> DEFINE u == Counted(t, n, d)
           p == Ref(t.parts, n, d)
<1>1. t.parts \in Seq(Entry) /\ Len(t.parts) \in Nat
  BY DEF Table
<1>2. /\ Len(p) = Len(t.parts)
      /\ \A i \in 1..Len(t.parts) : /\ p[i].start = t.parts[i].start
                                    /\ p[i].sectors = t.parts[i].sectors
                                    /\ p[i].type = t.parts[i].type
  BY <1>1, RefFacts
<1>3. u.parts = p /\ u.flags = t.flags
  BY DEF Counted
<1> HIDE DEF p, u
<1>4. Agrees(t) => Agrees(u)
  <2>1. \A k \in (Len(t.parts) + 1)..Len(u.parts) : FALSE
    BY <1>1, <1>2, <1>3
  <2> QED
    BY <1>1, <1>2, <1>3, <2>1, AgreesKept
<1> QED
  BY <1>2, <1>3, <1>4 DEF u

LEMMA OpenCrash ==
  ASSUME IInv, CInv, NEW h \in Handles, NEW n \in 1..MapSectors, OpenPart(h, n)
  PROVE  CInv'
<1> DEFINE t == Cached
           u == Counted(t, n, 1)
           F == [slot |-> n, start |-> t.parts[n].start, sectors |-> t.parts[n].sectors,
                 clean |-> "DIRTY" \notin t.flags]
<1>1. /\ wr = Idle /\ t # NoTable /\ n <= Len(t.parts) /\ t.parts[n].type # "free"
      /\ "NONINIT" \notin t.flags
      /\ tab' = u /\ file' = [file EXCEPT ![h] = F]
      /\ UNCHANGED <<boot, disk, wr>>
  BY DEF OpenPart
<1>2. /\ Good(t) /\ FitsMap(t) /\ boot
      /\ ~Changed(t) => Agrees(t)
  BY <1>1, CachedFacts
<1>3. /\ disk \in Disk
      /\ file \in [Handles -> [slot : Nat, start : Nat, sectors : Nat, clean : BOOLEAN]]
  BY DEF IInv, TypeOK
<1> HIDE DEF t, u
<1>4. /\ t \in Table /\ t.parts \in Seq(Entry) /\ Len(t.parts) \in Nat /\ t.flags \subseteq Flags
      /\ n \in 1..Len(t.parts)
  BY <1>1, <1>2, SizesAssumption DEF Good, Table
<1>5. t.parts[n].refs + 1 \in Nat
  <2>1. t.parts[n] \in Entry
    BY <1>4
  <2> QED
    BY <2>1 DEF Entry
<1>6. /\ Len(u.parts) = Len(t.parts) /\ u.flags = t.flags
      /\ Agrees(t) => Agrees(u)
  BY <1>3, <1>4, <1>5, CountedFacts DEF u
<1>7. FitsMap(u) /\ (Changed(u) <=> Changed(t))
  BY <1>2, <1>6 DEF FitsMap, Changed
<1>8. F.clean => OnDrive(F.slot, F)
  <2> SUFFICES ASSUME F.clean PROVE OnDrive(F.slot, F)
    OBVIOUS
  <2>1. ~Changed(t)
    BY <1>1, <1>4 DEF Changed
  <2>2. OnDrive(n, t.parts[n])
    BY <1>1, <1>2, <1>3, <1>4, <2>1, AgreesOnDrive
  <2> QED
    BY <2>2 DEF OnDrive
<1> HIDE DEF F
<1>9. \A x \in Handles : Open(x)' /\ file'[x].clean => OnDrive(file'[x].slot, file'[x])
  <2> TAKE x \in Handles
  <2>1. CASE x = h
    BY <2>1, <1>1, <1>3, <1>8
  <2>2. CASE x # h
    BY <2>2, <1>1, <1>3 DEF CInv, CleanOnDrive, Open
  <2> QED
    BY <2>1, <2>2
<1> QED
  BY <1>1, <1>2, <1>4, <1>6, <1>7, <1>9, TableCrash

LEMMA CloseCrash ==
  ASSUME IInv, CInv, NEW h \in Handles, ClosePart(h)
  PROVE  CInv'
<1>0. PICK n : n = file[h].slot
  OBVIOUS
<1> DEFINE u == Counted(tab, n, -1)
<1>1. /\ wr = Idle /\ Open(h) /\ tab' = u /\ file' = [file EXCEPT ![h] = Closed]
      /\ UNCHANGED <<boot, disk, wr>>
  BY <1>0 DEF ClosePart
<1>2. Good(tab) /\ tab # NoTable
  BY <1>1 DEF IInv
<1>3. /\ disk \in Disk
      /\ file \in [Handles -> [slot : Nat, start : Nat, sectors : Nat, clean : BOOLEAN]]
  BY DEF IInv, TypeOK
<1> HIDE DEF u
<1>4. /\ tab \in Table /\ tab.parts \in Seq(Entry) /\ Len(tab.parts) \in Nat
      /\ tab.flags \subseteq Flags /\ n \in 1..Len(tab.parts)
  BY <1>0, <1>1, <1>2, <1>3 DEF Good, Table, Open
<1>5. tab.parts[n].refs + (-1) \in Nat
  <2>1. tab.parts[n].refs = 1 + Cardinality(Users(n))
    BY <1>2, <1>4 DEF Good
  <2>2. Cardinality(Users(n)) \in Nat
    BY HandleSets DEF Users
  <2> QED
    BY <2>1, <2>2
<1>6. /\ Len(u.parts) = Len(tab.parts) /\ u.flags = tab.flags
      /\ Agrees(tab) => Agrees(u)
  BY <1>3, <1>4, <1>5, CountedFacts DEF u
<1>7. /\ FitsMap(u) /\ (Changed(u) <=> Changed(tab))
      /\ "NONINIT" \notin u.flags /\ boot
  BY <1>1, <1>2, <1>6 DEF CInv, TableFits, Fresh, FitsMap, Changed, Idle
<1>8. ~Changed(u) => Agrees(u)
  BY <1>1, <1>2, <1>6, <1>7, ReadsBackAgrees DEF CInv
<1>9. \A x \in Handles : Open(x)' /\ file'[x].clean => OnDrive(file'[x].slot, file'[x])
  <2> TAKE x \in Handles
  <2>1. CASE x = h
    BY <2>1, <1>1, <1>3 DEF Open, Closed
  <2>2. CASE x # h
    BY <2>2, <1>1, <1>3 DEF CInv, CleanOnDrive, Open
  <2> QED
    BY <2>1, <2>2
<1> QED
  BY <1>1, <1>4, <1>6, <1>7, <1>8, <1>9, TableCrash

-----------------------------------------------------------------------------
(* The write, sector by sector. *)
LEMMA BeginWriteCrash ==
  ASSUME IInv, CInv, BeginWrite
  PROVE  CInv'
<1> DEFINE u == [tab EXCEPT !.flags = @ \ {"NONINIT"}]
<1>1. /\ wr = Idle /\ tab # NoTable /\ "DIRTY" \in tab.flags /\ tab' = u
      /\ wr' = IF "NONINIT" \in tab.flags THEN 0 ELSE 1
      /\ UNCHANGED <<boot, disk, file>>
  BY DEF BeginWrite
<1>2. u.parts = tab.parts /\ u.flags = tab.flags \ {"NONINIT"}
  BY <1>1 DEF IInv, Good, Table
<1> HIDE DEF u
<1>3. wr' # Idle /\ wr # 0
  BY <1>1 DEF Idle
<1>4. CleanOnDrive'
  BY <1>1 DEF CInv, CleanOnDrive, OnDrive, Open
<1>5. ReadsBack' /\ Writing'
  BY <1>1, <1>2, <1>3 DEF ReadsBack, Settled, Writing
<1>6. TableFits'
  BY <1>1, <1>2, <1>3 DEF CInv, TableFits, FitsMap, Fresh, Open
<1>7. Written'
  BY <1>1 DEF Written
<1> QED
  BY <1>4, <1>5, <1>6, <1>7 DEF CInv

LEMMA WriteBootCrash ==
  ASSUME IInv, CInv, WriteBoot
  PROVE  CInv'
<1>1. wr = 0 /\ boot' = TRUE /\ wr' = 1 /\ UNCHANGED <<disk, tab, file>>
  BY DEF WriteBoot
<1>2. tab # NoTable
  BY <1>1 DEF IInv, Idle
<1>3. \A h \in Handles : ~Open(h)
  BY <1>1, <1>2 DEF CInv, TableFits, Fresh
<1>4. CleanOnDrive'
  BY <1>1, <1>3 DEF CleanOnDrive, Open
<1>5. ReadsBack' /\ Writing' /\ Written'
  BY <1>1 DEF CInv, ReadsBack, Settled, Writing, Written, Idle
<1>6. TableFits'
  BY <1>1, <1>2, <1>3 DEF CInv, TableFits, FitsMap, Fresh, Open
<1> QED
  BY <1>4, <1>5, <1>6 DEF CInv

(* What is in use is behind no blank sector and is written as it was. *)
LEMMA WriteSectorCrash ==
  ASSUME IInv, CInv, WriteSector
  PROVE  CInv'
<1> DEFINE q == tab.parts
           m == MapSector(q, wr)
<1>1. /\ wr > 0 /\ wr <= Len(q) + 1 /\ wr <= MapSectors
      /\ disk' = [disk EXCEPT ![wr] = m] /\ wr' = wr + 1
      /\ UNCHANGED <<boot, tab, file>>
  BY DEF WriteSector
<1>2. /\ MapSectors \in Nat /\ wr \in 1..MapSectors /\ wr # Idle /\ wr' # Idle /\ wr' # 0
      /\ disk \in [1..MapSectors -> DiskEntry \cup {Blank}]
      /\ file \in [Handles -> [slot : Nat, start : Nat, sectors : Nat, clean : BOOLEAN]]
  BY <1>1, SizesAssumption DEF IInv, TypeOK, Idle, Disk
<1>3. Good(tab) /\ tab # NoTable
  BY <1>2 DEF IInv
<1>4. q \in Seq(Entry) /\ Len(q) \in Nat /\ Len(q) >= 1
  BY <1>3 DEF Good, Table
<1> HIDE DEF q
<1>5. /\ \A k \in 1..MapSectors : disk'[k] = IF k = wr THEN m ELSE disk[k]
  BY <1>1, <1>2
<1>6. wr \in 1..Len(q) =>
        m # Blank /\ m.count = Len(q) /\ m.start = q[wr].start /\ m.sectors = q[wr].sectors
  <2> SUFFICES ASSUME wr \in 1..Len(q)
               PROVE  /\ m # Blank /\ m.count = Len(q)
                      /\ m.start = q[wr].start /\ m.sectors = q[wr].sectors
    OBVIOUS
  <2>1. m = [count |-> Len(q), start |-> q[wr].start, sectors |-> q[wr].sectors,
             type |-> q[wr].type]
    BY <1>4 DEF MapSector
  <2>2. q[wr] \in Entry
    BY <1>4
  <2>3. m \in DiskEntry
    BY <1>4, <2>1, <2>2 DEF DiskEntry, Entry
  <2>4. m # Blank
    BY <2>3, NoneAssumption
  <2> HIDE DEF m
  <2> QED
    BY <2>1, <2>4
<1> HIDE DEF m
<1>7. ASSUME NEW h \in Handles, Open(h), OnDrive(file[h].slot, file[h])
      PROVE  OnDrive(file[h].slot, file[h])'
  <2>0. PICK n : n = file[h].slot
    OBVIOUS
  <2>1. /\ n \in 1..MapSectors /\ n <= Len(q)
        /\ q[n].start = file[h].start /\ q[n].sectors = file[h].sectors
    BY <2>0, <1>3, <1>7 DEF Good, OnDrive, q
  <2>2. \A k \in 1..n : k \in 1..MapSectors /\ k \in 1..Len(q) /\ disk[k] # Blank
    BY <2>0, <2>1, <1>2, <1>4, <1>7 DEF OnDrive
  <2>3. \A k \in 1..n : disk'[k] # Blank
    BY <2>2, <1>5, <1>6
  <2>4. n = 1 \/ n <= disk'[1].count
    <3>1. 1 \in 1..n /\ 1 \in 1..MapSectors /\ 1 \in 1..Len(q)
      BY <2>1, <1>2, <1>4
    <3>2. n = 1 \/ n <= disk[1].count
      BY <2>0, <1>7 DEF OnDrive
    <3> QED
      BY <3>1, <3>2, <2>1, <1>5, <1>6
  <2>5. disk'[n].start = file[h].start /\ disk'[n].sectors = file[h].sectors
    <3>1. n \in 1..n
      BY <2>1
    <3>2. disk[n].start = file[h].start /\ disk[n].sectors = file[h].sectors
      BY <2>0, <1>7 DEF OnDrive
    <3> QED
      BY <3>1, <3>2, <2>1, <2>2, <1>5, <1>6
  <2>6. boot /\ boot' = boot /\ file' = file
    BY <1>1, <1>7 DEF OnDrive
  <2> QED
    BY <2>0, <2>1, <2>3, <2>4, <2>5, <2>6 DEF OnDrive
<1>8. CleanOnDrive'
  BY <1>1, <1>7 DEF CInv, CleanOnDrive, Open
<1>9. ReadsBack' /\ Writing'
  BY <1>1, <1>2 DEF CInv, ReadsBack, Settled, Writing
<1>10. TableFits'
  BY <1>1, <1>2 DEF CInv, TableFits, FitsMap, Fresh, Open
<1>11. Written'
  <2>1. \A k \in 1..wr : disk'[k] = MapSector(q, k)
    <3> TAKE k \in 1..wr
    <3>1. k \in 1..MapSectors
      BY <1>2
    <3>2. CASE k = wr
      BY <3>1, <3>2, <1>5 DEF m
    <3>3. CASE k # wr
      <4>1. k \in 1..(wr - 1)
        BY <3>3, <1>2
      <4> QED
        BY <3>1, <3>3, <4>1, <1>1, <1>5 DEF CInv, Written, q
    <3> QED
      BY <3>2, <3>3
  <2>2. wr' - 1 = wr /\ tab' = tab
    BY <1>1, <1>2
  <2> QED
    BY <2>1, <2>2 DEF Written, q
<1> QED
  BY <1>8, <1>9, <1>10, <1>11 DEF CInv

(* When the write ends, the drive holds the table, entry for entry. *)
LEMMA WrittenOnDrive ==
  ASSUME IInv, CInv, EndWrite
  PROVE  /\ \A n \in 1..Len(tab.parts) : OnDrive(n, tab.parts[n])
         /\ Agrees(tab)
<1> DEFINE q == tab.parts
           L == Len(q)
           c == ReadCount
           p == [k \in 1..c |-> [start |-> disk[k].start, sectors |-> disk[k].sectors,
                                  type |-> disk[k].type, refs |-> 1]]
           r == [parts |-> p, refs |-> 0, flags |-> {}]
<1>1. /\ wr > 0 /\ wr # Idle /\ wr \in Nat /\ MapSectors \in Nat /\ disk \in Disk
      /\ wr > L + 1 \/ wr > MapSectors
  BY SizesAssumption DEF EndWrite, IInv, TypeOK, Idle
<1>2. Good(tab) /\ tab # NoTable
  BY <1>1 DEF IInv
<1>3. q \in Seq(Entry) /\ L \in Nat /\ L >= 1
  BY <1>2 DEF Good, Table
<1>4. boot /\ L <= MapSectors
  BY <1>1, <1>2 DEF CInv, TableFits, Fresh, FitsMap, Writing
<1> HIDE DEF q, L
<1>5. \A k \in 1..L : k \in 1..(wr - 1) /\ k \in 1..MapSectors /\ ~(k > L)
  BY <1>1, <1>3, <1>4
<1>6. \A k \in 1..L : disk[k] = [count |-> L, start |-> q[k].start, sectors |-> q[k].sectors,
                                   type |-> q[k].type]
  <2> TAKE k \in 1..L
  <2>1. disk[k] = MapSector(q, k)
    BY <1>1, <1>5 DEF CInv, Written, q
  <2> QED
    BY <2>1, <1>5 DEF MapSector, L
<1>7. \A k \in 1..L : /\ disk[k] # Blank /\ disk[k].count = L
                        /\ disk[k].start = q[k].start /\ disk[k].sectors = q[k].sectors
                        /\ disk[k].type = q[k].type
  <2> TAKE k \in 1..L
  <2>1. q[k] \in Entry
    BY <1>3 DEF L
  <2> DEFINE e == [count |-> L, start |-> q[k].start, sectors |-> q[k].sectors,
                   type |-> q[k].type]
  <2>2. e \in DiskEntry
    BY <1>3, <2>1 DEF DiskEntry, Entry
  <2>3. disk[k] = e
    BY <1>6
  <2>4. /\ e.count = L /\ e.start = q[k].start /\ e.sectors = q[k].sectors
        /\ e.type = q[k].type
    OBVIOUS
  <2> HIDE DEF e
  <2> QED
    BY <2>2, <2>3, <2>4, NoneAssumption
<1>8. \A n \in 1..L : OnDrive(n, q[n])
  <2> TAKE n \in 1..L
  <2>1. \A k \in 1..n : k \in 1..L
    BY <1>3
  <2>2. 1 \in 1..L /\ n <= L
    BY <1>3
  <2> QED
    BY <1>4, <1>5, <1>7, <2>1, <2>2 DEF OnDrive
<1>9. L < MapSectors => disk[L + 1] = Blank
  <2> SUFFICES ASSUME L < MapSectors PROVE disk[L + 1] = Blank
    OBVIOUS
  <2>1. L + 1 \in 1..(wr - 1) /\ L + 1 > L
    BY <1>1, <1>3
  <2>2. disk[L + 1] = MapSector(q, L + 1)
    BY <1>1, <2>1 DEF CInv, Written, q
  <2> QED
    BY <2>1, <2>2 DEF MapSector, L
<1>10. c = L
  <2>1. 1 \in 1..L
    BY <1>3
  <2>2. /\ c \in 1..MapSectors
        /\ c = 1 \/ c <= disk[1].count
        /\ \A k \in 1..c : disk[k] # Blank
        /\ c >= disk[1].count \/ c = MapSectors \/ disk[c + 1] = Blank
    BY <1>1, <1>7, <2>1, ReadCountFacts
  <2> HIDE DEF c
  <2>3. disk[1].count = L
    BY <1>7, <2>1
  <2>4. c <= L
    BY <1>3, <2>2, <2>3
  <2>5. ~(c < L)
    <3> SUFFICES ASSUME c < L PROVE FALSE
      OBVIOUS
    <3>1. c + 1 \in 1..L
      BY <1>3, <2>2
    <3> QED
      BY <1>3, <1>4, <1>7, <2>2, <2>3, <3>1
  <2> QED
    BY <1>3, <2>2, <2>4, <2>5
<1>11. ReadTable = r
  <2>1. disk[1] # Blank
    BY <1>3, <1>7
  <2> QED
    BY <2>1, <1>4 DEF ReadTable
<1>12. Len(p) = L /\ p \in Seq(Entry)
  <2>1. \A k \in 1..L : q[k] \in Entry
    BY <1>3 DEF L
  <2> HIDE DEF c
  <2>2. \A k \in 1..L : p[k] \in Entry
    BY <1>7, <1>10, <2>1 DEF Entry
  <2> QED
    BY <1>3, <1>10, <2>2
<1>13. \A k \in 1..L : /\ p[k].start = q[k].start /\ p[k].sectors = q[k].sectors
                         /\ p[k].type = q[k].type
  <2> HIDE DEF c
  <2> QED
    BY <1>7, <1>10
<1> HIDE DEF p
<1>14. r \in Table /\ r.parts = p
  BY <1>12 DEF Table, Flags
<1>15. Agrees(tab)
  <2>1. \A k \in (L + 1)..L : FALSE
    BY <1>3
  <2>2. r # NoTable
    BY <1>14, NoneAssumption
  <2> HIDE DEF r
  <2> QED
    BY <1>3, <1>11, <1>12, <1>13, <1>14, <2>1, <2>2 DEF Agrees, q, L
<1> QED
  BY <1>8, <1>15 DEF q, L

LEMMA EndWriteCrash ==
  ASSUME IInv, CInv, EndWrite
  PROVE  CInv'
<1> DEFINE u == [tab EXCEPT !.flags = @ \ {"DIRTY"}]
<1>1. /\ wr > 0 /\ wr # Idle /\ wr # 0 /\ tab' = u /\ wr' = Idle /\ UNCHANGED <<boot, disk>>
      /\ file' = [h \in Handles |-> IF Open(h) THEN [file[h] EXCEPT !.clean = TRUE] ELSE Closed]
  BY DEF EndWrite, Idle
<1>2. Good(tab) /\ tab # NoTable
  BY <1>1 DEF IInv
<1>3. file \in [Handles -> [slot : Nat, start : Nat, sectors : Nat, clean : BOOLEAN]]
  BY DEF IInv, TypeOK
<1>4. u.parts = tab.parts /\ u.flags = tab.flags \ {"DIRTY"}
  BY <1>2 DEF Good, Table
<1> HIDE DEF u
<1>5. boot /\ FitsMap(tab) /\ "NONINIT" \notin tab.flags
  BY <1>1, <1>2 DEF CInv, TableFits, Fresh, Writing
<1>6. \A h \in Handles : Open(h)' => /\ Open(h)
                                     /\ file'[h].slot = file[h].slot
                                     /\ file'[h].start = file[h].start
                                     /\ file'[h].sectors = file[h].sectors
  BY <1>1, <1>3 DEF Open, Closed
<1>7. CleanOnDrive'
  <2> SUFFICES ASSUME NEW h \in Handles, Open(h)'
               PROVE  OnDrive(file[h].slot, file[h])'
    BY DEF CleanOnDrive
  <2>1. PICK n : n = file[h].slot
    OBVIOUS
  <2>2. n \in 1..Len(tab.parts)
    BY <2>1, <1>2, <1>3, <1>6 DEF Good, Table, Open
  <2>3. OnDrive(n, tab.parts[n])
    BY <2>2, WrittenOnDrive
  <2>4. tab.parts[n].start = file[h].start /\ tab.parts[n].sectors = file[h].sectors
    BY <2>1, <1>2, <1>6 DEF Good
  <2> QED
    BY <2>1, <2>3, <2>4, <1>1, <1>6 DEF OnDrive
<1>8. ReadsBack'
  <2>1. Agrees(tab)
    BY WrittenOnDrive
  <2>2. ReadTable' = ReadTable
    BY <1>1 DEF ReadTable, ReadCount
  <2> QED
    BY <1>1, <1>4, <2>1, <2>2 DEF ReadsBack, Agrees
<1>9. TableFits' /\ Writing' /\ Written'
  BY <1>1, <1>4, <1>5 DEF TableFits, FitsMap, Fresh, Writing, Written, Idle
<1> QED
  BY <1>7, <1>8, <1>9 DEF CInv

LEMMA WriteFailsCrash ==
  ASSUME BootWritable, IInv, CInv, WriteFails
  PROVE  CInv'
<1>1. /\ wr \in BadSectors /\ wr # 0 /\ wr # Idle /\ wr' = Idle
      /\ UNCHANGED <<boot, disk, tab, file>>
  BY SizesAssumption DEF WriteFails, BootWritable, Idle
<1>2. tab # NoTable /\ "DIRTY" \in tab.flags /\ "NONINIT" \notin tab.flags
  BY <1>1 DEF IInv, CInv, Writing
<1>3. CleanOnDrive'
  BY <1>1 DEF CInv, CleanOnDrive, OnDrive, Open
<1>4. ReadsBack'
  BY <1>1, <1>2 DEF ReadsBack, Settled
<1>5. TableFits' /\ Writing' /\ Written'
  BY <1>1, <1>2 DEF CInv, TableFits, FitsMap, Fresh, Writing, Written, Idle, Open
<1> QED
  BY <1>3, <1>4, <1>5 DEF CInv

LEMMA ToolEndsCrash ==
  ASSUME CInv, ToolEnds
  PROVE  CInv'
<1>1. tab' = NoTable /\ wr' = Idle /\ file' = [h \in Handles |-> Closed]
  BY DEF ToolEnds
<1> QED
  BY <1>1 DEF CInv, CleanOnDrive, ReadsBack, Settled, TableFits, Writing, Written,
              Open, Closed, Idle

-----------------------------------------------------------------------------
LEMMA InitCrash == Init => CInv
  BY DEF Init, CInv, CleanOnDrive, ReadsBack, Settled, TableFits, Writing, Written,
         Open, Closed, Idle

LEMMA NextCrash ==
  ASSUME BootWritable, IInv, CInv, [Next]_vars
  PROVE  CInv'
<1>1. CASE Load
  BY <1>1, LoadCrash
<1>2. CASE QueryFree
  BY <1>2, ValidateCrash DEF QueryFree
<1>3. ASSUME NEW size \in Sizes, NEW before \in 0..MapSectors, AddFails(size, before)
      PROVE  CInv'
  BY <1>3, ValidateCrash DEF AddFails
<1>4. ASSUME NEW size \in Sizes, NEW before \in 0..MapSectors, Add(size, before)
      PROVE  CInv'
  BY <1>4, AddCrash
<1>5. CASE InitTable
  BY <1>5, InitTableCrash
<1>6. ASSUME NEW h \in Handles, NEW n \in 1..MapSectors, OpenPart(h, n)
      PROVE  CInv'
  BY <1>6, OpenCrash
<1>7. ASSUME NEW h \in Handles, ClosePart(h)
      PROVE  CInv'
  BY <1>7, CloseCrash
<1>8. CASE BeginWrite
  BY <1>8, BeginWriteCrash
<1>9. CASE WriteBoot
  BY <1>9, WriteBootCrash
<1>10. CASE WriteSector
  BY <1>10, WriteSectorCrash
<1>11. CASE EndWrite
  BY <1>11, EndWriteCrash
<1>12. CASE WriteFails
  BY <1>12, WriteFailsCrash
<1>13. CASE ToolEnds
  BY <1>13, ToolEndsCrash
<1>14. CASE UNCHANGED vars
  <2>1. UNCHANGED <<boot, disk, tab, file, wr>> /\ ReadTable' = ReadTable
    BY <1>14 DEF vars, ReadTable, ReadCount
  <2>2. CleanOnDrive'
    BY <2>1 DEF CInv, CleanOnDrive, OnDrive, Open
  <2>3. ReadsBack'
    BY <2>1 DEF CInv, ReadsBack, Settled
  <2>4. TableFits' /\ Writing' /\ Written'
    BY <2>1 DEF CInv, TableFits, FitsMap, Fresh, Writing, Written, Open
  <2> QED
    BY <2>2, <2>3, <2>4 DEF CInv
<1> QED
  BY <1>1, <1>2, <1>3, <1>4, <1>5, <1>6, <1>7, <1>8, <1>9, <1>10, <1>11, <1>12, <1>13, <1>14
     DEF Next

LEMMA CrashInductive ==
  ASSUME BootWritable
  PROVE  Spec => []CInv
<1>1. Init => CInv
  BY InitCrash
<1>2. IInv /\ CInv /\ [Next]_vars => CInv'
  BY NextCrash
<1> QED
  BY <1>1, <1>2, Inductive, PTL DEF Spec

(* A tool may die after any sector of tivo_partition_table_write, or the   *)
(* write may fail there: the next tool finds every partition that was in   *)
(* use at the same number, start and size.                                 *)
THEOREM CrashTheorem ==
  ASSUME BootWritable
  PROVE  Spec => []InUseSurvivesCrash
<1>1. IInv /\ CInv => InUseSurvivesCrash
  <2> SUFFICES ASSUME IInv, CInv, NEW h \in Handles, Open(h), file[h].clean
               PROVE  /\ ReadTable # NoTable
                      /\ file[h].slot <= Len(ReadTable.parts)
                      /\ ReadTable.parts[file[h].slot].start = file[h].start
                      /\ ReadTable.parts[file[h].slot].sectors = file[h].sectors
    BY DEF InUseSurvivesCrash
  <2>1. OnDrive(file[h].slot, file[h]) /\ disk \in Disk
    BY DEF CInv, CleanOnDrive, IInv, TypeOK
  <2>2. ReadTable \in Table \/ ReadTable = NoTable
    BY <2>1, ReadTableFacts
  <2> QED
    BY <2>1, <2>2, OnDriveRead DEF Table
<1> QED
  BY <1>1, CrashInductive, Inductive, PTL

(* "Writes a partition table back to disk": once the write has ended, and  *)
(* as long as no call changes the table, every entry the next tool reads   *)
(* is the one in memory.                                                   *)
THEOREM ReadsBackTheorem ==
  ASSUME BootWritable
  PROVE  Spec => []ReadsBack
<1>1. CInv => ReadsBack
  BY DEF CInv
<1> QED
  BY <1>1, CrashInductive, PTL
-----------------------------------------------------------------------------
(***************************************************************************)
(* A validated table tiles the device, for every device, map, set of sizes *)
(* and sequence of calls, as long as writes succeed; the search for free   *)
(* space is exact, and adding a partition takes free space only.  On every *)
(* map, a table that counts as written is the one the next tool reads.     *)
(***************************************************************************)

(* A function may be defined by recursion along next, if a bounded measure   *)
(* goes down.                                                               *)
GoesDown(X, Stop, next, mu) == \A x \in X : x \notin Stop => mu[next[x]] < mu[x]
Unfolds(f, X, Stop, base, next, post) ==
  \A x \in X : f[x] = IF x \in Stop THEN base[x] ELSE post[<<x, f[next[x]]>>]

LEMMA BoundedRecursion ==
  ASSUME NEW X, NEW S, NEW M \in Nat, NEW Stop, NEW base \in [X -> S], NEW next \in [X -> X],
         NEW post \in [X \X S -> S], NEW mu \in [X -> 0..M],
         GoesDown(X, Stop, next, mu)
  PROVE  \E f \in [X -> S] : Unfolds(f, X, Stop, base, next, post)
<1> USE DEF GoesDown, Unfolds
<1> DEFINE T(g, x) == IF x \in Stop THEN base[x] ELSE post[<<x, g[next[x]]>>]
           Upto(k) == \E g \in [X -> S] : \A x \in X : mu[x] < k => g[x] = T(g, x)
           Bad == {k \in 0..(M + 1) : ~Upto(k)}
<1>1. Upto(0)
  <2>1. \A x \in X : ~(mu[x] < 0)
    OBVIOUS
  <2> QED
    BY <2>1
<1>2. ASSUME NEW k \in Nat, Upto(k)
      PROVE  Upto(k + 1)
  <2>1. PICK g \in [X -> S] : \A x \in X : mu[x] < k => g[x] = T(g, x)
    BY <1>2
  <2> DEFINE h == [x \in X |-> T(g, x)]
  <2>2. h \in [X -> S]
    OBVIOUS
  <2>3. \A x \in X : h[x] = T(g, x)
    OBVIOUS
  <2> HIDE DEF h
  <2>4. \A x \in X : mu[x] < k + 1 => h[x] = T(h, x)
    <3> SUFFICES ASSUME NEW x \in X, mu[x] < k + 1, x \notin Stop
                 PROVE  g[next[x]] = h[next[x]]
      BY <2>3
    <3>1. next[x] \in X /\ mu[next[x]] \in Nat /\ mu[x] \in Nat
      OBVIOUS
    <3>2. mu[next[x]] < mu[x]
      OBVIOUS
    <3>3. mu[next[x]] < k
      BY <3>1, <3>2
    <3> HIDE DEF T
    <3> QED
      BY <3>1, <3>3, <2>1, <2>3
  <2> HIDE DEF T
  <2> QED
    BY <2>2, <2>4
<1>3. Bad = {}
  <2> SUFFICES ASSUME Bad # {} PROVE FALSE
    OBVIOUS
  <2>1. PICK k \in Bad : \A y \in Bad : k <= y
    <3>1. Bad \subseteq Nat
      OBVIOUS
    <3> HIDE DEF Bad
    <3> QED
      BY <3>1, LeastNat
  <2>2. k \in 0..(M + 1) /\ ~Upto(k)
    OBVIOUS
  <2> HIDE DEF Upto
  <2>3. k # 0
    BY <2>2, <1>1
  <2>4. k - 1 \in 0..(M + 1) /\ ~(k <= k - 1) /\ k - 1 \in Nat /\ k - 1 + 1 = k
    BY <2>2, <2>3
  <2>5. Upto(k - 1)
    <3>1. k - 1 \notin Bad
      <4> HIDE DEF Bad
      <4> QED
        BY <2>1, <2>4
    <3> QED
      BY <3>1, <2>4
  <2> QED
    BY <2>2, <2>4, <2>5, <1>2
<1>4. Upto(M + 1)
  <2> HIDE DEF Upto
  <2>1. M + 1 \in 0..(M + 1)
    OBVIOUS
  <2> QED
    BY <2>1, <1>3
<1>5. \A x \in X : mu[x] < M + 1
  OBVIOUS
<1> QED
  BY <1>4, <1>5

(* The closest of some partitions is one of them, the only one before all.   *)
LEMMA ClosestFirst ==
  ASSUME NEW q \in Seq(Entry), NEW I, I # {}, \A i \in I : i \in 1..Len(q)
  PROVE  Closest(q, I) \in I /\ \A j \in I : Before(q, Closest(q, I), j)
<1> DEFINE Starts == {q[i].start : i \in I}
<1>1. \A i \in I : i \in Nat /\ q[i].start \in Nat
  <2> TAKE i \in I
  <2>1. i \in 1..Len(q)
    OBVIOUS
  <2>2. q[i] \in Entry
    BY <2>1
  <2> QED
    BY <2>1, <2>2 DEF Entry
<1>2. PICK s \in Starts : \A y \in Starts : s <= y
  <2>1. Starts \subseteq Nat /\ Starts # {}
    BY <1>1
  <2> HIDE DEF Starts
  <2> QED
    BY <2>1, LeastNat
<1> DEFINE J == {i \in I : q[i].start = s}
<1>3. PICK i \in J : \A j \in J : i <= j
  <2>1. J \subseteq Nat /\ J # {}
    BY <1>1
  <2> HIDE DEF J
  <2> QED
    BY <2>1, LeastNat
<1>4. i \in I /\ \A j \in I : Before(q, i, j)
  <2>1. i \in I /\ q[i].start = s
    OBVIOUS
  <2>2. ASSUME NEW j \in I
        PROVE  Before(q, i, j)
    <3>1. s <= q[j].start
      BY <1>2
    <3>2. CASE q[j].start = s
      BY <2>1, <3>2, <1>3 DEF Before
    <3>3. CASE q[j].start # s
      BY <2>1, <3>1, <3>3, <1>1 DEF Before
    <3> QED
      BY <3>2, <3>3
  <2> QED
    BY <2>1, <2>2
<1> QED
  BY <1>4 DEF Closest

LEMMA ClosestFacts ==
  ASSUME NEW q \in Seq(Entry), NEW I, I # {}, \A i \in I : i \in 1..Len(q)
  PROVE  Closest(q, I) \in I /\ \A j \in I : q[Closest(q, I)].start <= q[j].start
<1> DEFINE c == Closest(q, I)
<1>1. c \in I /\ \A j \in I : Before(q, c, j)
  BY ClosestFirst
<1>2. \A i \in I : q[i].start \in Nat
  <2> TAKE i \in I
  <2>1. i \in 1..Len(q)
    OBVIOUS
  <2>2. q[i] \in Entry
    BY <2>1
  <2> QED
    BY <2>2 DEF Entry
<1> HIDE DEF c
<1>3. \A j \in I : q[c].start <= q[j].start
  BY <1>1, <1>2 DEF Before
<1> QED
  BY <1>1, <1>3 DEF c

LEMMA ClosestIs ==
  ASSUME NEW q \in Seq(Entry), NEW I, \A i \in I : i \in 1..Len(q),
         NEW c \in I, \A j \in I : Before(q, c, j)
  PROVE  Closest(q, I) = c
<1> DEFINE d == Closest(q, I)
<1>1. d \in I /\ \A j \in I : Before(q, d, j)
  BY ClosestFirst
<1> HIDE DEF d
<1>2. Before(q, c, d) /\ Before(q, d, c) /\ c \in 1..Len(q) /\ d \in 1..Len(q)
  BY <1>1
<1>3. q[c] \in Entry /\ q[d] \in Entry
  BY <1>2
<1>4. q[c].start \in Nat /\ q[d].start \in Nat /\ c \in Nat /\ d \in Nat
  BY <1>2, <1>3 DEF Entry
<1>5. q[c].start = q[d].start
  BY <1>2, <1>4 DEF Before
<1>6. c = d
  BY <1>2, <1>4, <1>5 DEF Before
<1> QED
  BY <1>6 DEF d

-----------------------------------------------------------------------------
(* A proper map, its slots in any order: each entry starts where another    *)
(* ends or after the boot block, none reaches into another, and free space  *)
(* is followed by an entry that is not free or by the end of the device.    *)
EndOf(e) == e.start + e.sectors
Apart(a, b) == EndOf(a) <= b.start \/ EndOf(b) <= a.start

Sized(q)    == \A i \in 1..Len(q) : q[i].start > 0 /\ q[i].sectors > 0
Disjoint(q) == \A i, j \in 1..Len(q) : i # j => Apart(q[i], q[j])
Joined(q)   == \A i \in 1..Len(q) : q[i].start = 1 \/ \E j \in 1..Len(q) : EndOf(q[j]) = q[i].start
FreeMerged(q) ==
  \A i, j \in 1..Len(q) : q[i].type = "free" /\ EndOf(q[i]) = q[j].start => q[j].type # "free"
FreeFollowed(q) ==
  \A i \in 1..Len(q) : q[i].type = "free" =>
    EndOf(q[i]) >= DevSize \/ \E j \in 1..Len(q) : EndOf(q[i]) = q[j].start

Row(q) == Sized(q) /\ Disjoint(q) /\ Joined(q) /\ FreeMerged(q) /\ FreeFollowed(q)

(* It ends where the device ends.                                           *)
Covered(q) ==
  /\ \A i \in 1..Len(q) : EndOf(q[i]) <= DevSize
  /\ DevSize <= 1 \/ \E i \in 1..Len(q) : EndOf(q[i]) = DevSize

LEMMA EntryNats ==
  ASSUME NEW q \in Seq(Entry)
  PROVE  \A i \in 1..Len(q) : /\ q[i] \in Entry
                              /\ q[i].start \in Nat /\ q[i].sectors \in Nat
                              /\ EndOf(q[i]) \in Nat /\ EndOf(q[i]) = q[i].start + q[i].sectors
<1> TAKE i \in 1..Len(q)
<1>1. q[i] \in Entry
  OBVIOUS
<1>2. q[i].start \in Nat /\ q[i].sectors \in Nat
  BY <1>1 DEF Entry
<1> HIDE <1>1
<1> QED
  BY <1>1, <1>2 DEF EndOf

LEMMA RowNats ==
  ASSUME NEW q \in Seq(Entry), Row(q)
  PROVE  \A i \in 1..Len(q) : /\ q[i].start \in Nat /\ q[i].sectors \in Nat
                              /\ EndOf(q[i]) \in Nat /\ EndOf(q[i]) = q[i].start + q[i].sectors
                              /\ q[i].start > 0 /\ q[i].sectors > 0
                              /\ q[i].start < EndOf(q[i])
<1> TAKE i \in 1..Len(q)
<1>1. /\ q[i].start \in Nat /\ q[i].sectors \in Nat
      /\ EndOf(q[i]) \in Nat /\ EndOf(q[i]) = q[i].start + q[i].sectors
  BY EntryNats
<1>2. q[i].start > 0 /\ q[i].sectors > 0
  BY DEF Row, Sized
<1> QED
  BY <1>1, <1>2

(* Only places, sizes and types matter.                                      *)
SamePlaces(q, r) ==
  /\ Len(q) = Len(r)
  /\ \A i \in 1..Len(q) : /\ q[i].start = r[i].start
                          /\ q[i].sectors = r[i].sectors
                          /\ q[i].type = r[i].type

LEMMA SameRow ==
  ASSUME NEW q, NEW r, SamePlaces(q, r)
  PROVE  (Row(q) => Row(r)) /\ (Covered(q) => Covered(r))
<1>1. Len(q) = Len(r) /\ \A i \in 1..Len(r) : /\ EndOf(q[i]) = EndOf(r[i])
                                              /\ q[i].start = r[i].start
                                              /\ q[i].sectors = r[i].sectors
                                              /\ q[i].type = r[i].type
  BY DEF SamePlaces, EndOf
<1>2. Sized(q) => Sized(r)
  BY <1>1 DEF Sized
<1>3. Disjoint(q) => Disjoint(r)
  BY <1>1 DEF Disjoint, Apart
<1>4. Joined(q) => Joined(r)
  BY <1>1 DEF Joined
<1>5. FreeMerged(q) => FreeMerged(r)
  BY <1>1 DEF FreeMerged
<1>6. FreeFollowed(q) => FreeFollowed(r)
  BY <1>1 DEF FreeFollowed
<1>7. Covered(q) => Covered(r)
  BY <1>1 DEF Covered
<1> QED
  BY <1>2, <1>3, <1>4, <1>5, <1>6, <1>7 DEF Row

(* Nothing reaches over the place where an entry starts or ends.            *)
LEMMA NoneAcross ==
  ASSUME NEW q \in Seq(Entry), Row(q), NEW i \in 1..Len(q)
  PROVE  \A j \in 1..Len(q) : /\ ~(q[j].start < EndOf(q[i]) /\ EndOf(q[i]) < EndOf(q[j]))
                              /\ ~(q[j].start < q[i].start /\ q[i].start < EndOf(q[j]))
                              /\ (q[j].start = q[i].start => i = j)
<1> TAKE j \in 1..Len(q)
<1>1. /\ q[i].start \in Nat /\ EndOf(q[i]) \in Nat /\ q[i].start < EndOf(q[i])
      /\ q[j].start \in Nat /\ EndOf(q[j]) \in Nat /\ q[j].start < EndOf(q[j])
  BY RowNats
<1>2. CASE i = j
  BY <1>1, <1>2
<1>3. CASE i # j
  <2>1. EndOf(q[i]) <= q[j].start \/ EndOf(q[j]) <= q[i].start
    BY <1>3 DEF Row, Disjoint, Apart
  <2> QED
    BY <1>1, <2>1
<1> QED
  BY <1>2, <1>3

(* A row that ends where the device ends has no gap and no overlap.         *)
LEMMA RowTiles ==
  ASSUME NEW q \in Seq(Entry), Row(q), Covered(q)
  PROVE  /\ \A s \in 1..(DevSize - 1) : \E i \in 1..Len(q) : s \in Sectors(q[i])
         /\ \A i, j \in 1..Len(q) : i < j => Sectors(q[i]) \cap Sectors(q[j]) = {}
<1>0. DevSize \in Nat
  BY SizesAssumption
<1>1. \A i \in 1..Len(q) : /\ q[i].start \in Nat /\ q[i].sectors \in Nat
                           /\ EndOf(q[i]) = q[i].start + q[i].sectors
                           /\ q[i].start > 0 /\ q[i].sectors > 0
  BY RowNats
<1>2. ASSUME NEW s \in 1..(DevSize - 1)
      PROVE  \E i \in 1..Len(q) : s \in Sectors(q[i])
  <2> DEFINE I == {i \in 1..Len(q) : EndOf(q[i]) > s}
  <2>0. s \in Nat /\ s < DevSize /\ s >= 1
    BY <1>0
  <2>1. I # {}
    BY <1>0, <2>0 DEF Covered
  <2>2. PICK m \in I : \A j \in I : q[m].start <= q[j].start
    <3>1. \A i \in I : i \in 1..Len(q)
      OBVIOUS
    <3> HIDE DEF I
    <3> QED
      BY <2>1, <3>1, ClosestFacts
  <2>3. m \in 1..Len(q) /\ EndOf(q[m]) > s
    OBVIOUS
  <2>4. q[m].start <= s
    <3> SUFFICES ASSUME ~(q[m].start <= s) PROVE FALSE
      OBVIOUS
    <3>1. q[m].start # 1
      BY <2>0
    <3>2. PICK k \in 1..Len(q) : EndOf(q[k]) = q[m].start
      BY <3>1, <2>3 DEF Row, Joined
    <3>3. EndOf(q[k]) > s /\ q[k].start < q[m].start
      BY <3>2, <1>1, <2>0, <2>3, SMTT(20)
    <3>4. q[m].start <= q[k].start
      BY <3>3, <2>2
    <3> QED
      BY <3>3, <3>4, <1>1, <2>3
  <2>5. s \in Sectors(q[m])
    BY <2>0, <2>3, <2>4, <1>1 DEF Sectors
  <2> QED
    BY <2>3, <2>5
<1>3. ASSUME NEW i \in 1..Len(q), NEW j \in 1..Len(q), i < j
      PROVE  Sectors(q[i]) \cap Sectors(q[j]) = {}
  <2>1. i # j
    BY <1>3
  <2>2. EndOf(q[i]) <= q[j].start \/ EndOf(q[j]) <= q[i].start
    BY <2>1 DEF Row, Disjoint, Apart
  <2> QED
    BY <2>2, <1>1, SMTT(20) DEF Sectors
<1> QED
  BY <1>2, <1>3


-----------------------------------------------------------------------------
(* The walk of tivo_partition_validate over a row.  From a place where an    *)
(* entry ends the closest entry starts right there, so the walk only stops   *)
(* at such a place: at the end of the device or beyond the last entry.       *)
From(q, pos)    == {i \in 1..Len(q) : q[i].start >= pos}
AtEnd(q, pos)   == pos >= DevSize \/ From(q, pos) = {}
Border(q, pos)  == pos = 1 \/ \E p \in 1..Len(q) : EndOf(q[p]) = pos
WalkResult(q)   == [end : Nat, used : SUBSET (1..Len(q)), empty : BOOLEAN]
WalkStep(q, f, pos) ==
  LET I == {i \in 1..Len(q) : q[i].start >= pos}
      n == Closest(q, I)
  IN  IF pos >= DevSize \/ I = {} THEN [end |-> pos, used |-> {}, empty |-> FALSE]
      ELSE IF q[n].sectors = 0 THEN [end |-> pos, used |-> {n}, empty |-> TRUE]
      ELSE LET r == f[pos + q[n].sectors]
           IN  [r EXCEPT !.used = @ \cup {n}]

LEMMA NextOnRow ==
  ASSUME NEW q \in Seq(Entry), Row(q), NEW pos \in Nat, ~AtEnd(q, pos)
  PROVE  /\ Closest(q, From(q, pos)) \in 1..Len(q)
         /\ q[Closest(q, From(q, pos))].start >= pos
         /\ \A j \in From(q, pos) : q[Closest(q, From(q, pos))].start <= q[j].start
         /\ q[Closest(q, From(q, pos))].sectors \in Nat \ {0}
<1> DEFINE c == Closest(q, From(q, pos))
<1>1. c \in From(q, pos) /\ \A j \in From(q, pos) : q[c].start <= q[j].start
  <2>1. From(q, pos) # {} /\ \A i \in From(q, pos) : i \in 1..Len(q)
    BY DEF AtEnd, From
  <2> QED
    BY <2>1, ClosestFacts
<1> HIDE DEF c
<1>2. c \in 1..Len(q) /\ q[c].start >= pos
  BY <1>1 DEF From
<1>3. q[c].sectors \in Nat \ {0}
  BY <1>2, RowNats
<1> QED
  BY <1>1, <1>2, <1>3 DEF c

Stepped(q, g) == \A pos \in Nat : g[pos] = WalkStep(q, g, pos)

LEMMA WalkStepIs ==
  ASSUME NEW q \in Seq(Entry), NEW g, NEW pos \in Nat, NEW c, c = Closest(q, From(q, pos))
  PROVE  /\ AtEnd(q, pos) => WalkStep(q, g, pos) = [end |-> pos, used |-> {}, empty |-> FALSE]
         /\ ~AtEnd(q, pos) =>
              /\ pos < DevSize /\ c \in 1..Len(q) /\ q[c].sectors \in Nat
              /\ q[c].sectors = 0 =>
                   WalkStep(q, g, pos) = [end |-> pos, used |-> {c}, empty |-> TRUE]
              /\ q[c].sectors # 0 =>
                   WalkStep(q, g, pos) = [g[pos + q[c].sectors] EXCEPT !.used = @ \cup {c}]
<1>1. AtEnd(q, pos) => WalkStep(q, g, pos) = [end |-> pos, used |-> {}, empty |-> FALSE]
  BY DEF WalkStep, AtEnd, From
<1>2. SUFFICES ASSUME ~AtEnd(q, pos)
               PROVE  /\ pos < DevSize /\ c \in 1..Len(q) /\ q[c].sectors \in Nat
                      /\ q[c].sectors = 0 =>
                           WalkStep(q, g, pos) = [end |-> pos, used |-> {c}, empty |-> TRUE]
                      /\ q[c].sectors # 0 =>
                           WalkStep(q, g, pos) = [g[pos + q[c].sectors] EXCEPT !.used = @ \cup {c}]
  BY <1>1
<1>3. pos < DevSize
  BY <1>2, SizesAssumption DEF AtEnd
<1>4. c \in 1..Len(q)
  <2>1. From(q, pos) # {} /\ \A i \in From(q, pos) : i \in 1..Len(q)
    BY <1>2 DEF AtEnd, From
  <2>2. c \in From(q, pos)
    BY <2>1, ClosestFacts
  <2> QED
    BY <2>1, <2>2
<1>5. q[c].sectors \in Nat
  BY <1>4, EntryNats
<1>6. q[c].sectors = 0 => WalkStep(q, g, pos) = [end |-> pos, used |-> {c}, empty |-> TRUE]
  BY <1>2 DEF WalkStep, AtEnd, From
<1>7. q[c].sectors # 0 =>
        WalkStep(q, g, pos) = [g[pos + q[c].sectors] EXCEPT !.used = @ \cup {c}]
  BY <1>2 DEF WalkStep, AtEnd, From
<1> QED
  BY <1>3, <1>4, <1>5, <1>6, <1>7

Met(w, c) == [w EXCEPT !.used = @ \cup {c}]

LEMMA WalkGoesOn ==
  ASSUME NEW q \in Seq(Entry), NEW g, Stepped(q, g), NEW pos \in Nat, ~AtEnd(q, pos),
         NEW c, c = Closest(q, From(q, pos)), q[c].sectors # 0
  PROVE  g[pos] = Met(g[pos + q[c].sectors], c)
<1>1. WalkStep(q, g, pos) = [g[pos + q[c].sectors] EXCEPT !.used = @ \cup {c}]
  BY WalkStepIs
<1> QED
  BY <1>1 DEF Stepped, Met

LEMMA WalkExists ==
  ASSUME NEW q \in Seq(Entry)
  PROVE  \E f \in [Nat -> WalkResult(q)] : Stepped(q, f)
<1> DEFINE Stop == {pos \in Nat : AtEnd(q, pos) \/ q[Closest(q, From(q, pos))].sectors = 0}
           n(pos) == Closest(q, From(q, pos))
           S == WalkResult(q)
           base == [pos \in Nat |->
                      IF AtEnd(q, pos) THEN [end |-> pos, used |-> {}, empty |-> FALSE]
                      ELSE [end |-> pos, used |-> {n(pos)}, empty |-> TRUE]]
           next == [pos \in Nat |-> IF pos \in Stop THEN pos ELSE pos + q[n(pos)].sectors]
           post == [x \in Nat \X S |->
                      IF x[1] \in Stop THEN x[2]
                      ELSE [x[2] EXCEPT !.used = @ \cup {n(x[1])}]]
           mu == [pos \in Nat |-> IF pos \in Stop THEN 0 ELSE DevSize - pos]
<1>0. DevSize \in Nat
  BY SizesAssumption
<1>a. \A pos \in Nat : ~AtEnd(q, pos) =>
        /\ n(pos) \in 1..Len(q) /\ q[n(pos)].sectors \in Nat /\ pos < DevSize
  BY WalkStepIs
<1>1. \A pos \in Nat : pos \notin Stop =>
        /\ n(pos) \in 1..Len(q) /\ q[n(pos)].sectors \in Nat \ {0} /\ pos < DevSize
  BY <1>a
<1>2. base \in [Nat -> S]
  <2> SUFFICES ASSUME NEW pos \in Nat PROVE base[pos] \in S
    BY Zenon
  <2>1. CASE AtEnd(q, pos)
    BY <2>1 DEF WalkResult
  <2>2. CASE ~AtEnd(q, pos)
    <3>1. n(pos) \in 1..Len(q)
      BY <2>2, <1>a
    <3> HIDE DEF n
    <3> QED
      BY <2>2, <3>1 DEF WalkResult
  <2> QED
    BY <2>1, <2>2
<1>3. next \in [Nat -> Nat]
  BY <1>1
<1>4. post \in [Nat \X S -> S]
  <2> SUFFICES ASSUME NEW x \in Nat \X S PROVE post[x] \in S
    BY Zenon
  <2>1. x[1] \in Nat /\ x[2] \in S
    OBVIOUS
  <2>2. CASE x[1] \in Stop
    BY <2>1, <2>2
  <2>3. CASE x[1] \notin Stop
    <3>1. n(x[1]) \in 1..Len(q)
      BY <2>1, <2>3, <1>1
    <3> DEFINE r == x[2]
               k == n(x[1])
    <3>2. r \in [end : Nat, used : SUBSET (1..Len(q)), empty : BOOLEAN] /\ k \in 1..Len(q)
      BY <2>1, <3>1 DEF WalkResult
    <3> HIDE DEF r, k
    <3>3. [r EXCEPT !.used = @ \cup {k}] \in [end : Nat, used : SUBSET (1..Len(q)), empty : BOOLEAN]
      BY <3>2
    <3> HIDE DEF n, Stop
    <3>5. post[x] = [r EXCEPT !.used = @ \cup {k}]
      BY <2>3 DEF r, k
    <3> HIDE DEF post
    <3> QED
      BY <3>3, <3>5 DEF WalkResult
  <2> QED
    BY <2>2, <2>3
<1>5. mu \in [Nat -> 0..DevSize]
  <2> HIDE DEF Stop
  <2>1. \A pos \in Nat : pos \notin Stop => DevSize - pos \in 0..DevSize
    BY <1>0, <1>1
  <2> QED
    BY <1>0, <2>1
<1>6. GoesDown(Nat, Stop, next, mu)
  <2> SUFFICES ASSUME NEW pos \in Nat, pos \notin Stop PROVE mu[next[pos]] < mu[pos]
    BY DEF GoesDown
  <2>1. q[n(pos)].sectors \in Nat \ {0} /\ pos < DevSize
    BY <1>1
  <2>2. next[pos] = pos + q[n(pos)].sectors /\ mu[pos] = DevSize - pos /\ next[pos] \in Nat
    BY <1>1
  <2>3. mu[next[pos]] = 0 \/ mu[next[pos]] = DevSize - next[pos]
    BY <2>2
  <2> HIDE DEF mu, next, n
  <2> QED
    BY <1>0, <2>1, <2>2, <2>3
<1> HIDE DEF base, next, post, mu, Stop, S
<1>7. PICK f \in [Nat -> S] : Unfolds(f, Nat, Stop, base, next, post)
  BY ONLY <1>0, <1>2, <1>3, <1>4, <1>5, <1>6, BoundedRecursion, Zenon
<1>8. ASSUME NEW pos \in Nat
      PROVE  f[pos] = WalkStep(q, f, pos)
  <2>1. f[pos] = IF pos \in Stop THEN base[pos] ELSE post[<<pos, f[next[pos]]>>]
    BY <1>7 DEF Unfolds
  <2>0. PICK c : c = n(pos)
    OBVIOUS
  <2>2. CASE AtEnd(q, pos)
    <3>1. pos \in Stop /\ base[pos] = [end |-> pos, used |-> {}, empty |-> FALSE]
      BY <2>2 DEF Stop, base
    <3>2. WalkStep(q, f, pos) = [end |-> pos, used |-> {}, empty |-> FALSE]
      BY <2>2, WalkStepIs
    <3> QED
      BY <2>1, <3>1, <3>2
  <2>3. CASE ~AtEnd(q, pos) /\ q[c].sectors = 0
    <3>1. pos \in Stop /\ base[pos] = [end |-> pos, used |-> {c}, empty |-> TRUE]
      BY <2>0, <2>3 DEF Stop, base
    <3>2. WalkStep(q, f, pos) = [end |-> pos, used |-> {c}, empty |-> TRUE]
      BY <2>0, <2>3, WalkStepIs
    <3> QED
      BY <2>1, <3>1, <3>2
  <2>4. CASE ~AtEnd(q, pos) /\ q[c].sectors # 0
    <3> DEFINE r == f[next[pos]]
    <3>1. pos \notin Stop /\ next[pos] = pos + q[c].sectors /\ next[pos] \in Nat
      BY <2>0, <2>4, <1>3 DEF Stop, next
    <3>2. r \in S
      BY <3>1, <1>7
    <3>3. post[<<pos, r>>] = [r EXCEPT !.used = @ \cup {c}]
      <4> HIDE DEF r, n
      <4> QED
        BY <2>0, <3>1, <3>2 DEF post
    <3>6. WalkStep(q, f, pos) = [f[pos + q[c].sectors] EXCEPT !.used = @ \cup {c}]
      BY <2>0, <2>4, WalkStepIs
    <3> QED
      BY <2>1, <3>1, <3>3, <3>6
  <2> QED
    BY <2>2, <2>3, <2>4
<1> QED
  BY <1>7, <1>8 DEF S, Stepped

(* Only starts and sizes matter to the walk, and they determine it.          *)
SameStarts(q, r) ==
  /\ Len(q) = Len(r)
  /\ \A i \in 1..Len(q) : q[i].start = r[i].start /\ q[i].sectors = r[i].sectors

LEMMA WalkUnique ==
  ASSUME NEW q \in Seq(Entry), NEW r \in Seq(Entry), SameStarts(q, r),
         NEW g, NEW h, Stepped(q, g), Stepped(r, h)
  PROVE  \A pos \in Nat : g[pos] = h[pos]
<1>0. DevSize \in Nat
  BY SizesAssumption
<1>1. ASSUME NEW pos \in Nat
      PROVE  From(q, pos) = From(r, pos) /\ (AtEnd(q, pos) <=> AtEnd(r, pos))
  <2>1. From(q, pos) = From(r, pos)
    BY DEF From, SameStarts
  <2> QED
    BY <2>1 DEF AtEnd
<1>2. ASSUME NEW pos \in Nat, ~AtEnd(q, pos)
      PROVE  Closest(q, From(q, pos)) = Closest(r, From(r, pos))
  <2> DEFINE I == From(q, pos)
  <2>1. PICK c : c = Closest(q, I)
    OBVIOUS
  <2>2. I = From(r, pos)
    BY <1>1
  <2>3. I # {} /\ \A i \in I : i \in 1..Len(q)
    BY <1>2 DEF AtEnd, From
  <2>4. \A i \in I : i \in 1..Len(r) /\ q[i].start = r[i].start
    BY <2>3 DEF SameStarts
  <2> HIDE DEF I
  <2>5. c \in I /\ \A j \in I : Before(q, c, j)
    BY <2>1, <2>3, ClosestFirst
  <2>6. \A j \in I : Before(r, c, j)
    BY <2>4, <2>5 DEF Before
  <2>7. Closest(r, I) = c
    BY <2>4, <2>5, <2>6, ClosestIs
  <2> QED
    BY <2>1, <2>2, <2>7 DEF I
<1> DEFINE Bad == {pos \in Nat : g[pos] # h[pos]}
<1>3. Bad = {}
  <2> SUFFICES ASSUME Bad # {} PROVE FALSE
    OBVIOUS
  <2>1. ASSUME NEW pos \in Bad PROVE pos \in Nat /\ ~AtEnd(q, pos) /\ pos <= DevSize
    <3>1. pos \in Nat /\ g[pos] # h[pos]
      OBVIOUS
    <3>2. g[pos] = WalkStep(q, g, pos) /\ h[pos] = WalkStep(r, h, pos)
      BY <3>1 DEF Stepped
    <3>3. ~AtEnd(q, pos)
      <4> SUFFICES ASSUME AtEnd(q, pos) PROVE FALSE
        OBVIOUS
      <4>1. AtEnd(r, pos)
        BY <3>1, <1>1
      <4>2. WalkStep(q, g, pos) = [end |-> pos, used |-> {}, empty |-> FALSE]
        BY <3>1, WalkStepIs
      <4>3. WalkStep(r, h, pos) = [end |-> pos, used |-> {}, empty |-> FALSE]
        BY <3>1, <4>1, WalkStepIs
      <4> QED
        BY <3>1, <3>2, <4>2, <4>3
    <3> QED
      BY <3>1, <3>3, <1>0 DEF AtEnd
  <2>2. PICK pos \in Bad : \A y \in Bad : y <= pos
    <3> HIDE DEF Bad
    <3> QED
      BY <1>0, <2>1, GreatestNat, Zenon
  <2>3. pos \in Nat /\ g[pos] # h[pos] /\ ~AtEnd(q, pos) /\ ~AtEnd(r, pos)
    <3>1. pos \in Nat /\ g[pos] # h[pos]
      OBVIOUS
    <3>2. ~AtEnd(q, pos)
      BY <2>1
    <3> HIDE DEF Bad
    <3> QED
      BY <3>1, <3>2, <1>1
  <2>4. PICK c : c = Closest(q, From(q, pos))
    OBVIOUS
  <2>5. c = Closest(r, From(r, pos))
    BY <2>3, <2>4, <1>2
  <2>6. c \in 1..Len(q) /\ q[c].sectors \in Nat
    BY <2>3, <2>4, WalkStepIs
  <2>7. r[c].sectors = q[c].sectors
    BY <2>6 DEF SameStarts
  <2>8. g[pos] = WalkStep(q, g, pos) /\ h[pos] = WalkStep(r, h, pos)
    BY <2>3 DEF Stepped
  <2>9. CASE q[c].sectors = 0
    <3>1. WalkStep(q, g, pos) = [end |-> pos, used |-> {c}, empty |-> TRUE]
      BY <2>3, <2>4, <2>9, WalkStepIs
    <3>2. WalkStep(r, h, pos) = [end |-> pos, used |-> {c}, empty |-> TRUE]
      BY <2>3, <2>5, <2>7, <2>9, WalkStepIs
    <3> QED
      BY <2>3, <2>8, <3>1, <3>2
  <2>10. CASE q[c].sectors # 0
    <3>1. WalkStep(q, g, pos) = [g[pos + q[c].sectors] EXCEPT !.used = @ \cup {c}]
      BY <2>3, <2>4, <2>10, WalkStepIs
    <3>2. WalkStep(r, h, pos) = [h[pos + q[c].sectors] EXCEPT !.used = @ \cup {c}]
      BY <2>3, <2>5, <2>7, <2>10, WalkStepIs
    <3>3. pos + q[c].sectors \in Nat /\ ~(pos + q[c].sectors <= pos)
      BY <2>3, <2>6, <2>10
    <3>4. g[pos + q[c].sectors] = h[pos + q[c].sectors]
      <4>1. pos + q[c].sectors \notin Bad
        <5> HIDE DEF Bad
        <5> QED
          BY <2>2, <3>3
      <4> QED
        BY <3>3, <4>1
    <3> QED
      BY <2>3, <2>8, <3>1, <3>2, <3>4
  <2> QED
    BY <2>9, <2>10
<1> QED
  BY <1>3

LEMMA WalkFunction ==
  ASSUME NEW q \in Seq(Entry)
  PROVE  \E g \in [Nat -> WalkResult(q)] : Stepped(q, g) /\ Walk(q) = g[1]
<1> DEFINE g == CHOOSE g : g = [pos \in Nat |-> WalkStep(q, g, pos)]
<1>1. PICK f \in [Nat -> WalkResult(q)] : Stepped(q, f)
  BY WalkExists
<1>2. g = [pos \in Nat |-> WalkStep(q, g, pos)]
  <2>1. f = [pos \in Nat |-> WalkStep(q, f, pos)]
    <3> HIDE DEF WalkStep
    <3> QED
      BY <1>1 DEF Stepped
  <2> QED
    BY <2>1, Zenon
<1>3. Walk(q) = g[1]
  BY Zenon DEF Walk, WalkStep
<1> HIDE DEF g
<1>4. Stepped(q, g)
  BY <1>2 DEF Stepped
<1>5. SameStarts(q, q)
  BY DEF SameStarts
<1>6. \A pos \in Nat : f[pos] = g[pos]
  BY <1>1, <1>4, <1>5, WalkUnique
<1>7. Walk(q) = f[1]
  BY <1>3, <1>6
<1> QED
  BY <1>1, <1>7

LEMMA WalkSame ==
  ASSUME NEW q \in Seq(Entry), NEW r \in Seq(Entry), SameStarts(q, r)
  PROVE  Walk(q) = Walk(r)
<1>1. PICK g \in [Nat -> WalkResult(q)] : Stepped(q, g) /\ Walk(q) = g[1]
  BY WalkFunction
<1>2. PICK h \in [Nat -> WalkResult(r)] : Stepped(r, h) /\ Walk(r) = h[1]
  BY WalkFunction
<1>3. g[1] = h[1]
  BY <1>1, <1>2, WalkUnique
<1> QED
  BY <1>1, <1>2, <1>3


(* Where the walk is known to end, and what it can have met.                 *)
Walked(q, r) ==
  /\ r \in WalkResult(q)
  /\ ~r.empty
  /\ Border(q, r.end)
  /\ r.end >= DevSize \/ \A i \in 1..Len(q) : q[i].start < r.end
  /\ \A i \in r.used : q[i].start < DevSize

LEMMA WalkFacts ==
  ASSUME NEW q \in Seq(Entry), Row(q)
  PROVE  Walked(q, Walk(q))
<1>0. DevSize \in Nat
  BY SizesAssumption
<1>1. PICK g \in [Nat -> WalkResult(q)] : Stepped(q, g) /\ Walk(q) = g[1]
  BY WalkFunction
<1>2. Walk(q) = g[1]
  BY <1>1
<1>3. \A pos \in Nat : g[pos] = WalkStep(q, g, pos)
  BY <1>1 DEF Stepped
<1>4. ASSUME NEW pos \in Nat, Border(q, pos), AtEnd(q, pos)
      PROVE  Walked(q, g[pos])
  <2>1. g[pos] = [end |-> pos, used |-> {}, empty |-> FALSE]
    BY <1>3, <1>4 DEF WalkStep, AtEnd, From
  <2> DEFINE r == [end |-> pos, used |-> {}, empty |-> FALSE]
  <2>2. r.end = pos /\ r.used = {} /\ ~r.empty /\ r \in WalkResult(q)
    BY DEF WalkResult
  <2> HIDE DEF r
  <2>3. pos >= DevSize \/ \A i \in 1..Len(q) : q[i].start < pos
    <3> SUFFICES ASSUME From(q, pos) = {}, NEW i \in 1..Len(q) PROVE q[i].start < pos
      BY <1>4 DEF AtEnd
    <3>1. ~(q[i].start >= pos) /\ q[i].start \in Nat
      BY RowNats DEF From
    <3> QED
      BY <3>1
  <2>4. Walked(q, r)
    BY <2>2, <2>3, <1>4 DEF Walked
  <2> QED
    BY <2>1, <2>4 DEF r
<1>5. ASSUME NEW pos \in Nat, Border(q, pos), ~AtEnd(q, pos)
      PROVE  \E i \in 1..Len(q) :
               /\ q[i].start = pos
               /\ g[pos] = [g[EndOf(q[i])] EXCEPT !.used = @ \cup {i}]
  <2> DEFINE c == Closest(q, From(q, pos))
  <2>1. /\ c \in 1..Len(q) /\ q[c].start >= pos
        /\ \A j \in From(q, pos) : q[c].start <= q[j].start
        /\ q[c].sectors # 0
    BY <1>5, NextOnRow
  <2>2. g[pos] = [g[pos + q[c].sectors] EXCEPT !.used = @ \cup {c}]
    BY <2>1, <1>3, <1>5 DEF WalkStep, AtEnd, From
  <2> HIDE DEF c
  <2>3. q[c].start = pos
    <3> SUFFICES ASSUME q[c].start > pos PROVE FALSE
      BY <2>1, RowNats
    <3>1. q[c].start # 1
      <4>1. pos > 0
        BY <1>5, RowNats DEF Border
      <4> QED
        BY <4>1
    <3>2. PICK k \in 1..Len(q) : EndOf(q[k]) = q[c].start
      BY <3>1, <2>1 DEF Row, Joined
    <3>3. q[k].start < q[c].start /\ q[k].start \in Nat /\ q[c].start \in Nat /\ q[k].start > 0
      BY <3>2, <2>1, RowNats
    <3>4. q[k].start < pos
      <4> SUFFICES ASSUME q[k].start >= pos PROVE FALSE
        BY <3>3
      <4>1. q[c].start <= q[k].start
        BY <2>1 DEF From
      <4> QED
        BY <4>1, <3>3
    <3>5. pos # 1
      BY <3>3, <3>4
    <3>6. PICK p \in 1..Len(q) : EndOf(q[p]) = pos
      BY <3>5, <1>5 DEF Border
    <3> QED
      BY <3>2, <3>4, <3>6, NoneAcross
  <2>4. pos + q[c].sectors = EndOf(q[c])
    BY <2>1, <2>3, RowNats
  <2> QED
    BY <2>1, <2>2, <2>3, <2>4
<1> DEFINE Bad == {pos \in Nat : Border(q, pos) /\ ~Walked(q, g[pos])}
<1>6. Bad = {}
  <2> SUFFICES ASSUME Bad # {} PROVE FALSE
    OBVIOUS
  <2>1. \A pos \in Bad : pos \in Nat /\ pos <= DevSize
    <3> TAKE pos \in Bad
    <3>1. pos \in Nat /\ ~AtEnd(q, pos)
      BY <1>4
    <3> QED
      BY <3>1, <1>0 DEF AtEnd
  <2>2. PICK pos \in Bad : \A y \in Bad : y <= pos
    <3> HIDE DEF Bad
    <3> QED
      BY <1>0, <2>1, GreatestNat, Zenon
  <2>3. pos \in Nat /\ Border(q, pos) /\ ~Walked(q, g[pos]) /\ ~AtEnd(q, pos)
    BY <1>4
  <2>4. PICK i \in 1..Len(q) : /\ q[i].start = pos
                               /\ g[pos] = [g[EndOf(q[i])] EXCEPT !.used = @ \cup {i}]
    BY <2>3, <1>5
  <2>5. EndOf(q[i]) \in Nat /\ EndOf(q[i]) > pos
    BY <2>4, RowNats
  <2>6. Border(q, EndOf(q[i]))
    BY DEF Border
  <2>7. Walked(q, g[EndOf(q[i])])
    <3>1. EndOf(q[i]) \notin Bad
      <4> HIDE DEF Bad
      <4> QED
        BY <2>2, <2>3, <2>5
    <3> QED
      BY <3>1, <2>5, <2>6
  <2> DEFINE r == g[EndOf(q[i])]
  <2>8. r \in [end : Nat, used : SUBSET (1..Len(q)), empty : BOOLEAN]
    BY <2>7 DEF Walked, WalkResult
  <2>9. Walked(q, r)
    BY <2>7
  <2>10. g[pos] = [r EXCEPT !.used = @ \cup {i}]
    BY <2>4
  <2> HIDE DEF r
  <2> DEFINE s == [r EXCEPT !.used = @ \cup {i}]
  <2>11. /\ s \in [end : Nat, used : SUBSET (1..Len(q)), empty : BOOLEAN]
         /\ s.end = r.end /\ s.used = r.used \cup {i} /\ s.empty = r.empty
    BY <2>8
  <2> HIDE DEF s
  <2>12. q[i].start < DevSize
    BY <2>3, <2>4, <1>0 DEF AtEnd
  <2>13. Walked(q, s)
    BY <2>9, <2>11, <2>12 DEF Walked, WalkResult
  <2> QED
    BY <2>3, <2>10, <2>13 DEF s
<1>7. 1 \notin Bad
  BY <1>6
<1> QED
  BY <1>2, <1>7 DEF Border


(* Everything lies before a place where an entry ends and none starts behind. *)
LEMMA LiesBefore ==
  ASSUME NEW q \in Seq(Entry), Row(q), NEW end \in Nat, Border(q, end),
         \A i \in 1..Len(q) : q[i].start < end
  PROVE  \A i \in 1..Len(q) : EndOf(q[i]) <= end
<1> TAKE i \in 1..Len(q)
<1>1. q[i].start > 0 /\ q[i].start < end /\ q[i].start \in Nat /\ EndOf(q[i]) \in Nat
  BY RowNats
<1>2. PICK p \in 1..Len(q) : EndOf(q[p]) = end
  BY <1>1 DEF Border
<1> QED
  BY <1>1, <1>2, NoneAcross

(* The filler of the space behind the last entry completes a row.            *)
LEMMA FilledRow ==
  ASSUME NEW q \in Seq(Entry), Row(q), NEW end \in 1..(DevSize - 1), Border(q, end),
         \A i \in 1..Len(q) : q[i].start < end
  PROVE  Row(Append(q, Filler(end))) /\ Covered(Append(q, Filler(end)))
<1> DEFINE e == Filler(end)
           r == Append(q, e)
           n == Len(q) + 1
<1>0. DevSize \in Nat /\ end \in Nat /\ end > 0 /\ end < DevSize /\ Len(q) \in Nat
  BY SizesAssumption
<1>1. /\ e.start = end /\ e.sectors = DevSize - end /\ e.type = "free"
      /\ EndOf(e) = DevSize /\ e \in Entry
  BY <1>0 DEF Filler, EndOf, Entry, Types
<1> HIDE DEF e
<1>2. /\ Len(r) = n /\ r[n] = e /\ n \in 1..Len(r)
      /\ \A i \in 1..Len(q) : i \in 1..Len(r) /\ r[i] = q[i]
      /\ \A i \in 1..Len(r) : i \in 1..Len(q) \/ i = n
      /\ \A i \in 1..Len(q) : i # n
  BY <1>0, <1>1
<1> HIDE DEF r, n
<1>3. \A i \in 1..Len(q) : /\ q[i].start \in Nat /\ EndOf(q[i]) \in Nat
                           /\ q[i].start < end /\ EndOf(q[i]) <= end
  <2>1. \A i \in 1..Len(q) : EndOf(q[i]) <= end
    BY <1>0, LiesBefore
  <2> QED
    BY <2>1, RowNats
<1>4. Sized(r)
  <2> SUFFICES ASSUME NEW i \in 1..Len(r) PROVE r[i].start > 0 /\ r[i].sectors > 0
    BY DEF Sized
  <2> QED
    BY <1>0, <1>1, <1>2, RowNats, SMTT(20)
<1>5. Disjoint(r)
  <2> SUFFICES ASSUME NEW i \in 1..Len(r), NEW j \in 1..Len(r), i # j
               PROVE  Apart(r[i], r[j])
    BY DEF Disjoint
  <2>1. CASE i \in 1..Len(q) /\ j \in 1..Len(q)
    BY <2>1, <1>2 DEF Row, Disjoint
  <2>2. CASE i = n /\ j \in 1..Len(q)
    BY <2>2, <1>1, <1>2, <1>3 DEF Apart
  <2>3. CASE i \in 1..Len(q) /\ j = n
    BY <2>3, <1>1, <1>2, <1>3 DEF Apart
  <2> QED
    BY <1>2, <2>1, <2>2, <2>3
<1>6. Joined(r)
  <2> SUFFICES ASSUME NEW i \in 1..Len(r)
               PROVE  r[i].start = 1 \/ \E j \in 1..Len(r) : EndOf(r[j]) = r[i].start
    BY DEF Joined
  <2>1. CASE i \in 1..Len(q)
    BY <2>1, <1>2 DEF Row, Joined
  <2>2. CASE i = n
    BY <2>2, <1>1, <1>2 DEF Border
  <2> QED
    BY <1>2, <2>1, <2>2
<1>7. FreeMerged(r)
  <2> SUFFICES ASSUME NEW i \in 1..Len(r), NEW j \in 1..Len(r),
                      r[i].type = "free", EndOf(r[i]) = r[j].start
               PROVE  r[j].type # "free"
    BY DEF FreeMerged
  <2>1. CASE i \in 1..Len(q) /\ j \in 1..Len(q)
    BY <2>1, <1>2 DEF Row, FreeMerged
  <2>2. CASE i = n
    BY <2>2, <1>0, <1>1, <1>2, <1>3
  <2>3. CASE i \in 1..Len(q) /\ j = n
    <3>1. q[i].type = "free" /\ EndOf(q[i]) = end
      BY <2>3, <1>1, <1>2
    <3>2. PICK k \in 1..Len(q) : EndOf(q[i]) = q[k].start
      BY <3>1, <2>3, <1>0 DEF Row, FreeFollowed
    <3> QED
      BY <3>1, <3>2, <1>0, <1>3
  <2> QED
    BY <1>2, <2>1, <2>2, <2>3
<1>8. FreeFollowed(r)
  <2> SUFFICES ASSUME NEW i \in 1..Len(r), r[i].type = "free"
               PROVE  EndOf(r[i]) >= DevSize \/ \E j \in 1..Len(r) : EndOf(r[i]) = r[j].start
    BY DEF FreeFollowed
  <2>1. CASE i \in 1..Len(q)
    BY <2>1, <1>2 DEF Row, FreeFollowed
  <2>2. CASE i = n
    BY <2>2, <1>0, <1>1, <1>2
  <2> QED
    BY <1>2, <2>1, <2>2
<1>9. Covered(r)
  <2>1. \A i \in 1..Len(r) : EndOf(r[i]) <= DevSize
    BY <1>0, <1>1, <1>2, <1>3
  <2> QED
    BY <2>1, <1>1, <1>2 DEF Covered
<1> QED
  BY <1>4, <1>5, <1>6, <1>7, <1>8, <1>9 DEF Row, r, e

(* A row that the walk has seen whole, up to the end of the device.          *)
LEMMA SeenRow ==
  ASSUME NEW q \in Seq(Entry), Row(q), Border(q, DevSize),
         \A i \in 1..Len(q) : q[i].start < DevSize
  PROVE  Covered(q)
<1>0. DevSize \in Nat
  BY SizesAssumption
<1>1. \A i \in 1..Len(q) : EndOf(q[i]) <= DevSize
  BY <1>0, LiesBefore
<1> QED
  BY <1>0, <1>1 DEF Covered, Border

(* What a table is worth: a row, and one that covers the device when valid.  *)
Tiled(t) == Row(t.parts) /\ ("VALID" \in t.flags => Covered(t.parts))

(* Validation fills the device or leaves a row that is not valid.            *)
LEMMA ValidationTiled ==
  ASSUME NEW t \in Table, Tiled(t), NEW v \in Validations(t)
  PROVE  Tiled(v.table) /\ (v.ok => "VALID" \in v.table.flags)
<1> DEFINE p == t.parts
           w == Walk(p)
           short == w.end \in 1..(DevSize - 1)
           q == IF short THEN Append(p, Filler(w.end)) ELSE p
           seen == w.used \cup (IF short THEN {Len(q)} ELSE {})
           same == [ok |-> TRUE, table |-> t]
           fail == [ok |-> FALSE, table |-> t]
           good == [ok |-> TRUE, table |-> [t EXCEPT !.parts = q, !.flags = @ \cup {"VALID"}]]
           more == [ok |-> FALSE, table |-> [t EXCEPT !.parts = q]]
<1>0. DevSize \in Nat
  BY SizesAssumption
<1>1. p \in Seq(Entry) /\ t.flags \subseteq Flags /\ t.refs \in Nat /\ Row(p)
      /\ t = [parts |-> p, refs |-> t.refs, flags |-> t.flags]
  BY DEF Table, Tiled
<1>2. Walked(p, w)
  BY <1>1, WalkFacts
<1>3. \/ v = same /\ "VALID" \in t.flags
      \/ v = fail
      \/ "VALID" \notin t.flags /\ ~(w.end > DevSize) /\ v = good /\ seen = 1..Len(q)
      \/ "VALID" \notin t.flags /\ ~(w.end > DevSize) /\ v = more
  BY Zenon DEF Validations
<1>4. CASE (v = same /\ "VALID" \in t.flags) \/ v = fail
  BY <1>4
<1>5. "VALID" \notin t.flags /\ ~(w.end > DevSize) => Row(q) /\ (seen = 1..Len(q) => Covered(q))
  <2> SUFFICES ASSUME ~(w.end > DevSize) PROVE Row(q) /\ (seen = 1..Len(q) => Covered(q))
    OBVIOUS
  <2>0. /\ w.end \in Nat /\ Border(p, w.end)
        /\ w.end >= DevSize \/ \A i \in 1..Len(p) : p[i].start < w.end
        /\ \A i \in w.used : p[i].start < DevSize
    BY <1>2 DEF Walked, WalkResult
  <2> HIDE DEF w, p
  <2>1. CASE short
    <3>1. \A i \in 1..Len(p) : p[i].start < w.end
      BY <2>0, <2>1, <1>0
    <3>2. Row(Append(p, Filler(w.end))) /\ Covered(Append(p, Filler(w.end)))
      BY <1>1, <2>0, <2>1, <3>1, FilledRow
    <3> QED
      BY <2>1, <3>2
  <2>2. CASE ~short
    <3>1. w.end > 0
      BY <2>0, <1>1, RowNats DEF Border
    <3>2. w.end = DevSize
      BY <2>0, <2>2, <3>1, <1>0
    <3>3. q = p /\ seen = w.used
      BY <2>2
    <3>4. ASSUME w.used = 1..Len(p) PROVE Covered(p)
      BY <3>2, <3>4, <2>0, <1>1, SeenRow
    <3> QED
      BY <3>3, <3>4, <1>1
  <2> QED
    BY <2>1, <2>2
<1> HIDE DEF q, p, w, short, seen
<1>6. CASE "VALID" \notin t.flags /\ ~(w.end > DevSize) /\ v = good /\ seen = 1..Len(q)
  <2>1. v.table.parts = q /\ v.table.flags = t.flags \cup {"VALID"}
    BY <1>1, <1>6
  <2> QED
    BY <2>1, <1>5, <1>6 DEF Tiled
<1>7. CASE "VALID" \notin t.flags /\ ~(w.end > DevSize) /\ v = more
  <2>1. v.table.parts = q /\ v.table.flags = t.flags /\ v.ok = FALSE
    BY <1>1, <1>7
  <2> QED
    BY <2>1, <1>5, <1>7 DEF Tiled
<1> QED
  BY <1>3, <1>4, <1>6, <1>7


-----------------------------------------------------------------------------
(* The search for free space.  In a row free partitions never follow one     *)
(* another, so the search looks at one free partition at a time.             *)
FitStep(q, sp, size, g, r) ==
  LET first == r[1]
      last  == r[2]
      I     == FreeFrom(q, sp, last)
      n     == q[Closest(q, I)]
  IN  IF last - first >= size THEN first
      ELSE IF I = {} THEN NoRoom
      ELSE g[<<IF n.start = last THEN first ELSE n.start, n.start + n.sectors>>]

LEMMA NextFree ==
  ASSUME NEW q \in Seq(Entry), Row(q), NEW sp \in Nat \ {0}, NEW last \in Nat,
         FreeFrom(q, sp, last) # {}
  PROVE  /\ Closest(q, FreeFrom(q, sp, last)) \in FreeFrom(q, sp, last)
         /\ \A j \in FreeFrom(q, sp, last) :
              q[Closest(q, FreeFrom(q, sp, last))].start <= q[j].start
<1>1. Len(q) \in Nat
  OBVIOUS
<1>2. \A i \in FreeFrom(q, sp, last) : i \in 1..Len(q)
  BY <1>1 DEF FreeFrom
<1> QED
  BY <1>2, ClosestFacts

LEMMA FreeFromFacts ==
  ASSUME NEW q \in Seq(Entry), NEW sp \in Nat \ {0}, NEW last \in Nat
  PROVE  \A i \in FreeFrom(q, sp, last) :
           /\ i \in 1..Len(q) /\ i \in sp..Len(q)
           /\ q[i].type = "free" /\ q[i].start >= last
<1>1. Len(q) \in Nat
  OBVIOUS
<1> QED
  BY <1>1 DEF FreeFrom

LEMMA FitExists ==
  ASSUME NEW q \in Seq(Entry), Row(q), \A i \in 1..Len(q) : EndOf(q[i]) <= DevSize,
         NEW sp \in Nat \ {0}, NEW size \in Nat
  PROVE  \E f \in [Nat \X Nat -> Int] : \A r \in Nat \X Nat : f[r] = FitStep(q, sp, size, f, r)
<1> DEFINE X == Nat \X Nat
           I(r) == FreeFrom(q, sp, r[2])
           n(r) == q[Closest(q, I(r))]
           Stop == {r \in X : r[2] - r[1] >= size \/ I(r) = {}}
           base == [r \in X |-> IF r[2] - r[1] >= size THEN r[1] ELSE NoRoom]
           more(r) == <<IF n(r).start = r[2] THEN r[1] ELSE n(r).start, n(r).start + n(r).sectors>>
           next == [r \in X |-> IF r \in Stop THEN r ELSE more(r)]
           post == [x \in X \X Int |-> x[2]]
           mu == [r \in X |-> IF r \in Stop THEN 0 ELSE DevSize - r[2]]
<1>0. DevSize \in Nat
  BY SizesAssumption
<1>1. ASSUME NEW r \in X, r \notin Stop
      PROVE  /\ n(r).start \in Nat /\ n(r).sectors \in Nat
             /\ n(r).start >= r[2] /\ n(r).start + n(r).sectors > r[2]
             /\ n(r).start + n(r).sectors <= DevSize
  <2>1. I(r) # {} /\ r[2] \in Nat
    BY <1>1
  <2> DEFINE c == Closest(q, I(r))
  <2>2. c \in I(r)
    BY <2>1, NextFree
  <2> HIDE DEF c
  <2>3. c \in 1..Len(q) /\ q[c].start >= r[2]
    BY <2>1, <2>2, FreeFromFacts
  <2>4. q[c].start \in Nat /\ q[c].sectors \in Nat /\ q[c].sectors > 0
        /\ q[c].start + q[c].sectors <= DevSize
    BY <2>3, RowNats
  <2>5. n(r) = q[c]
    BY DEF c
  <2> HIDE DEF n
  <2> QED
    BY <2>1, <2>3, <2>4, <2>5
<1>2. base \in [X -> Int]
  BY DEF NoRoom
<1>3. next \in [X -> X]
  <2> SUFFICES ASSUME NEW r \in X, r \notin Stop PROVE more(r) \in X
    BY Zenon
  <2>1. n(r).start \in Nat /\ n(r).sectors \in Nat
    BY <1>1
  <2> HIDE DEF n
  <2> QED
    BY <2>1
<1>4. post \in [X \X Int -> Int]
  OBVIOUS
<1>5. mu \in [X -> 0..DevSize]
  <2>1. ASSUME NEW r \in X, r \notin Stop PROVE DevSize - r[2] \in 0..DevSize
    <3>1. r[2] \in Nat
      OBVIOUS
    <3> HIDE DEF n, Stop, X
    <3> QED
      BY <1>0, <1>1, <2>1, <3>1
  <2> HIDE DEF Stop, X
  <2>2. \A r \in X : (IF r \in Stop THEN 0 ELSE DevSize - r[2]) \in 0..DevSize
    BY <1>0, <2>1
  <2> QED
    BY <2>2
<1>6. GoesDown(X, Stop, next, mu)
  <2> SUFFICES ASSUME NEW r \in X, r \notin Stop PROVE mu[next[r]] < mu[r]
    BY DEF GoesDown
  <2> DEFINE s == more(r)
  <2>1. next[r] = s /\ s \in X
    BY <1>3
  <2>2. /\ n(r).start \in Nat /\ n(r).sectors \in Nat
        /\ n(r).start + n(r).sectors > r[2]
        /\ n(r).start + n(r).sectors <= DevSize
    BY <1>1
  <2>3. s[2] = n(r).start + n(r).sectors
    OBVIOUS
  <2>4. r[2] \in Nat /\ mu[r] = DevSize - r[2]
    OBVIOUS
  <2> HIDE DEF s
  <2>5. mu[s] = 0 \/ mu[s] = DevSize - s[2]
    BY <2>1
  <2> HIDE DEF n, mu, next, X
  <2>6. s[2] \in Nat
    BY <2>2, <2>3
  <2> QED
    BY ONLY <1>0, <2>1, <2>2, <2>3, <2>4, <2>5, <2>6
<1>7. PICK f \in [X -> Int] : Unfolds(f, X, Stop, base, next, post)
  <2> HIDE DEF X, Stop, base, next, post, mu
  <2> QED
    BY ONLY <1>0, <1>2, <1>3, <1>4, <1>5, <1>6, BoundedRecursion, Zenon
<1>8. ASSUME NEW r \in X
      PROVE  f[r] = FitStep(q, sp, size, f, r)
  <2>1. f[r] = IF r \in Stop THEN base[r] ELSE post[<<r, f[next[r]]>>]
    BY <1>7, Zenon DEF Unfolds
  <2>2. CASE r \in Stop
    <3>1. base[r] = IF r[2] - r[1] >= size THEN r[1] ELSE NoRoom
      OBVIOUS
    <3>2. FitStep(q, sp, size, f, r) = IF r[2] - r[1] >= size THEN r[1] ELSE NoRoom
      BY <2>2 DEF FitStep
    <3> QED
      BY <2>1, <2>2, <3>1, <3>2, Zenon
  <2>3. CASE r \notin Stop
    <3>1. next[r] = more(r) /\ more(r) \in X
      BY <2>3, <1>3, Zenon
    <3>2. f[more(r)] \in Int
      BY <3>1, <1>7
    <3>3. post[<<r, f[more(r)]>>] = f[more(r)]
      <4> HIDE DEF more, X
      <4> QED
        BY <3>2
    <3>4. FitStep(q, sp, size, f, r) = f[more(r)]
      <4>1. ~(r[2] - r[1] >= size) /\ FreeFrom(q, sp, r[2]) # {}
        BY <2>3
      <4> QED
        BY <4>1, Zenon DEF FitStep
    <3> HIDE DEF next, more, post, X, Stop
    <3> QED
      BY <2>1, <2>3, <3>1, <3>3, <3>4, Zenon
  <2> QED
    BY <2>2, <2>3
<1> QED
  BY <1>7, <1>8


(* What the search finds: the lowest free partition, among those that start  *)
(* at last or later, that is large enough.                                   *)
Fitting(q, sp, size, last) == {i \in FreeFrom(q, sp, last) : q[i].sectors >= size}
LowestFit(q, sp, size, last, x) ==
  IF Fitting(q, sp, size, last) = {} THEN x = NoRoom
  ELSE \E i \in Fitting(q, sp, size, last) :
         x = q[i].start /\ \A j \in Fitting(q, sp, size, last) : q[i].start <= q[j].start

(* Where the search can stand: nowhere yet, or at a free partition.          *)
Standing(q, sp, r) ==
  \/ r = <<0, 0>>
  \/ \E k \in FreeFrom(q, sp, 0) : r = <<q[k].start, EndOf(q[k])>>

(* After a free partition that is too small the search goes on behind it.    *)
LEMMA FitPassesBy ==
  ASSUME NEW q \in Seq(Entry), Row(q), NEW sp \in Nat \ {0}, NEW size \in Nat \ {0},
         NEW last \in Nat, NEW c \in FreeFrom(q, sp, last),
         \A j \in FreeFrom(q, sp, last) : q[c].start <= q[j].start
  PROVE  /\ q[c].sectors >= size => LowestFit(q, sp, size, last, q[c].start)
         /\ q[c].sectors < size =>
              Fitting(q, sp, size, last) = Fitting(q, sp, size, EndOf(q[c]))
<1>1. c \in 1..Len(q) /\ q[c].start >= last /\ q[c].start \in Nat /\ q[c].sectors \in Nat
      /\ EndOf(q[c]) \in Nat /\ EndOf(q[c]) > last
  <2>1. c \in 1..Len(q) /\ q[c].start >= last
    BY FreeFromFacts
  <2>2. q[c].start \in Nat /\ q[c].sectors \in Nat /\ EndOf(q[c]) \in Nat /\ q[c].start < EndOf(q[c])
    BY <2>1, RowNats
  <2> QED
    BY <2>1, <2>2
<1>2. ASSUME q[c].sectors >= size
      PROVE  LowestFit(q, sp, size, last, q[c].start)
  <2>1. c \in Fitting(q, sp, size, last)
    BY <1>2 DEF Fitting
  <2>2. \A j \in Fitting(q, sp, size, last) : q[c].start <= q[j].start
    BY DEF Fitting
  <2> QED
    BY <2>1, <2>2, Zenon DEF LowestFit
<1>3. ASSUME q[c].sectors < size
      PROVE  Fitting(q, sp, size, last) = Fitting(q, sp, size, EndOf(q[c]))
  <2>1. ASSUME NEW i \in Fitting(q, sp, size, last)
        PROVE  i \in Fitting(q, sp, size, EndOf(q[c]))
    <3>1. i \in FreeFrom(q, sp, last) /\ q[i].sectors >= size
      BY DEF Fitting
    <3>2. i \in 1..Len(q) /\ q[i].start \in Nat /\ q[i].sectors \in Nat
      BY <3>1, FreeFromFacts, RowNats
    <3>3. i # c
      BY <1>1, <1>3, <3>1, <3>2
    <3>4. Apart(q[i], q[c])
      BY <1>1, <3>2, <3>3 DEF Row, Disjoint
    <3>5. EndOf(q[c]) <= q[i].start
      <4>1. q[c].start <= q[i].start
        BY <3>1
      <4>2. q[i].start < EndOf(q[i]) /\ EndOf(q[i]) \in Nat
        BY <3>2, RowNats
      <4> QED
        BY <1>1, <3>2, <3>4, <4>1, <4>2 DEF Apart
    <3> QED
      BY <1>1, <3>1, <3>2, <3>5 DEF Fitting, FreeFrom
  <2>2. ASSUME NEW i \in Fitting(q, sp, size, EndOf(q[c]))
        PROVE  i \in Fitting(q, sp, size, last)
    <3>1. i \in FreeFrom(q, sp, EndOf(q[c])) /\ q[i].sectors >= size
      BY DEF Fitting
    <3>2. i \in 1..Len(q) /\ q[i].start >= EndOf(q[c])
      BY <1>1, <3>1, FreeFromFacts
    <3>3. q[i].start \in Nat
      BY <3>2, RowNats
    <3>4. q[i].start >= last
      BY <1>1, <3>2, <3>3
    <3> QED
      BY <3>1, <3>4 DEF Fitting, FreeFrom
  <2> QED
    BY <2>1, <2>2
<1> QED
  BY <1>2, <1>3

LEMMA FitFacts ==
  ASSUME NEW q \in Seq(Entry), Row(q), \A i \in 1..Len(q) : EndOf(q[i]) <= DevSize,
         NEW sp \in Nat \ {0}, NEW size \in Nat \ {0}
  PROVE  LowestFit(q, sp, size, 0, FirstFit(q, sp, size))
<1> DEFINE X == Nat \X Nat
           g == CHOOSE g : g = [r \in X |-> FitStep(q, sp, size, g, r)]
           Right(r) == r[2] - r[1] < size => LowestFit(q, sp, size, r[2], g[r])
           Bad == {l \in Nat : \E r \in X : r[2] = l /\ Standing(q, sp, r) /\ ~Right(r)}
<1>0. DevSize \in Nat /\ size \in Nat /\ size > 0
  BY SizesAssumption
<1>1. g = [r \in X |-> FitStep(q, sp, size, g, r)]
  <2>1. PICK f \in [X -> Int] : \A r \in X : f[r] = FitStep(q, sp, size, f, r)
    BY FitExists
  <2>2. f = [r \in X |-> FitStep(q, sp, size, f, r)]
    <3> HIDE DEF FitStep, X
    <3> QED
      BY <2>1
  <2> QED
    BY <2>2, Zenon
<1>2. FirstFit(q, sp, size) = g[<<0, 0>>]
  BY Zenon DEF FirstFit, FitStep
<1> HIDE DEF g
<1>3. \A r \in X : g[r] = FitStep(q, sp, size, g, r)
  <2> HIDE DEF FitStep, X
  <2> QED
    BY <1>1
<1>4. ASSUME NEW r \in X, r[2] - r[1] < size, FreeFrom(q, sp, r[2]) = {}
      PROVE  LowestFit(q, sp, size, r[2], g[r])
  <2>1. r[1] \in Nat /\ r[2] \in Nat
    OBVIOUS
  <2>2. ~(r[2] - r[1] >= size)
    BY <1>0, <1>4, <2>1
  <2>3. g[r] = NoRoom
    BY <1>3, <1>4, <2>2, Zenon DEF FitStep
  <2>4. Fitting(q, sp, size, r[2]) = {}
    BY <1>4 DEF Fitting
  <2> QED
    BY <2>3, <2>4 DEF LowestFit
<1>5. ASSUME NEW r \in X, Standing(q, sp, r), r[2] - r[1] < size,
             FreeFrom(q, sp, r[2]) # {}
      PROVE  \E c \in FreeFrom(q, sp, r[2]) :
               /\ \A j \in FreeFrom(q, sp, r[2]) : q[c].start <= q[j].start
               /\ g[r] = g[<<q[c].start, EndOf(q[c])>>]
  <2> DEFINE c == Closest(q, FreeFrom(q, sp, r[2]))
  <2>1. r[1] \in Nat /\ r[2] \in Nat
    OBVIOUS
  <2>2. ~(r[2] - r[1] >= size)
    BY <1>0, <1>5, <2>1
  <2>3. c \in FreeFrom(q, sp, r[2]) /\ \A j \in FreeFrom(q, sp, r[2]) : q[c].start <= q[j].start
    BY <1>5, <2>1, NextFree
  <2>4. g[r] = g[<<IF q[c].start = r[2] THEN r[1] ELSE q[c].start, q[c].start + q[c].sectors>>]
    BY <1>3, <1>5, <2>2, Zenon DEF FitStep
  <2> HIDE DEF c
  <2>5. c \in 1..Len(q) /\ q[c].type = "free"
    BY <2>1, <2>3, FreeFromFacts
  <2>6. q[c].start # r[2]
    <3>1. CASE r = <<0, 0>>
      <4>1. q[c].start > 0 /\ q[c].start \in Nat
        BY <2>5, RowNats
      <4>2. r[2] = 0
        BY <3>1
      <4> QED
        BY <4>1, <4>2
    <3>2. CASE r # <<0, 0>>
      <4>1. PICK k \in FreeFrom(q, sp, 0) : r = <<q[k].start, EndOf(q[k])>>
        BY <1>5, <3>2 DEF Standing
      <4>2. k \in 1..Len(q) /\ q[k].type = "free" /\ r[2] = EndOf(q[k])
        BY <4>1, FreeFromFacts
      <4> QED
        BY <4>2, <2>5 DEF Row, FreeMerged
    <3> QED
      BY <3>1, <3>2
  <2>7. q[c].start + q[c].sectors = EndOf(q[c])
    BY DEF EndOf
  <2>8. g[r] = g[<<q[c].start, EndOf(q[c])>>]
    BY <2>4, <2>6, <2>7
  <2> QED
    BY <2>3, <2>8
<1>6. Bad = {}
  <2> SUFFICES ASSUME Bad # {} PROVE FALSE
    OBVIOUS
  <2>1. \A l \in Bad : l \in Nat /\ l <= DevSize
    <3> SUFFICES ASSUME NEW r \in X, Standing(q, sp, r) PROVE r[2] <= DevSize
      OBVIOUS
    <3>1. CASE r = <<0, 0>>
      BY <3>1, <1>0
    <3>2. CASE r # <<0, 0>>
      <4>1. PICK k \in FreeFrom(q, sp, 0) : r = <<q[k].start, EndOf(q[k])>>
        BY <3>2 DEF Standing
      <4>2. k \in 1..Len(q) /\ r[2] = EndOf(q[k])
        BY <4>1, FreeFromFacts
      <4> QED
        BY <4>2
    <3> QED
      BY <3>1, <3>2
  <2>2. PICK l \in Bad : \A y \in Bad : y <= l
    <3> HIDE DEF Bad
    <3> QED
      BY <1>0, <2>1, GreatestNat, Zenon
  <2>3. PICK r \in X : r[2] = l /\ Standing(q, sp, r) /\ ~Right(r)
    OBVIOUS
  <2>4. r[2] - r[1] < size /\ ~LowestFit(q, sp, size, r[2], g[r]) /\ r[2] \in Nat
    BY <2>3
  <2>5. PICK c \in FreeFrom(q, sp, r[2]) :
          /\ \A j \in FreeFrom(q, sp, r[2]) : q[c].start <= q[j].start
          /\ g[r] = g[<<q[c].start, EndOf(q[c])>>]
    BY <2>3, <2>4, <1>4, <1>5
  <2> DEFINE s == <<q[c].start, EndOf(q[c])>>
  <2>6. /\ c \in 1..Len(q) /\ c \in FreeFrom(q, sp, 0)
        /\ q[c].start \in Nat /\ EndOf(q[c]) \in Nat /\ q[c].sectors \in Nat
        /\ EndOf(q[c]) - q[c].start = q[c].sectors
        /\ EndOf(q[c]) > r[2]
    <3>1. c \in sp..Len(q) /\ c \in 1..Len(q) /\ q[c].type = "free" /\ q[c].start >= r[2]
      BY <2>4, FreeFromFacts, SMTT(20)
    <3>2. /\ q[c].start \in Nat /\ EndOf(q[c]) \in Nat /\ q[c].sectors \in Nat
          /\ EndOf(q[c]) = q[c].start + q[c].sectors /\ q[c].sectors > 0
      BY <3>1, RowNats
    <3>3. c \in FreeFrom(q, sp, 0)
      BY <3>1, <3>2 DEF FreeFrom
    <3>4. EndOf(q[c]) - q[c].start = q[c].sectors
      BY ONLY <3>2
    <3>5. EndOf(q[c]) > r[2]
      BY ONLY <3>1, <3>2, <2>4, SMTT(20)
    <3> QED
      BY ONLY <3>1, <3>2, <3>3, <3>4, <3>5
  <2>7. s \in X /\ s[1] = q[c].start /\ s[2] = EndOf(q[c])
    BY <2>6
  <2>8. Standing(q, sp, s)
    BY <2>6 DEF Standing
  <2> HIDE DEF s
  <2>9. Right(s)
    <3>1. EndOf(q[c]) \notin Bad
      <4>1. ~(EndOf(q[c]) <= l)
        BY <2>3, <2>4, <2>6
      <4> HIDE DEF Bad
      <4> QED
        BY <2>2, <4>1
    <3> HIDE DEF Right, X
    <3> QED
      BY <3>1, <2>6, <2>7, <2>8
  <2>10. CASE q[c].sectors >= size
    <3>1. LowestFit(q, sp, size, r[2], q[c].start)
      BY <2>4, <2>5, <2>10, FitPassesBy
    <3>2. g[s] = q[c].start
      <4>1. s[2] - s[1] >= size
        BY <2>6, <2>7, <2>10
      <4> QED
        BY <1>3, <2>7, <4>1, Zenon DEF FitStep
    <3> QED
      BY <2>4, <2>5, <3>1, <3>2 DEF s
  <2>11. CASE ~(q[c].sectors >= size)
    <3>1. q[c].sectors < size
      BY <2>6, <2>11, <1>0, SMTT(20)
    <3>2. Fitting(q, sp, size, r[2]) = Fitting(q, sp, size, EndOf(q[c]))
      BY <2>4, <2>5, <3>1, FitPassesBy
    <3>3. LowestFit(q, sp, size, EndOf(q[c]), g[s])
      BY <2>6, <2>7, <2>9, <3>1
    <3>4. g[r] = g[s]
      BY <2>5 DEF s
    <3>5. LowestFit(q, sp, size, r[2], g[r])
      BY <3>2, <3>3, <3>4 DEF LowestFit
    <3> QED
      BY <2>4, <3>5
  <2> QED
    BY <2>10, <2>11
<1>7. <<0, 0>> \in X /\ <<0, 0>>[1] = 0 /\ <<0, 0>>[2] = 0 /\ Standing(q, sp, <<0, 0>>)
  BY DEF Standing
<1>8. Right(<<0, 0>>)
  <2>1. 0 \notin Bad
    BY <1>6
  <2> QED
    BY <1>7, <2>1
<1> QED
  BY <1>0, <1>2, <1>7, <1>8


(* A run of free sectors lies in one free partition, which is large enough.  *)
LEMMA RunInOne ==
  ASSUME NEW q \in Seq(Entry), Row(q), NEW sp \in Nat \ {0}, NEW size \in Nat \ {0},
         NEW s \in Runs(q, sp, size)
  PROVE  \E i \in Fitting(q, sp, size, 0) : q[i].start <= s
<1>0. DevSize \in Nat /\ size \in Nat /\ size > 0 /\ Len(q) \in Nat
  BY SizesAssumption
<1>1. s \in 1..DevSize /\ s \in Nat /\ s..(s + size - 1) \subseteq FreeSectors(q, sp)
  BY <1>0 DEF Runs
<1>2. \A x \in s..(s + size - 1) :
        \E i \in 1..Len(q) : /\ i \in sp..Len(q) /\ q[i].type = "free"
                             /\ q[i].start <= x /\ x < EndOf(q[i])
  <2> TAKE x \in s..(s + size - 1)
  <2>1. x \in FreeSectors(q, sp) /\ x \in Int
    BY <1>0, <1>1
  <2>2. PICK i \in sp..Len(q) : q[i].type = "free" /\ x \in Sectors(q[i])
    BY <2>1, Zenon DEF FreeSectors
  <2>3. i \in 1..Len(q)
    BY <1>0, <2>2
  <2>4. q[i].start \in Nat /\ q[i].sectors \in Nat /\ EndOf(q[i]) = q[i].start + q[i].sectors
    BY <2>3, RowNats
  <2>5. q[i].start <= x /\ x < EndOf(q[i])
    BY <2>1, <2>2, <2>4 DEF Sectors
  <2> QED
    BY <2>2, <2>3, <2>5
<1>3. s \in s..(s + size - 1)
  BY <1>0, <1>1
<1>4. PICK i \in 1..Len(q) : /\ i \in sp..Len(q) /\ q[i].type = "free"
                             /\ q[i].start <= s /\ s < EndOf(q[i])
  BY <1>2, <1>3
<1>5. q[i].start \in Nat /\ q[i].sectors \in Nat /\ EndOf(q[i]) \in Nat
      /\ EndOf(q[i]) = q[i].start + q[i].sectors
  BY RowNats
<1>6. ~(EndOf(q[i]) <= s + size - 1)
  <2> SUFFICES ASSUME EndOf(q[i]) <= s + size - 1 PROVE FALSE
    OBVIOUS
  <2>1. EndOf(q[i]) \in s..(s + size - 1)
    BY <1>0, <1>1, <1>4, <1>5
  <2>2. PICK j \in 1..Len(q) : /\ q[j].type = "free"
                               /\ q[j].start <= EndOf(q[i]) /\ EndOf(q[i]) < EndOf(q[j])
    BY <1>2, <2>1
  <2>3. q[j].start \in Nat
    BY RowNats
  <2>4. ~(q[j].start < EndOf(q[i]) /\ EndOf(q[i]) < EndOf(q[j]))
    BY NoneAcross
  <2>5. q[j].start = EndOf(q[i])
    BY <1>5, <2>2, <2>3, <2>4
  <2> QED
    BY <1>4, <2>2, <2>5 DEF Row, FreeMerged
<1>7. q[i].sectors >= size
  BY <1>0, <1>1, <1>4, <1>5, <1>6
<1>8. i \in Fitting(q, sp, size, 0)
  BY <1>4, <1>5, <1>7 DEF Fitting, FreeFrom
<1> QED
  BY <1>4, <1>8

(* A large enough free partition starts a run.                               *)
LEMMA OneIsRun ==
  ASSUME NEW q \in Seq(Entry), Row(q), \A i \in 1..Len(q) : EndOf(q[i]) <= DevSize,
         NEW sp \in Nat \ {0}, NEW size \in Nat \ {0}, NEW i \in Fitting(q, sp, size, 0)
  PROVE  q[i].start \in Runs(q, sp, size)
<1>0. DevSize \in Nat /\ size \in Nat /\ size > 0
  BY SizesAssumption
<1>1. i \in 1..Len(q) /\ i \in sp..Len(q) /\ q[i].type = "free" /\ q[i].sectors >= size
  BY FreeFromFacts DEF Fitting
<1>2. /\ q[i].start \in Nat /\ q[i].sectors \in Nat /\ q[i].start > 0
      /\ EndOf(q[i]) = q[i].start + q[i].sectors /\ EndOf(q[i]) <= DevSize
  BY <1>1, RowNats
<1>3. q[i].start \in 1..DevSize
  BY <1>0, <1>1, <1>2
<1>4. q[i].start..(q[i].start + size - 1) \subseteq Sectors(q[i])
  BY <1>0, <1>1, <1>2 DEF Sectors
<1>5. Sectors(q[i]) \subseteq FreeSectors(q, sp)
  <2>1. i \in {k \in sp..Len(q) : q[k].type = "free"}
    BY <1>1
  <2> QED
    BY <2>1, Zenon DEF FreeSectors
<1>6. q[i].start..(q[i].start + size - 1) \subseteq FreeSectors(q, sp)
  BY <1>4, <1>5, Zenon
<1> QED
  BY <1>3, <1>6, Zenon DEF Runs

(* The search is exact.                                                      *)
LEMMA FitIsExact ==
  ASSUME NEW q \in Seq(Entry), Row(q), \A i \in 1..Len(q) : EndOf(q[i]) <= DevSize,
         NEW sp \in Nat \ {0}, NEW size \in Nat \ {0}
  PROVE  IF Runs(q, sp, size) = {} THEN FirstFit(q, sp, size) = NoRoom
         ELSE /\ FirstFit(q, sp, size) \in Runs(q, sp, size)
              /\ \A s \in Runs(q, sp, size) : FirstFit(q, sp, size) <= s
<1> DEFINE f == FirstFit(q, sp, size)
           F == Fitting(q, sp, size, 0)
           R == Runs(q, sp, size)
<1>1. LowestFit(q, sp, size, 0, f)
  BY FitFacts
<1>2. \A s \in R : \E i \in F : q[i].start <= s
  BY RunInOne
<1>3. \A i \in F : q[i].start \in R
  BY OneIsRun
<1>4. \A i \in F : q[i].start \in Nat
  BY FreeFromFacts, RowNats DEF Fitting
<1>5. \A s \in R : s \in Nat
  BY SizesAssumption DEF Runs
<1>6. IF F = {} THEN f = NoRoom
      ELSE \E i \in F : f = q[i].start /\ \A j \in F : q[i].start <= q[j].start
  BY <1>1 DEF LowestFit
<1> HIDE DEF f, F, R
<1>7. CASE F = {}
  BY <1>2, <1>6, <1>7 DEF f, R
<1>8. CASE F # {}
  <2>1. PICK i \in F : f = q[i].start /\ \A j \in F : q[i].start <= q[j].start
    BY <1>6, <1>8
  <2>2. f \in R
    BY <2>1, <1>3
  <2>3. ASSUME NEW s \in R PROVE f <= s
    <3>1. PICK j \in F : q[j].start <= s
      BY <1>2
    <3>2. q[i].start <= q[j].start
      BY <2>1
    <3> QED
      BY <2>1, <3>1, <3>2, <1>4, <1>5
  <2> QED
    BY <2>2, <2>3 DEF f, R
<1> QED
  BY <1>7, <1>8


-----------------------------------------------------------------------------
(* Nth numbers the members of a set of slots, each once.                     *)
LEMMA NthOnce ==
  ASSUME NEW m \in Nat, NEW K, \A k \in K : k \in 1..m
  PROVE  /\ Cardinality(K) \in Nat
         /\ \A n \in 1..Cardinality(K) : Nth(K, n) \in K
         /\ \A n, o \in 1..Cardinality(K) : Nth(K, n) = Nth(K, o) => n = o
         /\ \A k \in K : \E n \in 1..Cardinality(K) : Nth(K, n) = k
<1> DEFINE Upto(j) == {k \in K : k <= j}
<1>1. IsFiniteSet(K) /\ Cardinality(K) \in Nat
  <2>1. K \subseteq 1..m /\ IsFiniteSet(1..m)
    BY FS_Interval
  <2>2. IsFiniteSet(K)
    BY <2>1, FS_Subset
  <2> QED
    BY <2>2, FS_CardinalityType
<1>2. \A n \in 1..Cardinality(K) : Nth(K, n) \in K /\ Cardinality(Upto(Nth(K, n))) = n
  BY NthInK
<1>3. \A j : /\ Upto(j) \subseteq K /\ IsFiniteSet(Upto(j)) /\ Cardinality(Upto(j)) \in Nat
             /\ Cardinality(Upto(j)) <= Cardinality(K)
  <2> TAKE j
  <2>1. Upto(j) \subseteq K
    OBVIOUS
  <2> HIDE DEF Upto
  <2>2. IsFiniteSet(Upto(j)) /\ Cardinality(Upto(j)) <= Cardinality(K)
    BY <1>1, <2>1, FS_Subset
  <2> QED
    BY <2>1, <2>2, FS_CardinalityType
<1>4. ASSUME NEW a \in K, NEW b \in K, a < b
      PROVE  Cardinality(Upto(a)) < Cardinality(Upto(b))
  <2>0. \A k \in K : k \in Int
    OBVIOUS
  <2>1. Upto(a) \subseteq Upto(b) /\ b \in Upto(b) /\ b \notin Upto(a)
    BY <2>0, <1>4
  <2>2. IsFiniteSet(Upto(a)) /\ IsFiniteSet(Upto(b))
        /\ Cardinality(Upto(a)) \in Nat /\ Cardinality(Upto(b)) \in Nat
    BY <1>3
  <2> HIDE DEF Upto
  <2>3. Upto(a) # Upto(b)
    BY <2>1
  <2>4. Cardinality(Upto(a)) <= Cardinality(Upto(b))
        /\ (Cardinality(Upto(b)) = Cardinality(Upto(a)) => Upto(a) = Upto(b))
    BY ONLY <2>1, <2>2, FS_Subset
  <2> QED
    BY <2>2, <2>3, <2>4
<1>5. ASSUME NEW k \in K
      PROVE  \E n \in 1..Cardinality(K) : Nth(K, n) = k
  <2> DEFINE n == Cardinality(Upto(k))
  <2>0. \A i \in K : i \in Int
    OBVIOUS
  <2>1. n \in Nat /\ n <= Cardinality(K) /\ IsFiniteSet(Upto(k))
    BY <1>3
  <2>2. k \in Upto(k)
    BY <2>0
  <2>3. n # 0
    <3> HIDE DEF Upto
    <3> QED
      BY <2>1, <2>2, FS_EmptySet
  <2>4. n \in 1..Cardinality(K)
    <3> HIDE DEF n
    <3> QED
      BY <1>1, <2>1, <2>3
  <2> HIDE DEF Upto
  <2>5. Nth(K, n) \in K /\ Cardinality(Upto(Nth(K, n))) = n
    BY <1>2, <2>4
  <2> DEFINE c == Nth(K, n)
  <2>6. c \in K /\ c \in Int /\ k \in Int /\ ~(c < k) /\ ~(k < c)
    <3>1. c \in K /\ Cardinality(Upto(c)) = Cardinality(Upto(k))
      BY <2>5
    <3> HIDE DEF c, n
    <3>2. c \in Int /\ k \in Int /\ Cardinality(Upto(k)) \in Nat
      BY <2>0, <3>1, <1>3
    <3> QED
      BY <1>4, <3>1, <3>2
  <2>7. c = k
    <3> HIDE DEF c
    <3> QED
      BY <2>6
  <2> QED
    BY <2>4, <2>7
<1>6. \A n, o \in 1..Cardinality(K) : Nth(K, n) = Nth(K, o) => n = o
  <2> HIDE DEF Upto
  <2> QED
    BY <1>2
<1> QED
  BY <1>1, <1>2, <1>5, <1>6


-----------------------------------------------------------------------------
(* Adding a partition at the start of the free partition of slot i: source 0 *)
(* is the new partition, source i what is left of the free one, if anything, *)
(* and source j any other slot.                                              *)
NewEntry(q, i, size) == [start |-> q[i].start, sectors |-> size, type |-> "data", refs |-> 1]
Rest(q, i, size) ==
  [start |-> q[i].start + size, sectors |-> q[i].sectors - size,
   type |-> q[i].type, refs |-> q[i].refs]
Source(q, i, size, j) ==
  IF j = 0 THEN NewEntry(q, i, size) ELSE IF j = i THEN Rest(q, i, size) ELSE q[j]
Slots(q, i, size)   == {j \in 1..Len(q) : j # i \/ q[i].sectors # size}
Sources(q, i, size) == {0} \cup Slots(q, i, size)
Place(q, sp, i, size) == i \in sp..Len(q) /\ q[i].type = "free" /\ q[i].sectors >= size

\* Of all entries only that of slot i starts in the range.
LEMMA OnlyOneStarts ==
  ASSUME NEW q \in Seq(Entry), Row(q), NEW i \in 1..Len(q), NEW size \in Nat \ {0},
         q[i].sectors >= size, NEW j \in 1..Len(q)
  PROVE  /\ StartsIn(q[j], q[i].start, q[i].start + size) <=> j = i
         /\ Inside(q[j], q[i].start, q[i].start + size) <=> j = i /\ q[i].sectors = size
<1>1. /\ q[i].start \in Nat /\ q[i].sectors \in Nat /\ EndOf(q[i]) = q[i].start + q[i].sectors
      /\ q[j].start \in Nat /\ q[j].sectors \in Nat
  BY RowNats
<1>2. ~(q[i].start < q[j].start /\ q[j].start < EndOf(q[i])) /\ (q[j].start = q[i].start => i = j)
  BY NoneAcross
<1>3. StartsIn(q[j], q[i].start, q[i].start + size) <=> j = i
  <2>1. CASE j = i
    BY <2>1, <1>1 DEF StartsIn
  <2>2. CASE j # i
    BY <2>2, <1>1, <1>2 DEF StartsIn
  <2> QED
    BY <2>1, <2>2
<1>4. q[i].start + q[i].sectors <= q[i].start + size <=> q[i].sectors = size
  BY <1>1
<1> QED
  BY <1>3, <1>4 DEF Inside

(* The deletion loop removes the free partition if the new one takes it all. *)
LEMMA RemovedIs ==
  ASSUME NEW q \in Seq(Entry), Row(q), NEW sp \in 2..(Len(q) + 1), NEW size \in Nat \ {0},
         NEW i, Place(q, sp, i, size)
  PROVE  /\ \A j \in sp..Len(q) :
              j \in Removed(q, sp, q[i].start, q[i].start + size) <=>
                j = i /\ q[i].sectors = size
         /\ Removed(q, sp, q[i].start, q[i].start + size) \subseteq sp..Len(q)
<1> DEFINE first == q[i].start
           last == q[i].start + size
           D == 0..Len(q)
           In(k) == Inside(q[k], first, last)
           g == CHOOSE g : g = [k \in D |-> /\ k >= sp
                                            /\ In(k)
                                            /\ ~g[k - 1]]
           G == [k \in D |-> k = i /\ q[i].sectors = size]
<1>0. /\ Len(q) \in Nat /\ sp \in Nat /\ sp >= 2 /\ i \in Nat /\ i >= sp /\ i <= Len(q)
      /\ i \in 1..Len(q) /\ i \in D /\ i - 1 \in D /\ q[i].sectors >= size
  BY DEF Place
<1>1. \A k \in sp..Len(q) : k \in D /\ k - 1 \in D /\ (In(k) <=> k = i /\ q[i].sectors = size)
  <2> TAKE k \in sp..Len(q)
  <2>1. k \in 1..Len(q) /\ k \in D /\ k - 1 \in D
    BY <1>0
  <2> QED
    BY <1>0, <2>1, OnlyOneStarts
<1> HIDE DEF In
<1>2. \A k \in D : G[k] = (k >= sp /\ In(k) /\ ~G[k - 1])
  <2> TAKE k \in D
  <2>1. CASE k >= sp
    <3>1. k \in sp..Len(q)
      BY <2>1, <1>0
    <3>2. G[k] = (k = i /\ q[i].sectors = size)
      OBVIOUS
    <3>3. In(k) <=> k = i /\ q[i].sectors = size
      BY <1>1, <3>1
    <3>4. k = i => ~G[k - 1]
      <4>1. i - 1 # i
        BY <1>0
      <4> QED
        BY <1>0, <4>1
    <3> HIDE DEF G
    <3> QED
      BY <2>1, <3>2, <3>3, <3>4
  <2>2. CASE ~(k >= sp)
    <3>1. k # i
      BY <2>2, <1>0
    <3>2. ~G[k]
      BY <3>1
    <3>3. G[k] \in BOOLEAN
      OBVIOUS
    <3> HIDE DEF G
    <3> QED
      BY <2>2, <3>2, <3>3
  <2> QED
    BY <2>1, <2>2
<1>3. G = [k \in D |-> /\ k >= sp
                       /\ In(k)
                       /\ ~G[k - 1]]
  <2> DEFINE H == [k \in D |-> /\ k >= sp
                               /\ In(k)
                               /\ ~G[k - 1]]
  <2>1. G = [k \in D |-> G[k]]
    OBVIOUS
  <2> HIDE DEF G, D
  <2>2. [k \in D |-> G[k]] = H
    BY <1>2
  <2> QED
    BY <2>1, <2>2
<1>4. g = [k \in D |-> /\ k >= sp
                       /\ In(k)
                       /\ ~g[k - 1]]
  BY <1>3, Zenon
<1>5. Removed(q, sp, first, last) = {k \in sp..Len(q) : g[k]}
  BY Zenon DEF Removed, In
<1> HIDE DEF g, G
<1>6. \A k \in D : g[k] = (k >= sp /\ In(k) /\ ~g[k - 1])
  <2> HIDE DEF D
  <2> QED
    BY <1>4, Zenon
<1>7. ~g[i - 1]
  <2>1. CASE i - 1 >= sp
    <3>1. i - 1 \in sp..Len(q) /\ i - 1 # i
      BY <1>0, <2>1
    <3>2. ~In(i - 1)
      BY <1>1, <3>1
    <3> QED
      BY <1>0, <1>6, <3>2, Zenon
  <2>2. CASE ~(i - 1 >= sp)
    BY <1>0, <1>6, <2>2, Zenon
  <2> QED
    BY <2>1, <2>2
<1>8. ASSUME NEW k \in sp..Len(q)
      PROVE  g[k] <=> k = i /\ q[i].sectors = size
  <2>1. k \in D /\ k >= sp
    BY <1>0
  <2>2. g[k] = (k >= sp /\ In(k) /\ ~g[k - 1])
    BY <1>6, <2>1
  <2>3. In(k) <=> k = i /\ q[i].sectors = size
    BY <1>1
  <2> QED
    BY <2>1, <2>2, <2>3, <1>7, Zenon
<1> QED
  BY <1>5, <1>8


(* The slots the loop leaves, in their order.                                *)
Kept(q, sp, i, size) == {j \in sp..Len(q) : j # i \/ q[i].sectors # size}

LEMMA TrimmedIs ==
  ASSUME NEW q \in Seq(Entry), Row(q), NEW sp \in 2..(Len(q) + 1), NEW size \in Nat \ {0},
         NEW i, Place(q, sp, i, size), NEW k \in Kept(q, sp, i, size)
  PROVE  Trimmed(q, k, Removed(q, sp, q[i].start, q[i].start + size),
                 q[i].start, q[i].start + size) = Source(q, i, size, k)
<1> DEFINE first == q[i].start
           last == q[i].start + size
           gone == Removed(q, sp, first, last)
<1>0. /\ i \in 1..Len(q) /\ k \in 1..Len(q) /\ q[i].sectors >= size
      /\ i \in Nat /\ k # 0 /\ (k # i \/ q[i].sectors # size)
  <2>1. Len(q) \in Nat /\ sp \in Nat /\ sp >= 2
    OBVIOUS
  <2>2. k \in sp..Len(q) /\ i \in sp..Len(q) /\ (k # i \/ q[i].sectors # size)
    BY DEF Kept, Place
  <2> QED
    BY <2>1, <2>2 DEF Place
<1>1. (StartsIn(q[k], first, last) <=> k = i)
      /\ (Inside(q[k], first, last) <=> k = i /\ q[i].sectors = size)
  BY <1>0, OnlyOneStarts
<1>2. CASE k = i
  <2>1. i - 1 \notin gone
    <3>1. i - 1 # i
      BY <1>0
    <3> QED
      BY <3>1, RemovedIs
  <2>2. q[i].start + q[i].sectors - last = q[i].sectors - size
    <3>1. q[i].start \in Nat /\ q[i].sectors \in Nat /\ size \in Nat
      BY <1>0, RowNats
    <3> QED
      BY <3>1
  <2>3. Source(q, i, size, k) = Rest(q, i, size)
    BY <1>0, <1>2 DEF Source
  <2>4. i - 1 \notin gone /\ StartsIn(q[i], first, last) /\ ~Inside(q[i], first, last)
    BY <1>0, <1>1, <1>2, <2>1
  <2>5. Trimmed(q, i, gone, first, last) =
          [start |-> last, sectors |-> q[i].start + q[i].sectors - last,
           type |-> q[i].type, refs |-> q[i].refs]
    <3> HIDE DEF gone, first, last
    <3> QED
      BY <2>4, Zenon DEF Trimmed
  <2> QED
    BY <1>2, <2>2, <2>3, <2>5 DEF Rest
<1>3. CASE k # i
  <2>1. Source(q, i, size, k) = q[k]
    BY <1>0, <1>3 DEF Source
  <2>2. Trimmed(q, k, gone, first, last) = q[k]
    BY <1>1, <1>3, Zenon DEF Trimmed
  <2> QED
    BY <2>1, <2>2
<1> QED
  BY <1>2, <1>3

LEMMA SweptIs ==
  ASSUME NEW q \in Seq(Entry), Row(q), NEW sp \in 2..(Len(q) + 1), NEW size \in Nat \ {0},
         NEW i, Place(q, sp, i, size)
  PROVE  \E s \in Seq(Entry) :
           /\ Swept(q, sp, q[i].start, q[i].start + size) = s
           /\ Len(s) = sp - 1 + Cardinality(Kept(q, sp, i, size))
           /\ \A m \in 1..(sp - 1) : s[m] = q[m]
           /\ \A m \in sp..Len(s) : s[m] = Source(q, i, size, Nth(Kept(q, sp, i, size), m - sp + 1))
<1> DEFINE first == q[i].start
           last == q[i].start + size
           gone == Removed(q, sp, first, last)
           K == Kept(q, sp, i, size)
           n == Cardinality(K)
           head == SubSeq(q, 1, sp - 1)
           tail == [k \in 1..n |-> Trimmed(q, Nth(K, k), gone, first, last)]
           s == head \o tail
<1>0. Len(q) \in Nat /\ sp \in Nat /\ sp - 1 \in 1..Len(q)
  OBVIOUS
<1>1. \A k \in K : k \in sp..Len(q) /\ k \in 1..Len(q)
  BY <1>0 DEF Kept
<1>2. n \in Nat /\ \A k \in 1..n : Nth(K, k) \in K
  <2> HIDE DEF K
  <2> QED
    BY <1>0, <1>1, NthOnce
<1>3. (sp..Len(q)) \ gone = K
  <2>1. \A j \in sp..Len(q) : j \in gone <=> j = i /\ q[i].sectors = size
    BY RemovedIs
  <2> QED
    BY <2>1 DEF Kept
<1>4. Swept(q, sp, first, last) = s
  <2> DEFINE L == (sp..Len(q)) \ gone
  <2>1. Swept(q, sp, first, last) =
          head \o [k \in 1..Cardinality(L) |-> Trimmed(q, Nth(L, k), gone, first, last)]
    BY DEF Swept
  <2>2. L = K
    BY <1>3
  <2> HIDE DEF L, K, gone
  <2> QED
    BY <2>1, <2>2
<1>5. first \in Nat /\ last \in Nat /\ \A k \in 1..n : tail[k] \in Entry
  <2>1. i \in 1..Len(q)
    BY <1>0 DEF Place
  <2>2. first \in Nat /\ last \in Nat
    BY <2>1, RowNats
  <2> HIDE DEF K, gone, first, last, n
  <2>3. \A k \in 1..n : Nth(K, k) \in 1..Len(q)
    BY <1>1, <1>2
  <2>4. \A k \in 1..n : Trimmed(q, Nth(K, k), gone, first, last) \in Entry
    BY <2>2, <2>3, TrimmedFacts
  <2> QED
    BY <2>2, <2>4
<1>6. \A k \in 1..n : tail[k] = Source(q, i, size, Nth(K, k))
  <2> TAKE k \in 1..n
  <2>1. Nth(K, k) \in K
    BY <1>2
  <2>2. Trimmed(q, Nth(K, k), gone, first, last) = Source(q, i, size, Nth(K, k))
    BY <2>1, TrimmedIs
  <2> HIDE DEF K, gone, first, last, n
  <2> QED
    BY <2>2
<1> HIDE DEF n
<1>7. tail \in Seq(Entry) /\ Len(tail) = n
  BY <1>2, <1>5
<1>8. head \in Seq(Entry) /\ Len(head) = sp - 1 /\ \A m \in 1..(sp - 1) : head[m] = q[m]
  BY <1>0
<1> HIDE DEF head, tail, K
<1>9. /\ s \in Seq(Entry) /\ Len(s) = sp - 1 + n
      /\ \A m \in 1..(sp - 1 + n) : s[m] = IF m <= sp - 1 THEN head[m] ELSE tail[m - (sp - 1)]
  <2>1. /\ s \in Seq(Entry)
        /\ Len(s) = Len(head) + Len(tail)
        /\ \A m \in 1..(Len(head) + Len(tail)) :
             s[m] = IF m <= Len(head) THEN head[m] ELSE tail[m - Len(head)]
    BY <1>7, <1>8, ConcatProperties
  <2> QED
    BY <2>1, <1>7, <1>8
<1> HIDE DEF s
<1>10. \A m \in 1..(sp - 1) : s[m] = q[m]
  <2> TAKE m \in 1..(sp - 1)
  <2>1. m \in 1..(sp - 1 + n) /\ m <= sp - 1
    BY <1>0, <1>2
  <2> QED
    BY <2>1, <1>8, <1>9
<1>11. \A m \in sp..Len(s) : s[m] = Source(q, i, size, Nth(K, m - sp + 1))
  <2> TAKE m \in sp..Len(s)
  <2>1. m \in 1..(sp - 1 + n) /\ ~(m <= sp - 1) /\ m - (sp - 1) \in 1..n /\ m - (sp - 1) = m - sp + 1
    BY <1>0, <1>2, <1>9
  <2>2. s[m] = tail[m - sp + 1]
    BY <2>1, <1>9
  <2> QED
    BY <2>1, <2>2, <1>6
<1> QED
  BY <1>4, <1>9, <1>10, <1>11 DEF n, K


(* The new table is a rearrangement of the sources.                          *)
Rearranged(q, i, size, r, phi) ==
  /\ phi \in [1..Len(r) -> Sources(q, i, size)]
  /\ \A k, l \in 1..Len(r) : phi[k] = phi[l] => k = l
  /\ \A j \in Sources(q, i, size) : \E k \in 1..Len(r) : phi[k] = j
  /\ \A k \in 1..Len(r) : r[k] = Source(q, i, size, phi[k])

SweptInto(q, sp, i, size, s, sig) ==
  /\ sig \in [1..Len(s) -> Slots(q, i, size)]
  /\ Swept(q, sp, q[i].start, q[i].start + size) = s
  /\ Len(s) >= 1
  /\ \A k, l \in 1..Len(s) : sig[k] = sig[l] => k = l
  /\ \A j \in Slots(q, i, size) : \E k \in 1..Len(s) : sig[k] = j
  /\ \A k \in 1..Len(s) : s[k] = Source(q, i, size, sig[k])

LEMMA SweptRearranges ==
  ASSUME NEW q \in Seq(Entry), Row(q), NEW sp \in 2..(Len(q) + 1), NEW size \in Nat \ {0},
         NEW i, Place(q, sp, i, size)
  PROVE  \E s \in Seq(Entry) : \E sig : SweptInto(q, sp, i, size, s, sig)
<1> DEFINE K == Kept(q, sp, i, size)
           n == Cardinality(K)
<1>0. /\ Len(q) \in Nat /\ sp \in Nat /\ sp >= 2 /\ i \in Nat /\ i >= sp /\ i <= Len(q)
      /\ sp - 1 >= 1
  BY DEF Place
<1>1. PICK s \in Seq(Entry) :
        /\ Swept(q, sp, q[i].start, q[i].start + size) = s
        /\ Len(s) = sp - 1 + n
        /\ \A m \in 1..(sp - 1) : s[m] = q[m]
        /\ \A m \in sp..Len(s) : s[m] = Source(q, i, size, Nth(K, m - sp + 1))
  BY SweptIs
<1>2. \A k \in K : k \in 1..Len(q) /\ k >= sp
  BY <1>0 DEF Kept
<1>3. /\ n \in Nat
      /\ \A k \in 1..n : Nth(K, k) \in K
      /\ \A k, l \in 1..n : Nth(K, k) = Nth(K, l) => k = l
      /\ \A k \in K : \E l \in 1..n : Nth(K, l) = k
  <2> HIDE DEF K
  <2> QED
    BY <1>0, <1>2, NthOnce
<1>4. \A j : j \in Slots(q, i, size) <=> j \in 1..(sp - 1) \/ j \in K
  BY <1>0 DEF Slots, Kept
<1> HIDE DEF K, n
<1>5. \A m \in sp..Len(s) : m - sp + 1 \in 1..n /\ Nth(K, m - sp + 1) \in K
  BY <1>0, <1>1, <1>3
<1> DEFINE sig == [m \in 1..Len(s) |-> IF m < sp THEN m ELSE Nth(K, m - sp + 1)]
<1>6. \A m \in 1..Len(s) :
        \/ m \in 1..(sp - 1) /\ sig[m] = m
        \/ m \in sp..Len(s) /\ sig[m] = Nth(K, m - sp + 1)
  BY <1>0, <1>1, <1>3
<1>7. sig = [m \in 1..Len(s) |-> sig[m]]
  OBVIOUS
<1> HIDE DEF sig
<1>8. \A m \in 1..Len(s) : sig[m] \in Slots(q, i, size)
  BY <1>4, <1>5, <1>6
<1>9. sig \in [1..Len(s) -> Slots(q, i, size)]
  BY <1>7, <1>8
<1>10. ASSUME NEW k \in 1..Len(s), NEW l \in 1..Len(s), sig[k] = sig[l]
       PROVE  k = l
  <2>1. CASE k \in 1..(sp - 1) /\ sig[k] = k /\ l \in 1..(sp - 1) /\ sig[l] = l
    BY <2>1, <1>10
  <2>2. CASE k \in sp..Len(s) /\ sig[k] = Nth(K, k - sp + 1)
             /\ l \in sp..Len(s) /\ sig[l] = Nth(K, l - sp + 1)
    <3>1. k - sp + 1 = l - sp + 1
      BY <2>2, <1>3, <1>5, <1>10
    <3> QED
      BY <2>2, <3>1, <1>0
  <2>3. \A m \in 1..(sp - 1) : m \notin K
    BY <1>0, <1>2
  <2> QED
    BY <2>1, <2>2, <2>3, <1>5, <1>6, <1>10
<1>11. ASSUME NEW j \in Slots(q, i, size)
       PROVE  \E k \in 1..Len(s) : sig[k] = j
  <2>1. CASE j \in 1..(sp - 1)
    <3>1. j \in 1..Len(s) /\ j \notin sp..Len(s)
      BY <2>1, <1>0, <1>1, <1>3
    <3> QED
      BY <3>1, <1>6
  <2>2. CASE j \in K
    <3>1. PICK l \in 1..n : Nth(K, l) = j
      BY <2>2, <1>3
    <3>2. /\ l + sp - 1 \in 1..Len(s) /\ l + sp - 1 \notin 1..(sp - 1)
          /\ (l + sp - 1) - sp + 1 = l
      BY <3>1, <1>0, <1>1, <1>3
    <3>3. sig[l + sp - 1] = Nth(K, (l + sp - 1) - sp + 1)
      BY <3>2, <1>6
    <3> QED
      BY <3>1, <3>2, <3>3
  <2> QED
    BY <2>1, <2>2, <1>4
<1>12. ASSUME NEW k \in 1..Len(s)
       PROVE  s[k] = Source(q, i, size, sig[k])
  <2>1. CASE k \in 1..(sp - 1) /\ sig[k] = k
    <3>1. k # 0 /\ k # i
      BY <2>1, <1>0
    <3> QED
      BY <2>1, <3>1, <1>1 DEF Source
  <2>2. CASE k \in sp..Len(s) /\ sig[k] = Nth(K, k - sp + 1)
    BY <2>2, <1>1
  <2> QED
    BY <2>1, <2>2, <1>6
<1>13. Len(s) >= 1
  BY <1>0, <1>1, <1>3
<1>14. SweptInto(q, sp, i, size, s, sig)
  BY <1>1, <1>9, <1>10, <1>11, <1>12, <1>13, Zenon DEF SweptInto
<1> QED
  BY <1>14

LEMMA AddRearranges ==
  ASSUME NEW q \in Seq(Entry), Row(q), NEW sp \in 2..(Len(q) + 1), NEW size \in Nat \ {0},
         NEW i, Place(q, sp, i, size), NEW before \in Nat
  PROVE  /\ WithPartition(q, sp, q[i].start, size, before) \in Seq(Entry)
         /\ \E phi : Rearranged(q, i, size, WithPartition(q, sp, q[i].start, size, before), phi)
<1> DEFINE e == NewEntry(q, i, size)
           r == WithPartition(q, sp, q[i].start, size, before)
<1>1. PICK s \in Seq(Entry) : \E sig : SweptInto(q, sp, i, size, s, sig)
  BY SweptRearranges, Zenon
<1>2. PICK sig : SweptInto(q, sp, i, size, s, sig)
  BY <1>1
<1>3. /\ sig \in [1..Len(s) -> Slots(q, i, size)]
      /\ Swept(q, sp, q[i].start, q[i].start + size) = s
      /\ Len(s) >= 1
      /\ \A k, l \in 1..Len(s) : sig[k] = sig[l] => k = l
      /\ \A j \in Slots(q, i, size) : \E k \in 1..Len(s) : sig[k] = j
      /\ \A k \in 1..Len(s) : s[k] = Source(q, i, size, sig[k])
  BY <1>2, Zenon DEF SweptInto
<1> DEFINE slot == NewSlot(s, before)
<1>4. Len(s) \in Nat
  OBVIOUS
<1>5. slot \in 1..(Len(s) + 1) /\ slot \in Nat
  <2>1. 2 \in 2..(Len(s) + 1) /\ before \notin 2..(2 - 1)
    BY <1>3, <1>4
  <2>2. slot \in 2..(Len(s) + 1)
    BY <2>1, NewSlotFacts
  <2> HIDE DEF slot
  <2> QED
    BY <1>4, <2>2
<1>6. e \in Entry
  <2>1. i \in 1..Len(q)
    BY DEF Place
  <2>2. q[i].start \in Nat
    BY <2>1, RowNats
  <2> QED
    BY <2>2 DEF NewEntry, Entry, Types
<1>7. r = Inserted(s, slot, e)
  BY <1>3 DEF WithPartition, NewEntry
<1> HIDE DEF slot, e, r
<1>8. /\ r \in Seq(Entry) /\ Len(r) = Len(s) + 1
      /\ \A k \in 1..Len(r) : r[k] = IF k < slot THEN s[k] ELSE IF k = slot THEN e ELSE s[k - 1]
  <2>1. IsInserted(r, s, slot, e)
    BY <1>5, <1>6, <1>7, InsertedFacts, Zenon
  <2> QED
    BY <2>1 DEF IsInserted
<1> DEFINE phi == [k \in 1..Len(r) |-> IF k < slot THEN sig[k] ELSE IF k = slot THEN 0 ELSE sig[k - 1]]
<1>9. \A k \in 1..Len(r) :
        \/ k < slot /\ k \in 1..Len(s) /\ phi[k] = sig[k] /\ r[k] = s[k]
        \/ k = slot /\ phi[k] = 0 /\ r[k] = e
        \/ k > slot /\ k - 1 \in 1..Len(s) /\ phi[k] = sig[k - 1] /\ r[k] = s[k - 1]
  <2> TAKE k \in 1..Len(r)
  <2>0. k \in Int
    OBVIOUS
  <2>1. phi[k] = IF k < slot THEN sig[k] ELSE IF k = slot THEN 0 ELSE sig[k - 1]
    OBVIOUS
  <2>2. r[k] = IF k < slot THEN s[k] ELSE IF k = slot THEN e ELSE s[k - 1]
    BY <1>8
  <2> HIDE DEF phi
  <2>3. CASE k < slot
    BY <2>1, <2>2, <2>3, <1>4, <1>5
  <2>4. CASE k = slot
    <3>1. ~(k < slot)
      BY <2>4, <1>5
    <3> QED
      BY ONLY <2>1, <2>2, <2>4, <3>1
  <2>5. CASE k > slot
    <3>1. ~(k < slot) /\ k # slot /\ k - 1 \in 1..Len(s)
      BY <2>0, <2>5, <1>4, <1>5, <1>8
    <3> QED
      BY ONLY <2>1, <2>2, <2>5, <3>1
  <2> QED
    BY <2>0, <2>3, <2>4, <2>5, <1>5
<1>10. phi = [k \in 1..Len(r) |-> phi[k]]
  OBVIOUS
<1> HIDE DEF phi
<1>11. \A k \in 1..Len(s) : sig[k] \in Slots(q, i, size) /\ sig[k] # 0
  <2>1. 0 \notin Slots(q, i, size)
    BY DEF Slots
  <2> QED
    BY <2>1, <1>3
<1>12. phi \in [1..Len(r) -> Sources(q, i, size)]
  <2>1. \A k \in 1..Len(r) : phi[k] \in Sources(q, i, size)
    BY <1>9, <1>11 DEF Sources
  <2> QED
    BY <2>1, <1>10
<1>13. ASSUME NEW k \in 1..Len(r), NEW l \in 1..Len(r), phi[k] = phi[l]
       PROVE  k = l
  <2>0. k \in Int /\ l \in Int
    OBVIOUS
  <2>1. CASE k = slot
    <3>1. phi[l] = 0
      BY <2>1, <1>5, <1>9, <1>13
    <3> QED
      BY <2>1, <3>1, <1>9, <1>11
  <2>2. CASE l = slot
    <3>1. phi[k] = 0
      BY <2>2, <1>5, <1>9, <1>13
    <3> QED
      BY <2>2, <3>1, <1>9, <1>11
  <2>3. CASE k < slot /\ l < slot
    BY <2>3, <1>3, <1>5, <1>9, <1>13, <2>0
  <2>4. CASE k > slot /\ l > slot
    <3>1. k - 1 = l - 1
      BY <2>4, <1>3, <1>5, <1>9, <1>13, <2>0
    <3> QED
      BY <3>1, <2>0
  <2>5. CASE k < slot /\ l > slot
    <3>1. k = l - 1
      BY <2>5, <1>3, <1>5, <1>9, <1>13, <2>0
    <3> QED
      BY <3>1, <2>0, <2>5, <1>5
  <2>6. CASE k > slot /\ l < slot
    <3>1. k - 1 = l
      BY <2>6, <1>3, <1>5, <1>9, <1>13, <2>0
    <3> QED
      BY <3>1, <2>0, <2>6, <1>5
  <2> QED
    BY <2>0, <2>1, <2>2, <2>3, <2>4, <2>5, <2>6, <1>5
<1>14. ASSUME NEW j \in Sources(q, i, size)
       PROVE  \E k \in 1..Len(r) : phi[k] = j
  <2>1. CASE j = 0
    <3>1. slot \in 1..Len(r)
      BY <1>4, <1>5, <1>8
    <3>2. ~(slot < slot) /\ ~(slot > slot)
      BY <1>5
    <3> QED
      BY <2>1, <3>1, <3>2, <1>9
  <2>2. CASE j \in Slots(q, i, size)
    <3>1. PICK m \in 1..Len(s) : sig[m] = j
      BY <2>2, <1>3
    <3>2. CASE m < slot
      <4>1. m \in 1..Len(r) /\ m # slot /\ ~(m > slot)
        BY <3>1, <3>2, <1>4, <1>5, <1>8
      <4> QED
        BY <3>1, <4>1, <1>9
    <3>3. CASE ~(m < slot)
      <4>1. m + 1 \in 1..Len(r) /\ m + 1 # slot /\ ~(m + 1 < slot) /\ (m + 1) - 1 = m
        BY <3>1, <3>3, <1>4, <1>5, <1>8
      <4> QED
        BY <3>1, <4>1, <1>9
    <3> QED
      BY <3>2, <3>3
  <2> QED
    BY <2>1, <2>2 DEF Sources
<1>15. ASSUME NEW k \in 1..Len(r)
       PROVE  r[k] = Source(q, i, size, phi[k])
  <2>1. CASE k = slot
    <3>1. phi[k] = 0 /\ r[k] = e
      BY <2>1, <1>5, <1>9
    <3> QED
      BY <3>1 DEF Source, e
  <2>2. CASE k \in 1..Len(s) /\ phi[k] = sig[k] /\ r[k] = s[k]
    <3>1. s[k] = Source(q, i, size, sig[k])
      BY <2>2, <1>3, Zenon
    <3> QED
      BY <2>2, <3>1, Zenon
  <2>3. CASE k - 1 \in 1..Len(s) /\ phi[k] = sig[k - 1] /\ r[k] = s[k - 1]
    <3>1. s[k - 1] = Source(q, i, size, sig[k - 1])
      BY <2>3, <1>3, Zenon
    <3> QED
      BY <2>3, <3>1, Zenon
  <2> QED
    BY <2>1, <2>2, <2>3, <1>9, Zenon
<1>16. Rearranged(q, i, size, r, phi)
  BY <1>12, <1>13, <1>14, <1>15, Zenon DEF Rearranged
<1> QED
  BY <1>8, <1>16 DEF r


-----------------------------------------------------------------------------
(* What the sources are.                                                     *)
LEMMA SourceIs ==
  ASSUME NEW q \in Seq(Entry), Row(q), NEW i \in 1..Len(q), NEW size \in Nat \ {0},
         q[i].type = "free", q[i].sectors >= size, NEW j \in Sources(q, i, size)
  PROVE  /\ Source(q, i, size, j).start \in Nat /\ Source(q, i, size, j).start > 0
         /\ Source(q, i, size, j).sectors \in Nat /\ Source(q, i, size, j).sectors > 0
         /\ EndOf(Source(q, i, size, j)) \in Nat
         /\ Source(q, i, size, j).start < EndOf(Source(q, i, size, j))
         /\ \/ /\ j = 0
               /\ Source(q, i, size, j).start = q[i].start
               /\ EndOf(Source(q, i, size, j)) = q[i].start + size
               /\ Source(q, i, size, j).type = "data"
            \/ /\ j = i /\ q[i].sectors # size
               /\ Source(q, i, size, j).start = q[i].start + size
               /\ EndOf(Source(q, i, size, j)) = EndOf(q[i])
               /\ Source(q, i, size, j).type = "free"
            \/ /\ j \in 1..Len(q) /\ j # i
               /\ Source(q, i, size, j) = q[j]
<1>0. /\ q[i].start \in Nat /\ q[i].sectors \in Nat /\ q[i].start > 0
      /\ EndOf(q[i]) = q[i].start + q[i].sectors /\ i # 0
  BY RowNats
<1> DEFINE p == Source(q, i, size, j)
<1>1. CASE j = 0
  <2>1. p = NewEntry(q, i, size)
    BY <1>1 DEF Source
  <2> HIDE DEF p
  <2>2. p.start = q[i].start /\ p.sectors = size /\ p.type = "data"
    BY <2>1 DEF NewEntry
  <2>3. EndOf(p) = q[i].start + size
    BY <2>2 DEF EndOf
  <2> QED
    BY <1>0, <1>1, <2>2, <2>3 DEF p
<1>2. CASE j = i
  <2>1. p = Rest(q, i, size) /\ q[i].sectors # size
    BY <1>0, <1>2 DEF Source, Sources, Slots
  <2> HIDE DEF p
  <2>2. p.start = q[i].start + size /\ p.sectors = q[i].sectors - size /\ p.type = "free"
    BY <2>1 DEF Rest
  <2>3. EndOf(p) = (q[i].start + size) + (q[i].sectors - size)
    BY <2>2 DEF EndOf
  <2>4. EndOf(p) = EndOf(q[i]) /\ q[i].sectors - size > 0 /\ q[i].sectors - size \in Nat
    BY <1>0, <2>1, <2>3
  <2> QED
    BY <1>0, <1>2, <2>1, <2>2, <2>4 DEF p
<1>3. CASE j # 0 /\ j # i
  <2>1. j \in 1..Len(q)
    BY <1>3 DEF Sources, Slots
  <2>2. p = q[j]
    BY <1>3 DEF Source
  <2> HIDE DEF p
  <2>3. /\ q[j].start \in Nat /\ q[j].sectors \in Nat /\ EndOf(q[j]) \in Nat
        /\ q[j].start > 0 /\ q[j].sectors > 0 /\ q[j].start < EndOf(q[j])
    BY <2>1, RowNats
  <2> QED
    BY <1>3, <2>1, <2>2, <2>3 DEF p
<1> QED
  BY <1>1, <1>2, <1>3

(* They are a row, as the slots were.                                        *)
LEMMA SourcesApart ==
  ASSUME NEW q \in Seq(Entry), Row(q), NEW i \in 1..Len(q), NEW size \in Nat \ {0},
         q[i].type = "free", q[i].sectors >= size,
         NEW j \in Sources(q, i, size), NEW k \in Sources(q, i, size), j # k
  PROVE  Apart(Source(q, i, size, j), Source(q, i, size, k))
<1> DEFINE P(l) == Source(q, i, size, l)
<1>0. /\ q[i].start \in Nat /\ q[i].sectors \in Nat
      /\ EndOf(q[i]) = q[i].start + q[i].sectors
  BY RowNats
<1>1. ASSUME NEW l \in Sources(q, i, size)
      PROVE  \/ /\ l = 0 \/ l = i
                /\ q[i].start <= P(l).start /\ EndOf(P(l)) <= EndOf(q[i])
                /\ P(l).start \in Nat /\ EndOf(P(l)) \in Nat
             \/ l \in 1..Len(q) /\ l # i /\ P(l) = q[l]
  <2>1. /\ P(l).start \in Nat /\ EndOf(P(l)) \in Nat
        /\ \/ l = 0 /\ P(l).start = q[i].start /\ EndOf(P(l)) = q[i].start + size
           \/ l = i /\ P(l).start = q[i].start + size /\ EndOf(P(l)) = EndOf(q[i])
           \/ l \in 1..Len(q) /\ l # i /\ P(l) = q[l]
    BY SourceIs
  <2> HIDE DEF P
  <2> QED
    BY <1>0, <2>1
<1>2. ASSUME NEW l \in Sources(q, i, size), NEW m \in 1..Len(q), m # i,
             l = 0 \/ l = i,
             q[i].start <= P(l).start, EndOf(P(l)) <= EndOf(q[i]),
             P(l).start \in Nat, EndOf(P(l)) \in Nat
      PROVE  Apart(P(l), q[m]) /\ Apart(q[m], P(l))
  <2>1. EndOf(q[i]) <= q[m].start \/ EndOf(q[m]) <= q[i].start
    BY <1>2 DEF Row, Disjoint, Apart
  <2>2. q[m].start \in Nat /\ EndOf(q[m]) \in Nat
    BY RowNats
  <2> HIDE DEF P
  <2> QED
    BY <1>0, <1>2, <2>1, <2>2, SMTT(20) DEF Apart
<1>3. CASE (j = 0 \/ j = i) /\ (k = 0 \/ k = i)
  <2>1. i # 0
    OBVIOUS
  <2>2. CASE j = 0 /\ k = i
    <3>1. EndOf(P(j)) = q[i].start + size /\ P(k).start = q[i].start + size
      BY <2>1, <2>2, SourceIs
    <3> HIDE DEF P
    <3>2. EndOf(P(j)) <= P(k).start
      BY <3>1, <1>0
    <3> QED
      BY <3>2 DEF Apart, P
  <2>3. CASE j = i /\ k = 0
    <3>1. EndOf(P(k)) = q[i].start + size /\ P(j).start = q[i].start + size
      BY <2>1, <2>3, SourceIs
    <3> HIDE DEF P
    <3>2. EndOf(P(k)) <= P(j).start
      BY <3>1, <1>0
    <3> QED
      BY <3>2 DEF Apart, P
  <2> QED
    BY <1>3, <2>2, <2>3
<1> HIDE DEF P
<1>4. CASE j \in 1..Len(q) /\ j # i /\ P(j) = q[j] /\ k \in 1..Len(q) /\ k # i /\ P(k) = q[k]
  BY <1>4 DEF Row, Disjoint, P
<1>5. CASE (j = 0 \/ j = i) /\ k \in 1..Len(q) /\ k # i /\ P(k) = q[k]
  <2>1. Apart(P(j), q[k])
    BY <1>1, <1>2, <1>5
  <2> QED
    BY <1>5, <2>1 DEF P
<1>6. CASE (k = 0 \/ k = i) /\ j \in 1..Len(q) /\ j # i /\ P(j) = q[j]
  <2>1. Apart(q[j], P(k))
    BY <1>1, <1>2, <1>6
  <2> QED
    BY <1>6, <2>1 DEF P
<1> QED
  BY <1>1, <1>3, <1>4, <1>5, <1>6

\* Where a slot ended a source ends, and where a slot started one starts.
LEMMA SourcesReach ==
  ASSUME NEW q \in Seq(Entry), Row(q), NEW i \in 1..Len(q), NEW size \in Nat \ {0},
         q[i].type = "free", q[i].sectors >= size, NEW m \in 1..Len(q)
  PROVE  /\ \E j \in Sources(q, i, size) : EndOf(Source(q, i, size, j)) = EndOf(q[m])
         /\ \E j \in Sources(q, i, size) : Source(q, i, size, j).start = q[m].start
<1>0. i # 0 /\ 0 \in Sources(q, i, size) /\ EndOf(q[i]) = q[i].start + q[i].sectors
  BY RowNats DEF Sources
<1>1. CASE m # i
  <2>1. m \in Sources(q, i, size) /\ m # 0
    BY <1>1 DEF Sources, Slots
  <2>2. Source(q, i, size, m) = q[m]
    BY <1>1, <2>1 DEF Source
  <2> QED
    BY <2>1, <2>2
<1>2. CASE m = i
  <2>1. Source(q, i, size, 0).start = q[m].start
        /\ EndOf(Source(q, i, size, 0)) = q[i].start + size
    BY <1>0, <1>2, SourceIs
  <2>2. CASE q[i].sectors = size
    BY <1>0, <1>2, <2>1, <2>2
  <2>3. CASE q[i].sectors # size
    <3>1. i \in Sources(q, i, size)
      BY <2>3 DEF Sources, Slots
    <3>2. EndOf(Source(q, i, size, i)) = EndOf(q[i])
      BY <1>0, <3>1, SourceIs
    <3> QED
      BY <1>0, <1>2, <2>1, <3>1, <3>2
  <2> QED
    BY <2>2, <2>3
<1> QED
  BY <1>1, <1>2


(* So the new table is a row again, over the same part of the device.        *)
LEMMA AddedRow ==
  ASSUME NEW q \in Seq(Entry), Row(q), NEW i \in 1..Len(q), NEW size \in Nat \ {0},
         q[i].type = "free", q[i].sectors >= size,
         NEW r, NEW phi, Rearranged(q, i, size, r, phi)
  PROVE  Row(r) /\ (Covered(q) => Covered(r))
<1> DEFINE S == Sources(q, i, size)
           P(j) == Source(q, i, size, j)
<1>1. /\ \A k \in 1..Len(r) : phi[k] \in S /\ r[k] = P(phi[k])
      /\ \A k, l \in 1..Len(r) : phi[k] = phi[l] => k = l
      /\ \A j \in S : \E k \in 1..Len(r) : phi[k] = j /\ r[k] = P(j)
  <2> HIDE DEF P
  <2> QED
    BY DEF Rearranged, P
<1>2. \A j \in S :
        /\ P(j).start \in Nat /\ P(j).start > 0 /\ P(j).sectors > 0
        /\ EndOf(P(j)) \in Nat /\ P(j).start < EndOf(P(j))
        /\ \/ /\ j = 0 /\ P(j).start = q[i].start /\ EndOf(P(j)) = q[i].start + size
              /\ P(j).type = "data"
           \/ /\ j = i /\ q[i].sectors # size
              /\ P(j).start = q[i].start + size /\ EndOf(P(j)) = EndOf(q[i])
              /\ P(j).type = "free"
           \/ /\ j \in 1..Len(q) /\ j # i /\ P(j) = q[j]
  BY SourceIs
<1>3. \A j, k \in S : j # k => Apart(P(j), P(k))
  BY SourcesApart
<1>4. \A m \in 1..Len(q) : /\ \E j \in S : EndOf(P(j)) = EndOf(q[m])
                           /\ \E j \in S : P(j).start = q[m].start
  BY SourcesReach
<1>5. 0 \in S
  BY DEF Sources
<1>6. /\ q[i].start \in Nat /\ q[i].sectors \in Nat /\ EndOf(q[i]) \in Nat
      /\ EndOf(q[i]) = q[i].start + q[i].sectors /\ q[i].start < EndOf(q[i]) /\ size \in Nat /\ size > 0
  BY RowNats
<1> HIDE DEF S, P
<1>7. Sized(r)
  BY <1>1, <1>2 DEF Sized
<1>8. Disjoint(r)
  <2> SUFFICES ASSUME NEW k \in 1..Len(r), NEW l \in 1..Len(r), k # l
               PROVE  Apart(r[k], r[l])
    BY DEF Disjoint
  <2>1. phi[k] \in S /\ phi[l] \in S /\ phi[k] # phi[l] /\ r[k] = P(phi[k]) /\ r[l] = P(phi[l])
    BY <1>1
  <2> QED
    BY <2>1, <1>3
\* A source that starts somewhere follows another, or is the first.
<1>9. ASSUME NEW j \in S
      PROVE  P(j).start = 1 \/ \E k \in S : EndOf(P(k)) = P(j).start
  <2>1. CASE j = i /\ P(j).start = q[i].start + size
    <3>1. EndOf(P(0)) = q[i].start + size
      BY <1>2, <1>5
    <3> QED
      BY <2>1, <3>1, <1>5
  <2>2. ASSUME NEW m \in 1..Len(q), P(j).start = q[m].start
        PROVE  P(j).start = 1 \/ \E k \in S : EndOf(P(k)) = P(j).start
    <3>1. q[m].start = 1 \/ \E k \in 1..Len(q) : EndOf(q[k]) = q[m].start
      BY DEF Row, Joined
    <3> QED
      BY <2>2, <3>1, <1>4
  <2> QED
    BY <2>1, <2>2, <1>2
<1>10. Joined(r)
  <2> SUFFICES ASSUME NEW k \in 1..Len(r)
               PROVE  r[k].start = 1 \/ \E l \in 1..Len(r) : EndOf(r[l]) = r[k].start
    BY DEF Joined
  <2>1. phi[k] \in S /\ r[k] = P(phi[k])
    BY <1>1
  <2>2. CASE r[k].start = 1
    BY <2>2
  <2>3. CASE r[k].start # 1
    <3>1. PICK j \in S : EndOf(P(j)) = r[k].start
      BY <2>1, <2>3, <1>9
    <3>2. PICK l \in 1..Len(r) : r[l] = P(j)
      BY <1>1
    <3> QED
      BY <3>1, <3>2
  <2> QED
    BY <2>2, <2>3
<1>11. ASSUME NEW j \in S, NEW k \in S, P(j).type = "free", EndOf(P(j)) = P(k).start
       PROVE  P(k).type # "free"
  <2> SUFFICES ASSUME P(k).type = "free" PROVE FALSE
    OBVIOUS
  <2>1. j # k
    BY <1>2, <1>11
  <2>2. PICK m \in 1..Len(q) : q[m].type = "free" /\ EndOf(P(j)) = EndOf(q[m])
    BY <1>2, <1>11
  <2>3. CASE k = i /\ P(k).start = q[i].start + size /\ q[i].sectors # size
    <3>1. EndOf(q[m]) = q[i].start + size
      BY <2>2, <2>3, <1>11
    <3>2. q[i].start < EndOf(q[m]) /\ EndOf(q[m]) < EndOf(q[i])
      BY <3>1, <2>3, <1>6
    <3> QED
      BY <3>2, NoneAcross
  <2>4. CASE k \in 1..Len(q) /\ P(k) = q[k]
    <3>1. EndOf(q[m]) = q[k].start /\ q[k].type = "free"
      BY <2>2, <2>4, <1>11
    <3> QED
      BY <3>1, <2>2, <2>4 DEF Row, FreeMerged
  <2> QED
    BY <2>3, <2>4, <1>2
<1>12. FreeMerged(r)
  BY <1>1, <1>11 DEF FreeMerged
<1>13. FreeFollowed(r)
  <2> SUFFICES ASSUME NEW k \in 1..Len(r), r[k].type = "free", ~(EndOf(r[k]) >= DevSize)
               PROVE  \E l \in 1..Len(r) : EndOf(r[k]) = r[l].start
    BY DEF FreeFollowed
  <2>1. phi[k] \in S /\ r[k] = P(phi[k])
    BY <1>1
  <2>2. PICK m \in 1..Len(q) : q[m].type = "free" /\ EndOf(r[k]) = EndOf(q[m])
    BY <2>1, <1>2
  <2>3. PICK n \in 1..Len(q) : EndOf(q[m]) = q[n].start
    BY <2>2 DEF Row, FreeFollowed
  <2>4. PICK j \in S : P(j).start = q[n].start
    BY <1>4
  <2>5. PICK l \in 1..Len(r) : r[l] = P(j)
    BY <1>1
  <2> QED
    BY <2>2, <2>3, <2>4, <2>5
<1>14. ASSUME Covered(q)
       PROVE  Covered(r)
  <2>0. DevSize \in Nat
    BY SizesAssumption
  <2>1. \A j \in S : EndOf(P(j)) <= DevSize
    <3> SUFFICES ASSUME NEW j \in S PROVE EndOf(P(j)) <= DevSize
      OBVIOUS
    <3>1. EndOf(P(j)) = q[i].start + size \/ \E m \in 1..Len(q) : EndOf(P(j)) = EndOf(q[m])
      BY <1>2
    <3>2. \A m \in 1..Len(q) : EndOf(q[m]) <= DevSize
      BY <1>14 DEF Covered
    <3>3. q[i].start + size <= DevSize
      BY <3>2, <2>0, <1>6
    <3> QED
      BY <3>1, <3>2, <3>3
  <2>2. \A k \in 1..Len(r) : EndOf(r[k]) <= DevSize
    BY <1>1, <2>1
  <2>3. ASSUME ~(DevSize <= 1) PROVE \E k \in 1..Len(r) : EndOf(r[k]) = DevSize
    <3>1. PICK m \in 1..Len(q) : EndOf(q[m]) = DevSize
      BY <1>14, <2>3 DEF Covered
    <3>2. PICK j \in S : EndOf(P(j)) = DevSize
      BY <3>1, <1>4
    <3>3. PICK k \in 1..Len(r) : r[k] = P(j)
      BY <1>1
    <3> QED
      BY <3>2, <3>3
  <2> QED
    BY <2>2, <2>3 DEF Covered
<1> QED
  BY <1>7, <1>8, <1>10, <1>12, <1>13, <1>14 DEF Row

\* What is not free is what was not free, and the new partition.
LEMMA AddedData ==
  ASSUME NEW q \in Seq(Entry), Row(q), NEW i \in 1..Len(q), NEW size \in Nat \ {0},
         q[i].type = "free", q[i].sectors >= size,
         NEW r, NEW phi, Rearranged(q, i, size, r, phi)
  PROVE  \E d : d \notin Data(q) /\ Data(r) = Data(q) \cup {d}
<1> DEFINE d == [start |-> q[i].start, sectors |-> size, type |-> "data"]
           V(e) == [start |-> e.start, sectors |-> e.sectors, type |-> e.type]
           S == Sources(q, i, size)
           P(j) == Source(q, i, size, j)
<1>1. /\ \A k \in 1..Len(r) : phi[k] \in S /\ r[k] = P(phi[k])
      /\ \A j \in S : \E k \in 1..Len(r) : phi[k] = j /\ r[k] = P(j)
  <2> HIDE DEF P
  <2> QED
    BY DEF Rearranged, P
<1>2. \A x, s : x \in Data(s) <=> \E k \in 1..Len(s) : s[k].type # "free" /\ x = V(s[k])
  BY Zenon DEF Data
<1>3. d \notin Data(q)
  <2> SUFFICES ASSUME NEW k \in 1..Len(q), q[k].type # "free", d = V(q[k]) PROVE FALSE
    BY <1>2
  <2>1. q[k].start = q[i].start
    <3>1. d.start = q[i].start /\ V(q[k]).start = q[k].start
      OBVIOUS
    <3> HIDE DEF d, V
    <3> QED
      BY <3>1
  <2>2. i = k
    BY <2>1, NoneAcross
  <2> QED
    BY <2>2
<1>4. \A j \in S : \/ j = 0 /\ P(j).type = "data" /\ V(P(j)) = d
                   \/ P(j).type = "free"
                   \/ j \in 1..Len(q) /\ P(j) = q[j]
  <2> SUFFICES ASSUME NEW j \in S, j = 0 PROVE P(j).type = "data" /\ V(P(j)) = d
    BY SourceIs
  <2>1. P(j) = [start |-> q[i].start, sectors |-> size, type |-> "data", refs |-> 1]
    BY DEF Source, NewEntry
  <2> HIDE DEF P
  <2> QED
    BY <2>1
<1>5. 0 \in S /\ 0 \notin 1..Len(q)
  BY DEF Sources
<1>6. \A m \in 1..Len(q) : q[m].type # "free" => m \in S /\ P(m) = q[m]
  BY DEF Sources, Slots, Source
<1> HIDE DEF P, S, V, d
<1>7. ASSUME NEW x \in Data(r) PROVE x \in Data(q) \cup {d}
  <2>1. PICK k \in 1..Len(r) : r[k].type # "free" /\ x = V(r[k])
    BY <1>2
  <2>2. phi[k] \in S /\ r[k] = P(phi[k])
    BY <1>1
  <2> QED
    BY <2>1, <2>2, <1>2, <1>4
<1>8. ASSUME NEW x \in Data(q) PROVE x \in Data(r)
  <2>1. PICK m \in 1..Len(q) : q[m].type # "free" /\ x = V(q[m])
    BY <1>2
  <2>2. m \in S /\ P(m) = q[m]
    BY <2>1, <1>6
  <2>3. PICK k \in 1..Len(r) : r[k] = P(m)
    BY <2>2, <1>1
  <2> QED
    BY <2>1, <2>2, <2>3, <1>2
<1>9. d \in Data(r)
  <2>1. PICK k \in 1..Len(r) : r[k] = P(0)
    BY <1>1, <1>5
  <2>2. P(0).type # "free" /\ V(P(0)) = d
    <3>1. ~(0 \in 1..Len(q))
      BY <1>5
    <3>2. P(0).type = "data"
      BY SourceIs, <1>5 DEF P, S
    <3>3. "data" # "free"
      OBVIOUS
    <3> QED
      BY <3>1, <3>2, <3>3, <1>4, <1>5
  <2> QED
    BY <2>1, <2>2, <1>2
<1>10. Data(r) = Data(q) \cup {d}
  BY <1>7, <1>8, <1>9
<1> QED
  BY <1>3, <1>10


-----------------------------------------------------------------------------
(* The results of this module are about drives whose map is such a row when  *)
(* the first tool starts, and about writes that succeed: a map torn by a     *)
(* crash or by a bad sector is a mixture of two tables.                      *)
WritesSucceed == ~Crashes /\ BadSectors = {}
ProperMap     == ReadTable # NoTable => Row(ReadTable.parts)

(* The inductive invariant, beside IInv and CInv.  While a write is going on *)
(* the map on the drive is nobody's; when it has ended it is the cached one. *)
TInv ==
  /\ tab # NoTable => Tiled(tab)
  /\ wr = Idle => ProperMap

LEMMA CachedTiled ==
  ASSUME IInv, CInv, TInv, wr = Idle, Cached # NoTable
  PROVE  Cached \in Table /\ Good(Cached) /\ Tiled(Cached)
<1>1. Good(Cached) /\ Cached \in Table
  BY CachedGood DEF Good
<1>2. CASE tab # NoTable
  BY <1>1, <1>2 DEF Cached, TInv
<1>3. CASE tab = NoTable
  <2>1. Cached = ReadTable /\ ReadTable # NoTable /\ disk \in Disk
    BY <1>3 DEF Cached, IInv, TypeOK
  <2>2. ReadTable.flags = {}
    BY <2>1, ReadOnDrive
  <2>3. Row(ReadTable.parts)
    BY <2>1 DEF TInv, ProperMap
  <2> QED
    BY <1>1, <2>1, <2>2, <2>3 DEF Tiled
<1> QED
  BY <1>2, <1>3

(* Calls that change the cached table only.                                  *)
LEMMA TableTiled ==
  ASSUME TInv, UNCHANGED <<boot, disk, wr>>, NEW t, tab' = t, t # NoTable => Tiled(t)
  PROVE  TInv'
<1>1. ReadTable' = ReadTable
  BY DEF ReadTable, ReadCount
<1>2. ProperMap' <=> ProperMap
  BY <1>1 DEF ProperMap
<1> QED
  BY <1>2 DEF TInv

LEMMA ValidateTiled ==
  ASSUME IInv, CInv, TInv, wr = Idle, Cached # NoTable, NEW v \in Validations(Cached),
         tab' = v.table, UNCHANGED <<boot, disk, file, wr>>
  PROVE  TInv'
<1>1. Tiled(v.table)
  BY CachedTiled, ValidationTiled
<1> QED
  BY <1>1, TableTiled

(* The slot tivo_partition_add chooses is free and large enough.             *)
LEMMA PlaceFound ==
  ASSUME NEW q \in Seq(Entry), Row(q), Covered(q), NEW sp \in 2..(Len(q) + 1),
         NEW size \in Nat \ {0}, NEW i \in sp..Len(q), q[i].start = FirstFit(q, sp, size)
  PROVE  Place(q, sp, i, size)
<1> DEFINE F == Fitting(q, sp, size, 0)
<1>1. i \in 1..Len(q) /\ q[i].start \in Nat /\ sp \in Nat \ {0}
  <2>1. Len(q) \in Nat /\ sp \in Nat /\ sp >= 2 /\ i \in 1..Len(q)
    OBVIOUS
  <2> QED
    BY <2>1, RowNats
<1>2. \A k \in 1..Len(q) : EndOf(q[k]) <= DevSize
  BY DEF Covered
<1>3. LowestFit(q, sp, size, 0, q[i].start)
  BY <1>1, <1>2, FitFacts
<1>4. PICK k \in F : q[i].start = q[k].start
  <2>1. F # {}
    BY <1>1, <1>3 DEF LowestFit, NoRoom
  <2> QED
    BY <1>3, <2>1 DEF LowestFit
<1>5. k \in 1..Len(q) /\ q[k].type = "free" /\ q[k].sectors >= size
  BY <1>1, FreeFromFacts DEF Fitting
<1>6. k = i
  BY <1>1, <1>4, <1>5, NoneAcross
<1> QED
  BY <1>5, <1>6 DEF Place

\* What a successful tivo_partition_add starts from and makes of it.
AddsTo(t, q, size, i, before) ==
  /\ q \in Seq(Entry) /\ Row(q) /\ Covered(q)
  /\ FirstMovable(q) \in 2..(Len(q) + 1)
  /\ size \in Nat \ {0} /\ before \in Nat
  /\ i \in 1..Len(q)
  /\ Place(q, FirstMovable(q), i, size)
  /\ Data(q) = Data(Cached.parts)
  /\ t.parts = WithPartition(q, FirstMovable(q), q[i].start, size, before)

LEMMA SameData ==
  ASSUME NEW t \in Table, NEW v \in Validations(t)
  PROVE  Data(v.table.parts) = Data(t.parts)
<1> DEFINE p == t.parts
           q == v.table.parts
           V(e) == [start |-> e.start, sectors |-> e.sectors, type |-> e.type]
<1>1. /\ Len(p) \in Nat /\ Len(q) \in Nat /\ Len(q) >= Len(p)
      /\ \A i \in 1..Len(p) : q[i] = p[i]
      /\ \A i \in (Len(p) + 1)..Len(q) : q[i].type = "free"
  <2>1. v.table \in Table
    BY ValidationFacts
  <2>2. Len(p) \in Nat /\ Len(q) \in Nat
    BY <2>1 DEF Table
  <2> QED
    BY <2>2, ValidationFacts
<1>2. \A x, s : x \in Data(s) <=> \E k \in 1..Len(s) : s[k].type # "free" /\ x = V(s[k])
  BY Zenon DEF Data
<1> HIDE DEF V, p, q
<1>3. ASSUME NEW x \in Data(p) PROVE x \in Data(q)
  <2>1. PICK k \in 1..Len(p) : p[k].type # "free" /\ x = V(p[k])
    BY <1>2
  <2>2. k \in 1..Len(q) /\ q[k] = p[k]
    BY <1>1
  <2> QED
    BY <2>1, <2>2, <1>2
<1>4. ASSUME NEW x \in Data(q) PROVE x \in Data(p)
  <2>1. PICK k \in 1..Len(q) : q[k].type # "free" /\ x = V(q[k])
    BY <1>2
  <2>2. k \in 1..Len(p)
    <3> SUFFICES ASSUME k \notin 1..Len(p) PROVE FALSE
      OBVIOUS
    <3>1. k \in (Len(p) + 1)..Len(q)
      BY <1>1
    <3> QED
      BY <2>1, <3>1, <1>1
  <2>3. q[k] = p[k]
    BY <1>1, <2>2
  <2> QED
    BY <2>1, <2>2, <2>3, <1>2
<1>5. Data(q) = Data(p)
  BY <1>3, <1>4
<1> QED
  BY <1>5 DEF p, q

LEMMA AddsFrom ==
  ASSUME IInv, CInv, TInv, NEW size \in Sizes, NEW before \in 0..MapSectors, Add(size, before)
  PROVE  \E q, i : AddsTo(tab', q, size, i, before)
<1>1. wr = Idle /\ Cached # NoTable
  BY DEF Add
<1>2. PICK v \in Validations(Cached) :
        LET q  == v.table.parts
            sp == FirstMovable(q)
        IN  /\ ~Refused(v, size, before)
            /\ \E i \in sp..Len(q) :
                 /\ q[i].start = FirstFit(q, sp, size)
                 /\ tab' = [v.table EXCEPT
                              !.parts = WithPartition(q, sp, q[i].start, size, before),
                              !.flags = @ \cup {"DIRTY"}]
  BY DEF Add
<1> DEFINE t == v.table
           q == t.parts
<1>3. PICK i \in FirstMovable(q)..Len(q) :
        /\ q[i].start = FirstFit(q, FirstMovable(q), size)
        /\ tab' = [t EXCEPT !.parts = WithPartition(q, FirstMovable(q), q[i].start, size, before),
                            !.flags = @ \cup {"DIRTY"}]
  BY <1>2
<1>4. v.ok
  BY <1>2 DEF Refused
<1>5. Cached \in Table /\ TypeOK /\ Good(Cached) /\ Tiled(Cached)
  BY <1>1, CachedTiled DEF IInv
<1>6. Tiled(t) /\ "VALID" \in t.flags /\ Good(t) /\ Data(q) = Data(Cached.parts)
  BY <1>4, <1>5, ValidationTiled, ValidationGood, SameData
<1> HIDE DEF q, t
<1>7. q \in Seq(Entry) /\ Len(q) >= 1 /\ Row(q) /\ Covered(q) /\ t \in Table
  BY <1>6 DEF Good, Table, Tiled, q
<1>8. FirstMovable(q) \in 2..(Len(q) + 1)
  BY <1>7, FirstMovableFacts
<1>9. size \in Nat \ {0} /\ before \in Nat
  BY SizesAssumption
<1>10. Place(q, FirstMovable(q), i, size)
  BY <1>3, <1>7, <1>8, <1>9, PlaceFound
<1>11. i \in 1..Len(q)
  <2>1. Len(q) \in Nat
    BY <1>7
  <2> QED
    BY <1>8, <2>1
<1>12. tab'.parts = WithPartition(q, FirstMovable(q), q[i].start, size, before)
  BY <1>3, <1>7 DEF Table
<1>13. AddsTo(tab', q, size, i, before)
  BY <1>6, <1>7, <1>8, <1>9, <1>10, <1>11, <1>12, Zenon DEF AddsTo
<1> QED
  BY <1>13


LEMMA AddTiled ==
  ASSUME IInv, CInv, TInv, NEW size \in Sizes, NEW before \in 0..MapSectors, Add(size, before)
  PROVE  TInv'
<1>1. UNCHANGED <<boot, disk, file, wr>>
  BY DEF Add
<1>2. PICK q, i : AddsTo(tab', q, size, i, before)
  BY AddsFrom
<1> DEFINE r == WithPartition(q, FirstMovable(q), q[i].start, size, before)
<1>3. /\ q \in Seq(Entry) /\ Row(q) /\ Covered(q) /\ i \in 1..Len(q) /\ size \in Nat \ {0}
      /\ FirstMovable(q) \in 2..(Len(q) + 1) /\ before \in Nat
      /\ Place(q, FirstMovable(q), i, size)
      /\ tab'.parts = r
  BY <1>2 DEF AddsTo
<1>4. PICK phi : Rearranged(q, i, size, r, phi)
  BY <1>3, AddRearranges
<1> HIDE DEF r
<1>5. Row(r) /\ Covered(r)
  <2>1. q[i].type = "free" /\ q[i].sectors >= size
    BY <1>3 DEF Place
  <2> QED
    BY <1>3, <1>4, <2>1, AddedRow
<1>6. Tiled(tab')
  BY <1>3, <1>5 DEF Tiled
<1>7. PICK t : t = tab'
  OBVIOUS
<1> QED
  BY <1>1, <1>6, <1>7, TableTiled

LEMMA InitTableTiled ==
  ASSUME TInv, InitTable
  PROVE  TInv'
<1> DEFINE e == [start |-> 1, sectors |-> MapSectors, type |-> "map", refs |-> 1]
           u == [parts |-> <<e>>, refs |-> 0, flags |-> {"NONINIT"}]
<1>1. tab' = u /\ UNCHANGED <<boot, disk, file, wr>>
  BY DEF InitTable
<1>2. /\ e.start = 1 /\ e.sectors = MapSectors /\ e.type = "map"
      /\ MapSectors \in Nat /\ MapSectors > 0
  BY SizesAssumption
<1> HIDE DEF e
<1>3. Len(<<e>>) = 1 /\ \A k \in 1..Len(<<e>>) : k = 1 /\ <<e>>[k] = e
  OBVIOUS
<1>4. Row(<<e>>)
  BY <1>2, <1>3 DEF Row, Sized, Disjoint, Joined, FreeMerged, FreeFollowed
<1>5. u.parts = <<e>> /\ "VALID" \notin u.flags
  OBVIOUS
<1> HIDE DEF u
<1>6. Tiled(u)
  BY <1>4, <1>5 DEF Tiled
<1> QED
  BY <1>1, <1>6, TableTiled

LEMMA CountedTiled ==
  ASSUME NEW t \in Table, NEW n \in 1..Len(t.parts), NEW d \in Int,
         t.parts[n].refs + d \in Nat, Tiled(t)
  PROVE  Tiled(Counted(t, n, d))
<1> DEFINE u == Counted(t, n, d)
           p == Ref(t.parts, n, d)
<1>1. t.parts \in Seq(Entry)
  BY DEF Table
<1>2. SamePlaces(t.parts, p)
  BY <1>1, RefFacts DEF SamePlaces
<1>3. u.parts = p /\ u.flags = t.flags
  BY DEF Counted
<1> HIDE DEF p, u
<1>4. Tiled(u)
  BY <1>2, <1>3, SameRow DEF Tiled
<1> QED
  BY <1>4 DEF u

LEMMA OpenTiled ==
  ASSUME IInv, CInv, TInv, NEW h \in Handles, NEW n \in 1..MapSectors, OpenPart(h, n)
  PROVE  TInv'
<1> DEFINE t == Cached
           u == Counted(t, n, 1)
<1>1. wr = Idle /\ t # NoTable /\ n <= Len(t.parts) /\ tab' = u /\ UNCHANGED <<boot, disk, wr>>
  BY DEF OpenPart
<1>2. t \in Table /\ Tiled(t)
  BY <1>1, CachedTiled
<1> HIDE DEF t, u
<1>3. /\ t.parts \in Seq(Entry) /\ Len(t.parts) \in Nat /\ n \in 1..Len(t.parts)
  BY <1>1, <1>2, SizesAssumption DEF Table
<1>4. t.parts[n].refs + 1 \in Nat
  <2>1. t.parts[n] \in Entry
    BY <1>3
  <2> QED
    BY <2>1 DEF Entry
<1>5. Tiled(u)
  BY <1>2, <1>3, <1>4, CountedTiled DEF u
<1> QED
  BY <1>1, <1>5, TableTiled

LEMMA CloseTiled ==
  ASSUME IInv, TInv, NEW h \in Handles, ClosePart(h)
  PROVE  TInv'
<1>0. PICK n : n = file[h].slot
  OBVIOUS
<1> DEFINE u == Counted(tab, n, -1)
<1>1. wr = Idle /\ Open(h) /\ tab' = u /\ UNCHANGED <<boot, disk, wr>>
  BY <1>0 DEF ClosePart
<1>2. Good(tab) /\ tab # NoTable /\ Tiled(tab)
  BY <1>1 DEF IInv, TInv
<1>3. file \in [Handles -> [slot : Nat, start : Nat, sectors : Nat, clean : BOOLEAN]]
  BY DEF IInv, TypeOK
<1> HIDE DEF u
<1>4. /\ tab \in Table /\ tab.parts \in Seq(Entry) /\ Len(tab.parts) \in Nat
      /\ n \in 1..Len(tab.parts)
  BY <1>0, <1>1, <1>2, <1>3 DEF Good, Table, Open
<1>5. tab.parts[n].refs + (-1) \in Nat
  <2>1. tab.parts[n].refs = 1 + Cardinality(Users(n))
    BY <1>2, <1>4 DEF Good
  <2>2. Cardinality(Users(n)) \in Nat
    BY HandleSets DEF Users
  <2> QED
    BY <2>1, <2>2
<1>6. Tiled(u)
  BY <1>2, <1>4, <1>5, CountedTiled DEF u
<1> QED
  BY <1>1, <1>6, TableTiled

(* While the map is written the cached table does not change; when the write *)
(* has ended the drive carries it.                                           *)
LEMMA EndWriteTiled ==
  ASSUME IInv, CInv, TInv, EndWrite
  PROVE  TInv'
<1> DEFINE u == [tab EXCEPT !.flags = @ \ {"DIRTY"}]
<1>1. tab' = u /\ wr > 0 /\ wr # Idle /\ UNCHANGED <<boot, disk>>
  BY DEF EndWrite, Idle
<1>2. Good(tab) /\ tab # NoTable /\ Tiled(tab) /\ disk \in Disk
  BY <1>1 DEF IInv, TInv, TypeOK
<1>3. u.parts = tab.parts /\ u.flags = tab.flags \ {"DIRTY"}
  BY <1>2 DEF Good, Table
<1> HIDE DEF u
<1>4. Tiled(u)
  BY <1>2, <1>3 DEF Tiled
<1>5. /\ Agrees(tab)
      /\ \A n \in 1..Len(tab.parts) : OnDrive(n, tab.parts[n])
  BY WrittenOnDrive
<1>6. ReadTable # NoTable /\ ReadTable \in Table
  BY <1>2, <1>5, ReadTableFacts DEF Agrees
<1>7. Len(ReadTable.parts) = Len(tab.parts)
  <2>1. Len(ReadTable.parts) \in Nat /\ Len(tab.parts) \in Nat /\ Len(tab.parts) >= 1
    BY <1>2, <1>6 DEF Good, Table
  <2>2. Len(ReadTable.parts) <= Len(tab.parts)
    BY <1>5 DEF Agrees
  <2>3. Len(tab.parts) \in 1..Len(tab.parts)
    BY <2>1
  <2>4. OnDrive(Len(tab.parts), tab.parts[Len(tab.parts)])
    BY <1>5, <2>3
  <2>5. Len(tab.parts) \in 1..Len(ReadTable.parts)
    BY <1>2, <2>4, OnDriveRead
  <2> QED
    BY <2>1, <2>2, <2>5
<1>8. SamePlaces(tab.parts, ReadTable.parts)
  BY <1>5, <1>7 DEF Agrees, SamePlaces
<1>9. Row(ReadTable.parts)
  BY <1>2, <1>8, SameRow DEF Tiled
<1>10. ReadTable' = ReadTable
  BY <1>1 DEF ReadTable, ReadCount
<1>11. ProperMap'
  BY <1>9, <1>10 DEF ProperMap
<1> QED
  BY <1>1, <1>4, <1>11 DEF TInv

LEMMA WritesTiled ==
  ASSUME WritesSucceed, IInv, TInv,
         BeginWrite \/ WriteBoot \/ WriteSector \/ WriteFails \/ ToolEnds
  PROVE  TInv'
<1>1. CASE BeginWrite
  <2> DEFINE u == [tab EXCEPT !.flags = @ \ {"NONINIT"}]
  <2>1. tab' = u /\ tab # NoTable /\ wr' # Idle
    BY <1>1 DEF BeginWrite, Idle
  <2>2. u.parts = tab.parts /\ u.flags = tab.flags \ {"NONINIT"}
    BY <2>1 DEF IInv, Good, Table
  <2> HIDE DEF u
  <2>3. Tiled(u)
    BY <2>1, <2>2 DEF TInv, Tiled
  <2> QED
    BY <2>1, <2>3 DEF TInv
<1>2. CASE WriteBoot
  <2>1. tab' = tab /\ wr' # Idle
    BY <1>2 DEF WriteBoot, Idle
  <2> QED
    BY <2>1 DEF TInv
<1>3. CASE WriteSector
  <2>1. wr \in Int
    BY DEF IInv, TypeOK, Idle
  <2>2. tab' = tab /\ wr' # Idle
    BY <1>3, <2>1 DEF WriteSector, Idle
  <2> QED
    BY <2>2 DEF TInv
<1>4. CASE WriteFails
  BY <1>4 DEF WriteFails, WritesSucceed
<1>5. CASE ToolEnds
  <2>1. wr = Idle /\ tab' = NoTable /\ UNCHANGED <<boot, disk>>
    BY <1>5 DEF ToolEnds, WritesSucceed
  <2>2. ReadTable' = ReadTable
    BY <2>1 DEF ReadTable, ReadCount
  <2> QED
    BY <2>1, <2>2 DEF TInv, ProperMap
<1> QED
  BY <1>1, <1>2, <1>3, <1>4, <1>5

LEMMA NextTiled ==
  ASSUME WritesSucceed, IInv, CInv, TInv, [Next]_vars
  PROVE  TInv'
<1>1. CASE Load
  <2>1. wr = Idle /\ tab = NoTable /\ tab' = ReadTable /\ UNCHANGED <<boot, disk, file, wr>>
    BY <1>1 DEF Load
  <2>2. ASSUME ReadTable # NoTable PROVE Tiled(ReadTable)
    <3>1. Cached = ReadTable
      BY <2>1 DEF Cached
    <3> QED
      BY <2>1, <2>2, <3>1, CachedTiled
  <2> QED
    BY <2>1, <2>2, TableTiled
<1>2. CASE QueryFree
  BY <1>2, ValidateTiled DEF QueryFree
<1>3. ASSUME NEW size \in Sizes, NEW before \in 0..MapSectors, AddFails(size, before)
      PROVE  TInv'
  BY <1>3, ValidateTiled DEF AddFails
<1>4. ASSUME NEW size \in Sizes, NEW before \in 0..MapSectors, Add(size, before)
      PROVE  TInv'
  BY <1>4, AddTiled
<1>5. CASE InitTable
  BY <1>5, InitTableTiled
<1>6. ASSUME NEW h \in Handles, NEW n \in 1..MapSectors, OpenPart(h, n)
      PROVE  TInv'
  BY <1>6, OpenTiled
<1>7. ASSUME NEW h \in Handles, ClosePart(h)
      PROVE  TInv'
  BY <1>7, CloseTiled
<1>8. CASE BeginWrite \/ WriteBoot \/ WriteSector \/ WriteFails \/ ToolEnds
  BY <1>8, WritesTiled
<1>9. CASE EndWrite
  BY <1>9, EndWriteTiled
<1>10. CASE UNCHANGED vars
  <2>1. UNCHANGED <<boot, disk, tab, file, wr>> /\ ReadTable' = ReadTable
    BY <1>10 DEF vars, ReadTable, ReadCount
  <2> QED
    BY <2>1 DEF TInv, ProperMap, Tiled
<1> QED
  BY <1>1, <1>2, <1>3, <1>4, <1>5, <1>6, <1>7, <1>8, <1>9, <1>10 DEF Next

LEMMA TiledInductive ==
  ASSUME WritesSucceed
  PROVE  Spec /\ ProperMap => [](IInv /\ CInv /\ TInv)
<1>1. Init /\ ProperMap => TInv
  BY DEF Init, TInv
<1>2. IInv /\ CInv /\ TInv /\ [Next]_vars => TInv'
  BY NextTiled
<1>3. BootWritable
  BY DEF WritesSucceed, BootWritable
<1>4. Spec => []CInv
  BY <1>3, CrashInductive
<1> QED
  BY <1>1, <1>2, <1>4, Inductive, PTL DEF Spec

(* "If there was a gap, create a partition to fill it" and "Delete all       *)
(* partitions that fall within the now used range": whatever is opened,      *)
(* closed, added and written back, a table that passed validation accounts   *)
(* for every sector after the boot block, and for each only once.            *)
THEOREM TilesTheorem ==
  ASSUME WritesSucceed
  PROVE  Spec /\ ProperMap => []Tiles
<1>1. IInv /\ TInv => Tiles
  <2> SUFFICES ASSUME IInv, TInv, Valid PROVE Tiles
    BY DEF Tiles, NoGaps, NoOverlap
  <2>1. tab # NoTable /\ tab.parts \in Seq(Entry)
    BY DEF Valid, IInv, Good, Table
  <2>2. Row(tab.parts) /\ Covered(tab.parts)
    BY <2>1 DEF TInv, Tiled, Valid
  <2> QED
    BY <2>1, <2>2, RowTiles DEF Tiles, NoGaps, NoOverlap
<1> QED
  BY <1>1, TiledInductive, PTL

(* tivo_partition_add's search: it finds room exactly when there are enough  *)
(* free sectors in a row behind the partitions in use, and then the lowest.  *)
THEOREM FitTheorem ==
  ASSUME WritesSucceed
  PROVE  Spec /\ ProperMap => []FirstFitIsLowest
<1>1. IInv /\ TInv => FirstFitIsLowest
  <2> SUFFICES ASSUME IInv, TInv, Valid, NEW size \in Sizes
               PROVE  LET sp == FirstMovable(tab.parts)
                          f  == FirstFit(tab.parts, sp, size)
                          R  == Runs(tab.parts, sp, size)
                      IN  IF R = {} THEN f = NoRoom ELSE f \in R /\ \A s \in R : f <= s
    BY Zenon DEF FirstFitIsLowest
  <2>1. tab # NoTable /\ tab.parts \in Seq(Entry) /\ Len(tab.parts) >= 1
    BY DEF Valid, IInv, Good, Table
  <2>2. Row(tab.parts) /\ \A i \in 1..Len(tab.parts) : EndOf(tab.parts[i]) <= DevSize
    BY <2>1 DEF TInv, Tiled, Valid, Covered
  <2>3. FirstMovable(tab.parts) \in Nat \ {0} /\ size \in Nat \ {0}
    <3>1. FirstMovable(tab.parts) \in 2..(Len(tab.parts) + 1) /\ Len(tab.parts) \in Nat
      BY <2>1, FirstMovableFacts
    <3> QED
      BY <3>1, SizesAssumption
  <2> QED
    BY <2>1, <2>2, <2>3, FitIsExact
<1> QED
  BY <1>1, TiledInductive, PTL

(* Adding a partition takes free space only: every partition that carries    *)
(* data keeps its place and size, and exactly one appears.                   *)
THEOREM KeepsTheorem ==
  ASSUME WritesSucceed
  PROVE  Spec /\ ProperMap => AddKeepsData
<1> DEFINE A == (\E size \in Sizes, before \in 0..MapSectors : Add(size, before)) =>
                   /\ Data(Cached.parts) \subseteq Data(tab'.parts)
                   /\ Cardinality(Data(tab'.parts)) = Cardinality(Data(Cached.parts)) + 1
<1>1. IInv /\ CInv /\ TInv => A
  <2> SUFFICES ASSUME IInv, CInv, TInv,
                      NEW size \in Sizes, NEW before \in 0..MapSectors, Add(size, before)
               PROVE  /\ Data(Cached.parts) \subseteq Data(tab'.parts)
                      /\ Cardinality(Data(tab'.parts)) = Cardinality(Data(Cached.parts)) + 1
    OBVIOUS
  <2>1. PICK q, i : AddsTo(tab', q, size, i, before)
    BY AddsFrom
  <2> DEFINE r == WithPartition(q, FirstMovable(q), q[i].start, size, before)
             D == Data(q)
  <2>2. /\ q \in Seq(Entry) /\ Row(q) /\ i \in 1..Len(q) /\ size \in Nat \ {0}
        /\ FirstMovable(q) \in 2..(Len(q) + 1) /\ before \in Nat
        /\ Place(q, FirstMovable(q), i, size)
        /\ D = Data(Cached.parts)
        /\ tab'.parts = r
    BY <2>1 DEF AddsTo
  <2>3. PICK phi : Rearranged(q, i, size, r, phi)
    BY <2>2, AddRearranges
  <2> HIDE DEF r, D
  <2>4. PICK d : d \notin D /\ Data(r) = D \cup {d}
    <3>1. q[i].type = "free" /\ q[i].sectors >= size
      BY <2>2 DEF Place
    <3> QED
      BY <2>2, <2>3, <3>1, AddedData DEF D
  <2>5. IsFiniteSet(D)
    <3> DEFINE V == [k \in 1..Len(q) |->
                       [start |-> q[k].start, sectors |-> q[k].sectors, type |-> q[k].type]]
               I == {k \in 1..Len(q) : q[k].type # "free"}
    <3>1. D = {V[k] : k \in I}
      BY DEF D, Data
    <3>2. IsFiniteSet(I)
      <4> HIDE DEF V
      <4>1. Len(q) \in Nat
        BY <2>2
      <4>2. IsFiniteSet(1..Len(q))
        BY <4>1, FS_Interval
      <4>3. I \subseteq 1..Len(q)
        OBVIOUS
      <4> HIDE DEF I
      <4> QED
        BY <4>2, <4>3, FS_Subset
    <3> DEFINE W == [k \in I |-> V[k]]
    <3>3. W \in Surjection(I, D)
      <4> HIDE DEF V, I
      <4> QED
        BY <3>1 DEF Surjection
    <3> HIDE DEF W, I
    <3> QED
      BY <3>2, <3>3, FS_Surjection
  <2>6. Cardinality(Data(r)) = Cardinality(D) + 1
    BY <2>4, <2>5, FS_AddElement
  <2> QED
    BY <2>2, <2>4, <2>6
<1>2. AddKeepsData <=> [][A]_vars
  BY DEF AddKeepsData
<1> QED
  BY <1>1, <1>2, TiledInductive, PTL

-----------------------------------------------------------------------------
(* A table that counts as written differs from the one on the drive by one   *)
(* filler at most, in whatever map: the filler starts where the walk of the  *)
(* validation ended, behind the start of every entry, so the next walk goes  *)
(* the same way, and on over the filler to the end of the device.            *)

LEMMA WalkStops ==
  ASSUME NEW q \in Seq(Entry), NEW g \in [Nat -> WalkResult(q)], Stepped(q, g)
  PROVE  \A pos \in Nat : g[pos].empty \/ AtEnd(q, g[pos].end)
<1>0. DevSize \in Nat
  BY SizesAssumption
<1> DEFINE Bad == {pos \in Nat : ~(g[pos].empty \/ AtEnd(q, g[pos].end))}
<1>1. ASSUME NEW pos \in Bad PROVE pos \in Nat /\ ~AtEnd(q, pos) /\ pos <= DevSize
  <2>1. pos \in Nat /\ ~(g[pos].empty \/ AtEnd(q, g[pos].end))
    OBVIOUS
  <2>2. ~AtEnd(q, pos)
    <3> SUFFICES ASSUME AtEnd(q, pos) PROVE FALSE
      OBVIOUS
    <3>1. g[pos] = [end |-> pos, used |-> {}, empty |-> FALSE]
      BY <2>1, WalkStepIs DEF Stepped
    <3>2. g[pos].end = pos
      BY <3>1
    <3> QED
      BY <2>1, <3>2
  <2> QED
    BY <2>1, <2>2, <1>0 DEF AtEnd
<1>2. Bad = {}
  <2> SUFFICES ASSUME Bad # {} PROVE FALSE
    OBVIOUS
  <2>1. PICK pos \in Bad : \A y \in Bad : y <= pos
    <3> HIDE DEF Bad
    <3> QED
      BY <1>0, <1>1, GreatestNat, Zenon
  <2>2. pos \in Nat /\ ~AtEnd(q, pos) /\ ~g[pos].empty /\ ~AtEnd(q, g[pos].end)
    BY <1>1
  <2>3. PICK c : c = Closest(q, From(q, pos))
    OBVIOUS
  <2>4. c \in 1..Len(q) /\ q[c].sectors \in Nat /\ g[pos] = WalkStep(q, g, pos)
    BY <2>2, <2>3, WalkStepIs DEF Stepped
  <2>5. q[c].sectors # 0
    <3> SUFFICES ASSUME q[c].sectors = 0 PROVE FALSE
      OBVIOUS
    <3>1. g[pos] = [end |-> pos, used |-> {c}, empty |-> TRUE]
      BY <2>2, <2>3, <2>4, WalkStepIs
    <3>2. g[pos].empty = TRUE
      BY <3>1
    <3> QED
      BY <2>2, <3>2
  <2>6. g[pos] = [g[pos + q[c].sectors] EXCEPT !.used = @ \cup {c}]
    BY <2>2, <2>3, <2>4, <2>5, WalkStepIs
  <2>7. pos + q[c].sectors \in Nat /\ ~(pos + q[c].sectors <= pos)
    BY <2>2, <2>4, <2>5
  <2> DEFINE w == g[pos + q[c].sectors]
  <2>8. w \in [end : Nat, used : SUBSET (1..Len(q)), empty : BOOLEAN]
    BY <2>7 DEF WalkResult
  <2>9. w.empty \/ AtEnd(q, w.end)
    <3>1. pos + q[c].sectors \notin Bad
      <4> HIDE DEF Bad
      <4> QED
        BY <2>1, <2>7
    <3> QED
      BY <2>7, <3>1
  <2> HIDE DEF w
  <2>10. [w EXCEPT !.used = @ \cup {c}].end = w.end /\ [w EXCEPT !.used = @ \cup {c}].empty = w.empty
    BY <2>8
  <2>11. g[pos] = [w EXCEPT !.used = @ \cup {c}]
    BY <2>6 DEF w
  <2> QED
    BY <2>2, <2>9, <2>10, <2>11
<1> QED
  BY <1>2

LEMMA WalkOverFiller ==
  ASSUME NEW q \in Seq(Entry), NEW e \in 1..(DevSize - 1), ~Walk(q).empty, Walk(q).end = e
  PROVE  Walk(Append(q, Filler(e))).end = DevSize
<1> DEFINE f == Filler(e)
           r == Append(q, f)
           m == Len(q) + 1
<1>0. DevSize \in Nat /\ e \in Nat /\ e > 0 /\ e < DevSize /\ Len(q) \in Nat
  BY SizesAssumption
<1>1. f.start = e /\ f.sectors = DevSize - e /\ f \in Entry
  BY <1>0 DEF Filler, Entry, Types
<1> HIDE DEF f
<1>2. /\ r \in Seq(Entry) /\ Len(r) = m /\ r[m] = f /\ m \in 1..Len(r)
      /\ \A i \in 1..Len(q) : i \in 1..Len(r) /\ r[i] = q[i]
      /\ \A i \in 1..Len(r) : i \in 1..Len(q) \/ i = m
      /\ \A i \in 1..Len(q) : i # m
  BY <1>0, <1>1
<1> HIDE DEF r, m
<1>3. PICK g \in [Nat -> WalkResult(q)] : Stepped(q, g) /\ Walk(q) = g[1]
  BY WalkFunction
<1>4. PICK h \in [Nat -> WalkResult(r)] : Stepped(r, h) /\ Walk(r) = h[1]
  BY <1>2, WalkFunction
<1>5. \A i \in 1..Len(q) : q[i].start \in Nat /\ q[i].start < e
  <2>1. AtEnd(q, e)
    BY <1>3, WalkStops
  <2> SUFFICES ASSUME NEW i \in 1..Len(q) PROVE q[i].start \in Nat /\ q[i].start < e
    OBVIOUS
  <2>2. q[i].start \in Nat
    BY EntryNats
  <2>3. i \notin From(q, e)
    BY <2>1, <1>0 DEF AtEnd
  <2>4. ~(q[i].start >= e)
    BY <2>3 DEF From
  <2> QED
    BY <2>2, <2>4, <1>0
<1> DEFINE Bad == {pos \in Nat : ~g[pos].empty /\ g[pos].end = e /\ h[pos].end # DevSize}
<1>6. ASSUME NEW pos \in Bad PROVE pos \in Nat /\ ~AtEnd(q, pos) /\ pos <= DevSize
  <2>1. pos \in Nat /\ g[pos].end = e /\ h[pos].end # DevSize
    OBVIOUS
  <2> HIDE DEF Bad
  <2>2. ~AtEnd(q, pos)
    <3> SUFFICES ASSUME AtEnd(q, pos) PROVE FALSE
      OBVIOUS
    <3>1. g[pos] = [end |-> pos, used |-> {}, empty |-> FALSE]
      BY <1>3, <2>1, WalkStepIs DEF Stepped
    <3>2. pos = e
      BY <2>1, <3>1
    <3>3. m \in From(r, pos) /\ \A j \in From(r, pos) : j = m
      <4>1. m \in From(r, pos)
        BY <1>0, <1>1, <1>2, <3>2 DEF From
      <4>2. ASSUME NEW j \in From(r, pos), j # m PROVE FALSE
        <5>1. j \in 1..Len(q) /\ r[j].start >= pos
          BY <1>2, <4>2 DEF From
        <5>2. q[j].start >= e /\ q[j].start \in Nat /\ q[j].start < e
          BY <1>2, <1>5, <3>2, <5>1
        <5> QED
          BY <1>0, <5>2
      <4> QED
        BY <4>1, <4>2
    <3>4. ~AtEnd(r, pos)
      BY <1>0, <3>2, <3>3 DEF AtEnd
    <3>5. Closest(r, From(r, pos)) = m
      <4>1. \A i \in From(r, pos) : i \in 1..Len(r)
        BY DEF From
      <4>2. From(r, pos) # {}
        BY <3>3
      <4>3. Closest(r, From(r, pos)) \in From(r, pos)
        BY <1>2, <4>1, <4>2, ClosestFirst
      <4> QED
        BY <3>3, <4>3
    <3>6. r[m].sectors = DevSize - e /\ DevSize - e # 0 /\ pos + (DevSize - e) = DevSize
      BY <1>0, <1>1, <1>2, <3>2
    <3>7. h[pos] = [h[DevSize] EXCEPT !.used = @ \cup {m}]
      <4>0. r[m].sectors # 0
        BY <3>6
      <4>1. WalkStep(r, h, pos) = [h[pos + r[m].sectors] EXCEPT !.used = @ \cup {m}]
        BY ONLY <1>2, <2>1, <3>4, <3>5, <4>0, WalkStepIs
      <4> QED
        BY <1>4, <2>1, <3>6, <4>1 DEF Stepped
    <3>8. h[DevSize] = [end |-> DevSize, used |-> {}, empty |-> FALSE]
      <4>1. AtEnd(r, DevSize)
        BY <1>0 DEF AtEnd
      <4> QED
        BY <1>0, <1>2, <1>4, <4>1, WalkStepIs DEF Stepped
    <3>9. h[pos].end = DevSize
      BY <3>7, <3>8
    <3> QED
      BY <2>1, <3>9
  <2> QED
    BY <2>1, <2>2, <1>0 DEF AtEnd
<1>7. Bad = {}
  <2> SUFFICES ASSUME Bad # {} PROVE FALSE
    OBVIOUS
  <2>1. PICK pos \in Bad : \A y \in Bad : y <= pos
    <3> HIDE DEF Bad
    <3> QED
      BY <1>0, <1>6, GreatestNat, Zenon
  <2>2. pos \in Nat /\ ~AtEnd(q, pos) /\ ~g[pos].empty /\ g[pos].end = e /\ h[pos].end # DevSize
    BY <1>6
  <2>3. PICK c : c = Closest(q, From(q, pos))
    OBVIOUS
  <2>4. c \in 1..Len(q) /\ q[c].sectors \in Nat /\ pos < DevSize /\ g[pos] = WalkStep(q, g, pos)
    BY <1>3, <2>2, <2>3, WalkStepIs DEF Stepped
  <2>5. q[c].sectors # 0
    <3> SUFFICES ASSUME q[c].sectors = 0 PROVE FALSE
      OBVIOUS
    <3>1. g[pos] = [end |-> pos, used |-> {c}, empty |-> TRUE]
      BY <2>2, <2>3, <2>4, WalkStepIs
    <3>2. g[pos].empty = TRUE
      BY <3>1
    <3> QED
      BY <2>2, <3>2
  <2>6. g[pos] = [g[pos + q[c].sectors] EXCEPT !.used = @ \cup {c}]
    BY <2>2, <2>3, <2>4, <2>5, WalkStepIs
  <2>7. pos + q[c].sectors \in Nat /\ ~(pos + q[c].sectors <= pos)
    BY <2>2, <2>4, <2>5
  <2>8. c \in From(q, pos) /\ \A j \in From(q, pos) : j \in 1..Len(q) /\ Before(q, c, j)
    <3>1. From(q, pos) # {} /\ \A i \in From(q, pos) : i \in 1..Len(q)
      BY <2>2 DEF AtEnd, From
    <3> QED
      BY <2>3, <3>1, ClosestFirst
  <2>9. c \in From(r, pos)
    BY <1>2, <2>8 DEF From
  <2>10. \A j \in From(r, pos) : Before(r, c, j)
    <3> SUFFICES ASSUME NEW j \in From(r, pos) PROVE Before(r, c, j)
      OBVIOUS
    <3>1. CASE j = m
      <4>1. r[c].start = q[c].start /\ r[j].start = e /\ q[c].start < e
        BY <1>1, <1>2, <1>5, <2>4, <3>1
      <4> QED
        BY <4>1 DEF Before
    <3>2. CASE j # m
      <4>1. j \in 1..Len(q) /\ r[j] = q[j] /\ r[c] = q[c]
        BY <1>2, <2>4, <3>2 DEF From
      <4>2. j \in From(q, pos)
        BY <4>1 DEF From
      <4> QED
        BY <2>8, <4>1, <4>2 DEF Before
    <3> QED
      BY <3>1, <3>2
  <2>11. c = Closest(r, From(r, pos))
    <3>1. \A i \in From(r, pos) : i \in 1..Len(r)
      BY DEF From
    <3> QED
      BY <1>2, <2>9, <2>10, <3>1, ClosestIs
  <2>12. r[c].sectors = q[c].sectors
    BY <1>2, <2>4
  <2>13. ~AtEnd(r, pos)
    BY <1>0, <2>2, <2>4, <2>9 DEF AtEnd
  <2>14. h[pos] = [h[pos + q[c].sectors] EXCEPT !.used = @ \cup {c}]
    <3>0. r[c].sectors # 0 /\ pos \in Nat
      BY <2>2, <2>5, <2>12
    <3>4. r \in Seq(Entry)
      BY <1>2
    <3> HIDE DEF Bad
    <3>1. h[pos] = Met(h[pos + r[c].sectors], c)
      BY ONLY <1>4, <3>0, <3>4, <2>11, <2>13, WalkGoesOn
    <3> QED
      BY <2>12, <3>1 DEF Met
  <2> DEFINE w == g[pos + q[c].sectors]
             v == h[pos + q[c].sectors]
  <2>15. /\ w \in [end : Nat, used : SUBSET (1..Len(q)), empty : BOOLEAN]
         /\ v \in [end : Nat, used : SUBSET (1..Len(r)), empty : BOOLEAN]
    BY <2>7 DEF WalkResult
  <2>16. ~w.empty /\ w.end = e => v.end = DevSize
    <3>1. pos + q[c].sectors \notin Bad
      <4> HIDE DEF Bad
      <4> QED
        BY <2>1, <2>7
    <3> QED
      BY <2>7, <3>1
  <2>17. g[pos] = [w EXCEPT !.used = @ \cup {c}] /\ h[pos] = [v EXCEPT !.used = @ \cup {c}]
    BY <2>6, <2>14
  <2> HIDE DEF w, v, Bad
  <2>18. /\ [w EXCEPT !.used = @ \cup {c}].end = w.end
         /\ [w EXCEPT !.used = @ \cup {c}].empty = w.empty
         /\ [v EXCEPT !.used = @ \cup {c}].end = v.end
    BY <2>15
  <2> QED
    BY <2>2, <2>16, <2>17, <2>18
<1>8. 1 \notin Bad
  BY <1>7
<1> QED
  BY <1>3, <1>4, <1>8 DEF r, f

Filled(t) ==
  \/ Len(t.parts) <= Len(ReadTable.parts)
  \/ /\ Len(t.parts) = Len(ReadTable.parts) + 1
     /\ Walk(t.parts).end \notin 1..(DevSize - 1)

FInv == tab # NoTable /\ wr = Idle /\ ~Changed(tab) => Filled(tab)

LEMMA CachedFilled ==
  ASSUME IInv, CInv, FInv, wr = Idle, Cached # NoTable
  PROVE  /\ Cached \in Table /\ ~Changed(Cached) => Filled(Cached)
         /\ ~Changed(Cached) => ReadTable \in Table
<1>1. Cached \in Table
  BY CachedGood DEF Good
<1>2. ASSUME ~Changed(Cached) PROVE ReadTable \in Table
  <2>1. Agrees(Cached)
    BY <1>2, CachedFacts
  <2>2. disk \in Disk
    BY DEF IInv, TypeOK
  <2> QED
    BY <2>1, <2>2, ReadTableFacts DEF Agrees
<1>3. ASSUME ~Changed(Cached) PROVE Filled(Cached)
  <2>1. CASE tab # NoTable
    BY <1>3, <2>1 DEF Cached, FInv
  <2>2. CASE tab = NoTable
    <3>1. Cached = ReadTable /\ Len(ReadTable.parts) \in Nat
      BY <1>2, <1>3, <2>2 DEF Cached, Table
    <3> QED
      BY <3>1 DEF Filled
  <2> QED
    BY <2>1, <2>2
<1> QED
  BY <1>1, <1>2, <1>3

(* Calls that change the cached table only.                                  *)
LEMMA TableFilled ==
  ASSUME UNCHANGED <<boot, disk, wr>>, NEW t, tab' = t,
         t # NoTable /\ ~Changed(t) => Filled(t)
  PROVE  FInv'
<1>1. ReadTable' = ReadTable
  BY DEF ReadTable, ReadCount
<1>2. tab' # NoTable /\ ~Changed(t) => Filled(t)
  OBVIOUS
<1>3. Filled(tab)' <=> Filled(t)
  BY <1>1 DEF Filled
<1>4. Changed(tab)' <=> Changed(t)
  BY DEF Changed
<1> QED
  BY <1>2, <1>3, <1>4 DEF FInv

LEMMA ValidationFilled ==
  ASSUME NEW t \in Table, NEW v \in Validations(t), Filled(t), ReadTable \in Table
  PROVE  Filled(v.table)
<1> DEFINE w == Walk(t.parts)
           e == w.end
           short == e \in 1..(DevSize - 1)
           q == IF short THEN Append(t.parts, Filler(e)) ELSE t.parts
           u == v.table
<1>1. t.parts \in Seq(Entry) /\ Len(t.parts) \in Nat /\ Len(ReadTable.parts) \in Nat
  BY DEF Table
<1>2. \/ u = t
      \/ /\ u = [t EXCEPT !.parts = q] \/ u = [t EXCEPT !.parts = q, !.flags = @ \cup {"VALID"}]
         /\ ~w.empty
  <2> DEFINE ok(x) == [ok |-> TRUE, table |-> x]
             no(x) == [ok |-> FALSE, table |-> x]
             more  == [t EXCEPT !.parts = q]
             good  == [t EXCEPT !.parts = q, !.flags = @ \cup {"VALID"}]
  <2>1. \/ v \in {ok(t), no(t)}
        \/ v \in {ok(good), no(more)} /\ ~w.empty
    BY Zenon DEF Validations
  <2>2. \A x : ok(x).table = x /\ no(x).table = x
    OBVIOUS
  <2> HIDE DEF ok, no, w
  <2> QED
    BY <2>1, <2>2, Zenon
<1>3. CASE u = t
  BY <1>3 DEF Filled
<1>4. CASE u.parts = q /\ ~w.empty
  <2>1. CASE ~short
    BY <1>4, <2>1 DEF Filled
  <2>2. CASE short
    <3>1. Walk(q).end = DevSize
      BY <1>1, <1>4, <2>2, WalkOverFiller
    <3>2. Len(q) = Len(t.parts) + 1
      BY <1>1, <2>2
    <3>3. Len(t.parts) <= Len(ReadTable.parts)
      BY <2>2 DEF Filled
    <3>4. Len(q) <= Len(ReadTable.parts) \/ Len(q) = Len(ReadTable.parts) + 1
      <4> HIDE DEF q
      <4> QED
        BY <1>1, <3>2, <3>3
    <3>5. DevSize \notin 1..(DevSize - 1)
      BY SizesAssumption
    <3> HIDE DEF q, short
    <3> QED
      BY <1>4, <3>1, <3>4, <3>5 DEF Filled
  <2> QED
    BY <2>1, <2>2
<1> HIDE DEF q, w, u
<1>5. u # t => u.parts = q /\ ~w.empty
  BY <1>2 DEF Table
<1> QED
  BY <1>3, <1>4, <1>5 DEF u

LEMMA ValidateFilled ==
  ASSUME IInv, CInv, FInv, wr = Idle, Cached # NoTable, NEW v \in Validations(Cached),
         tab' = v.table, UNCHANGED <<boot, disk, file, wr>>
  PROVE  FInv'
<1>1. PICK t : t = Cached
  OBVIOUS
<1>2. t \in Table
  BY <1>1, CachedGood DEF Good
<1>3. v.table.flags \ {"VALID"} = t.flags \ {"VALID"}
  BY <1>1, <1>2, ValidationFacts
<1>4. Changed(v.table) <=> Changed(t)
  <2>1. \A f \in {"DIRTY", "NONINIT"} : f \in v.table.flags <=> f \in t.flags
    BY <1>3
  <2> QED
    BY <2>1 DEF Changed
<1>5. ~Changed(t) => Filled(t) /\ ReadTable \in Table
  BY <1>1, <1>2, CachedFilled
<1>6. ~Changed(v.table) => Filled(v.table)
  BY <1>1, <1>2, <1>4, <1>5, ValidationFilled
<1> QED
  BY <1>6, TableFilled

LEMMA CountedFilled ==
  ASSUME NEW t \in Table, NEW n \in 1..Len(t.parts), NEW d \in Int,
         t.parts[n].refs + d \in Nat, Filled(t)
  PROVE  Filled(Counted(t, n, d))
<1> DEFINE p == Ref(t.parts, n, d)
<1>1. t.parts \in Seq(Entry) /\ Len(t.parts) \in Nat
  BY DEF Table
<1>2. p \in Seq(Entry) /\ Len(p) = Len(t.parts) /\ SameStarts(t.parts, p)
  BY <1>1, RefFacts DEF SameStarts
<1>3. Counted(t, n, d).parts = p
  BY DEF Counted
<1> HIDE DEF p
<1>4. Walk(p) = Walk(t.parts)
  BY <1>1, <1>2, WalkSame
<1> QED
  BY <1>2, <1>3, <1>4 DEF Filled

LEMMA OpenFilled ==
  ASSUME IInv, CInv, FInv, NEW h \in Handles, NEW n \in 1..MapSectors, OpenPart(h, n)
  PROVE  FInv'
<1>0. PICK t : t = Cached
  OBVIOUS
<1>1. wr = Idle /\ t # NoTable /\ n <= Len(t.parts) /\ tab' = Counted(t, n, 1)
      /\ UNCHANGED <<boot, disk, wr>>
  BY <1>0 DEF OpenPart
<1>2. t \in Table
  BY <1>0, <1>1, CachedGood DEF Good
<1>3. t.parts \in Seq(Entry) /\ Len(t.parts) \in Nat /\ n \in 1..Len(t.parts)
  BY <1>1, <1>2, SizesAssumption DEF Table
<1>4. t.parts[n].refs + 1 \in Nat
  <2>1. t.parts[n] \in Entry
    BY <1>3
  <2> QED
    BY <2>1 DEF Entry
<1>5. ~Changed(t) => Filled(t)
  BY <1>0, <1>1, <1>2, CachedFilled
<1>6. Changed(Counted(t, n, 1)) <=> Changed(t)
  BY DEF Counted, Changed
<1>7. ~Changed(Counted(t, n, 1)) => Filled(Counted(t, n, 1))
  BY <1>2, <1>3, <1>4, <1>5, <1>6, CountedFilled
<1> QED
  BY <1>1, <1>7, TableFilled

LEMMA CloseFilled ==
  ASSUME IInv, FInv, NEW h \in Handles, ClosePart(h)
  PROVE  FInv'
<1>0. PICK n, t : n = file[h].slot /\ t = tab
  OBVIOUS
<1>1. wr = Idle /\ Open(h) /\ tab' = Counted(t, n, -1) /\ UNCHANGED <<boot, disk, wr>>
  BY <1>0 DEF ClosePart
<1>2. Good(t) /\ t # NoTable
  BY <1>0, <1>1 DEF IInv
<1>3. file \in [Handles -> [slot : Nat, start : Nat, sectors : Nat, clean : BOOLEAN]]
  BY DEF IInv, TypeOK
<1>4. t \in Table /\ n \in 1..Len(t.parts)
  BY <1>0, <1>1, <1>2, <1>3 DEF Good, Table, Open
<1>5. t.parts[n].refs + (-1) \in Nat
  <2>1. t.parts[n].refs = 1 + Cardinality(Users(n))
    BY <1>2, <1>4 DEF Good
  <2>2. Cardinality(Users(n)) \in Nat
    BY HandleSets DEF Users
  <2> QED
    BY <2>1, <2>2
<1>6. ~Changed(t) => Filled(t)
  BY <1>0, <1>1, <1>2 DEF FInv
<1>7. Changed(Counted(t, n, -1)) <=> Changed(t)
  BY DEF Counted, Changed
<1>8. ~Changed(Counted(t, n, -1)) => Filled(Counted(t, n, -1))
  BY <1>4, <1>5, <1>6, <1>7, CountedFilled
<1> QED
  BY <1>1, <1>8, TableFilled

LEMMA EndWriteFilled ==
  ASSUME IInv, CInv, EndWrite
  PROVE  FInv'
<1> DEFINE u == [tab EXCEPT !.flags = @ \ {"DIRTY"}]
<1>1. tab' = u /\ wr > 0 /\ wr # Idle /\ UNCHANGED <<boot, disk>>
  BY DEF EndWrite, Idle
<1>2. Good(tab) /\ tab # NoTable /\ disk \in Disk
  BY <1>1 DEF IInv, TypeOK
<1>3. u.parts = tab.parts
  BY <1>2 DEF Good, Table
<1> HIDE DEF u
<1>4. Len(tab.parts) \in Nat /\ Len(tab.parts) >= 1 /\ Len(tab.parts) \in 1..Len(tab.parts)
  BY <1>2 DEF Good, Table
<1>5. OnDrive(Len(tab.parts), tab.parts[Len(tab.parts)])
  BY <1>1, <1>4, WrittenOnDrive
<1>6. Len(tab.parts) \in 1..Len(ReadTable.parts) /\ ReadTable # NoTable
  BY <1>2, <1>5, OnDriveRead
<1>7. Len(tab.parts) <= Len(ReadTable.parts)
  BY <1>4, <1>6
<1>8. Filled(u)
  BY <1>3, <1>7 DEF Filled
<1>9. ReadTable' = ReadTable
  BY <1>1 DEF ReadTable, ReadCount
<1>10. Filled(tab)'
  BY <1>1, <1>8, <1>9 DEF Filled
<1> QED
  BY <1>10 DEF FInv

LEMMA NextFilled ==
  ASSUME BootWritable, IInv, CInv, FInv, [Next]_vars
  PROVE  FInv'
<1>1. CASE Load
  <2>1. wr = Idle /\ tab = NoTable /\ tab' = ReadTable /\ UNCHANGED <<boot, disk, file, wr>>
    BY <1>1 DEF Load
  <2>2. ASSUME ReadTable # NoTable, ~Changed(ReadTable) PROVE Filled(ReadTable)
    <3>1. Cached = ReadTable
      BY <2>1 DEF Cached
    <3>2. ReadTable \in Table
      BY <2>1, <2>2, <3>1, CachedGood DEF Good
    <3> QED
      BY <2>1, <2>2, <3>1, <3>2, CachedFilled
  <2>3. PICK t : t = ReadTable
    OBVIOUS
  <2> QED
    BY <2>1, <2>2, <2>3, TableFilled
<1>2. CASE QueryFree
  BY <1>2, ValidateFilled DEF QueryFree
<1>3. ASSUME NEW size \in Sizes, NEW before \in 0..MapSectors, AddFails(size, before)
      PROVE  FInv'
  BY <1>3, ValidateFilled DEF AddFails
<1>4. ASSUME NEW size \in Sizes, NEW before \in 0..MapSectors, Add(size, before)
      PROVE  FInv'
  <2>1. PICK v \in Validations(Cached) :
          \E p : tab' = [v.table EXCEPT !.parts = p, !.flags = @ \cup {"DIRTY"}]
    <3>1. PICK v \in Validations(Cached) :
        LET q  == v.table.parts
            sp == FirstMovable(q)
        IN  /\ ~Refused(v, size, before)
            /\ \E i \in sp..Len(q) :
                 /\ q[i].start = FirstFit(q, sp, size)
                 /\ tab' = [v.table EXCEPT
                              !.parts = WithPartition(q, sp, q[i].start, size, before),
                              !.flags = @ \cup {"DIRTY"}]
      BY <1>4 DEF Add
    <3> QED
      BY <3>1, Zenon
  <2>2. v.table \in Table
    <3>1. wr = Idle /\ Cached # NoTable
      BY <1>4 DEF Add
    <3>2. Cached \in Table
      BY <3>1, CachedGood DEF Good
    <3> QED
      BY <3>2, ValidationFacts
  <2>3. "DIRTY" \in tab'.flags
    <3>1. PICK p : tab' = [v.table EXCEPT !.parts = p, !.flags = @ \cup {"DIRTY"}]
      BY <2>1
    <3> QED
      BY <2>2, <3>1 DEF Table
  <2> QED
    BY <2>3 DEF FInv, Changed
<1>5. CASE InitTable
  <2>1. "NONINIT" \in tab'.flags
    BY <1>5 DEF InitTable
  <2> QED
    BY <2>1 DEF FInv, Changed
<1>6. ASSUME NEW h \in Handles, NEW n \in 1..MapSectors, OpenPart(h, n)
      PROVE  FInv'
  BY <1>6, OpenFilled
<1>7. ASSUME NEW h \in Handles, ClosePart(h)
      PROVE  FInv'
  BY <1>7, CloseFilled
<1>8. CASE BeginWrite
  BY <1>8 DEF BeginWrite, FInv, Idle
<1>9. CASE WriteBoot
  BY <1>9 DEF WriteBoot, FInv, Idle
<1>10. CASE WriteSector
  <2>1. wr \in Int
    BY DEF IInv, TypeOK, Idle
  <2> QED
    BY <1>10, <2>1 DEF WriteSector, FInv, Idle
<1>11. CASE EndWrite
  BY <1>11, EndWriteFilled
<1>12. CASE WriteFails
  <2>1. wr # Idle /\ tab' = tab
    BY <1>12, SizesAssumption DEF WriteFails, Idle
  <2>2. "DIRTY" \in tab'.flags
    BY <2>1 DEF CInv, Writing
  <2> QED
    BY <2>2 DEF FInv, Changed
<1>13. CASE ToolEnds
  BY <1>13 DEF ToolEnds, FInv
<1>14. CASE UNCHANGED vars
  <2>1. UNCHANGED <<boot, disk, tab, file, wr>>
    BY <1>14 DEF vars
  <2>2. PICK t : t = tab
    OBVIOUS
  <2>3. CASE wr = Idle
    BY <2>1, <2>2, <2>3, TableFilled DEF FInv
  <2>4. CASE wr # Idle
    BY <2>1, <2>4 DEF FInv
  <2> QED
    BY <2>3, <2>4
<1> QED
  BY <1>1, <1>2, <1>3, <1>4, <1>5, <1>6, <1>7, <1>8, <1>9, <1>10, <1>11, <1>12, <1>13, <1>14
     DEF Next

(* "Writes a partition table back to disk": once the write has ended, and as *)
(* long as no call changes the table, the next tool reads the entries of the *)
(* table in memory, all of them but for one filler, on every drive whose     *)
(* boot block can be written, whatever map it carried at first.              *)
THEOREM CleanTheorem ==
  ASSUME BootWritable
  PROVE  Spec => []CleanReadsBack
<1>1. Init => FInv
  BY DEF Init, FInv
<1>2. IInv /\ CInv /\ FInv /\ [Next]_vars => FInv'
  BY NextFilled
<1>3. IInv /\ CInv /\ FInv => CleanReadsBack
  <2> SUFFICES ASSUME IInv, CInv, FInv, Settled
               PROVE  Len(tab.parts) <= Len(ReadTable.parts) + 1
    BY DEF CleanReadsBack, CInv
  <2>1. tab # NoTable /\ wr = Idle /\ ~Changed(tab)
    BY DEF Settled, Changed
  <2>2. tab \in Table /\ ReadTable \in Table
    <3>1. Agrees(tab) /\ disk \in Disk
      BY <2>1, ReadsBackAgrees DEF CInv, IInv, TypeOK
    <3> QED
      BY <2>1, <3>1, ReadTableFacts DEF Agrees, IInv, Good
  <2>3. Len(tab.parts) \in Nat /\ Len(ReadTable.parts) \in Nat
    BY <2>2 DEF Table
  <2> QED
    BY <2>1, <2>3 DEF FInv, Filled
<1> QED
  BY <1>1, <1>2, <1>3, CrashInductive, Inductive, PTL DEF Spec

-----------------------------------------------------------------------------
(* What a caller knows of the numbers of its partitions.                     *)

(* The deletion loop moves no entry in front of which it removes none.       *)
LEMMA SweptUpTo ==
  ASSUME NEW q \in Seq(Entry), Row(q), NEW sp \in 2..(Len(q) + 1), NEW size \in Nat \ {0},
         NEW i, Place(q, sp, i, size), NEW o \in 1..Len(q), o # i,
         \A j \in Removed(q, sp, q[i].start, q[i].start + size) : j >= o,
         NEW s \in Seq(Entry), s = Swept(q, sp, q[i].start, q[i].start + size)
  PROVE  o <= Len(s) /\ s[o] = q[o]
<1> DEFINE K == Kept(q, sp, i, size)
<1>0. Len(q) \in Nat /\ sp \in Nat /\ o \in Nat /\ o >= 1 /\ i \in Nat /\ i \in sp..Len(q)
  BY DEF Place
<1>1. /\ Len(s) = sp - 1 + Cardinality(K)
      /\ \A m \in 1..(sp - 1) : s[m] = q[m]
      /\ \A m \in sp..Len(s) : s[m] = Source(q, i, size, Nth(K, m - sp + 1))
  BY SweptIs
<1>2. \A k \in K : k \in 1..Len(q) /\ k >= sp
  BY <1>0 DEF Kept
<1>3. /\ Cardinality(K) \in Nat
      /\ \A k \in K : \E n \in 1..Cardinality(K) : Nth(K, n) = k
      /\ \A n \in 1..Cardinality(K) : Cardinality({k \in K : k <= Nth(K, n)}) = n
  <2> HIDE DEF K
  <2> QED
    BY <1>0, <1>2, NthOnce, NthInK
<1>4. CASE o < sp
  BY <1>0, <1>1, <1>3, <1>4
<1>5. CASE o >= sp
  <2>1. \A k \in sp..o : k \in K
    <3> TAKE k \in sp..o
    <3>1. k \in sp..Len(q)
      BY <1>0
    <3>2. ~(k = i /\ q[i].sectors = size)
      <4> SUFFICES ASSUME k = i, q[i].sectors = size PROVE FALSE
        OBVIOUS
      <4>1. i \in Removed(q, sp, q[i].start, q[i].start + size)
        BY <1>0, RemovedIs
      <4> QED
        BY <1>0, <4>1
    <3> QED
      BY <3>1, <3>2 DEF Kept
  <2>2. {k \in K : k <= o} = sp..o
    BY <1>0, <1>2, <2>1
  <2>3. o \in K
    BY <1>0, <1>5, <2>1
  <2> HIDE DEF K
  <2>4. PICK n \in 1..Cardinality(K) : Nth(K, n) = o
    BY <1>3, <2>3
  <2>5. n = o - sp + 1
    <3>1. Cardinality(sp..o) = o - sp + 1
      BY <1>0, <1>5, FS_Interval
    <3> QED
      BY <1>3, <2>2, <2>4, <3>1
  <2>6. o \in sp..Len(s)
    BY <1>0, <1>1, <1>3, <1>5, <2>5
  <2>7. s[o] = Source(q, i, size, o)
    BY <1>1, <2>4, <2>5, <2>6
  <2> QED
    BY <1>0, <2>6, <2>7 DEF Source
<1> QED
  BY <1>0, <1>4, <1>5

(* A partition goes behind every entry that is not free, if it is not asked  *)
(* to go before it.                                                          *)
LEMMA NewSlotBehind ==
  ASSUME NEW s \in Seq(Entry), NEW j \in 1..Len(s), j = 1 \/ s[j].type # "free",
         NEW before \in Nat, before \notin 2..j
  PROVE  NewSlot(s, before) \in (j + 1)..(Len(s) + 1)
<1> DEFINE sp == j + 1
<1>1. sp \in 2..(Len(s) + 1) /\ sp - 1 = j /\ (j = 1 => sp = 2)
  OBVIOUS
<1>2. before \notin 2..(sp - 1) /\ (sp = 2 \/ s[sp - 1].type # "free")
  BY <1>1
<1> HIDE DEF sp
<1>3. NewSlot(s, before) \in sp..(Len(s) + 1)
  BY <1>1, <1>2, NewSlotFacts
<1> QED
  BY <1>3 DEF sp

(* tivo_partition_add on a row that covers the device, when it finds room:   *)
(* what is behind the partitions in use may move, an entry in front of the   *)
(* one that was taken stays.                                                 *)
LEMMA AddByNumber ==
  ASSUME NEW q \in Seq(Entry), Len(q) >= 1, Row(q), Covered(q),
         \A k \in 1..Len(q) : q[k].refs >= 1,
         NEW sp, sp = FirstMovable(q), NEW size \in Nat \ {0},
         NEW first, first = FirstFit(q, sp, size), first # NoRoom,
         NEW before \in Nat, before \notin 2..(sp - 1),
         NEW n, n = NewSlot(Swept(q, sp, first, first + size), before),
         NEW r, r = WithPartition(q, sp, first, size, before)
  PROVE  /\ r \in Seq(Entry) /\ Row(r) /\ Covered(r) /\ \A k \in 1..Len(r) : r[k].refs >= 1
         /\ Data(q) \subseteq Data(r)
         /\ n \in 2..Len(r) /\ r[n].type = "data"
         /\ \A j \in 1..(sp - 1) : j = 1 \/ q[j].type # "free" => j < n /\ r[j] = q[j]
         /\ \A o \in 2..Len(q) :
              q[o].type # "free" /\ (\A j \in Removed(q, sp, first, first + size) : j >= o) =>
                /\ before = 0 => o < n /\ r[o] = q[o]
                /\ before = o => n = o /\ o < Len(r) /\ r[o + 1] = q[o]
<1>0. /\ Len(q) \in Nat /\ sp \in 2..(Len(q) + 1) /\ sp \in Nat \ {0} /\ size \in Nat /\ size > 0
      /\ \A k \in 1..Len(q) : EndOf(q[k]) <= DevSize
  BY FirstMovableFacts DEF Covered
<1>1. PICK i \in Fitting(q, sp, size, 0) : first = q[i].start
  <2>1. LowestFit(q, sp, size, 0, first)
    BY <1>0, FitFacts
  <2> QED
    BY <2>1 DEF LowestFit
<1>2. Place(q, sp, i, size) /\ i \in 1..Len(q) /\ q[i].type = "free" /\ q[i].sectors >= size
  BY <1>0, <1>1, FreeFromFacts DEF Fitting, Place
<1>3. r \in Seq(Entry) /\ \E phi : Rearranged(q, i, size, r, phi)
  BY <1>0, <1>1, <1>2, AddRearranges
<1>4. PICK phi : Rearranged(q, i, size, r, phi)
  BY <1>3
<1>5. Row(r) /\ Covered(r)
  BY <1>2, <1>4, AddedRow
<1>6. Data(q) \subseteq Data(r)
  BY <1>2, <1>4, AddedData
<1>7. \A k \in 1..Len(r) : r[k].refs >= 1
  <2> TAKE k \in 1..Len(r)
  <2>1. phi[k] \in Sources(q, i, size) /\ r[k] = Source(q, i, size, phi[k])
    BY <1>4 DEF Rearranged
  <2>2. CASE phi[k] = 0
    BY <2>1, <2>2 DEF Source, NewEntry
  <2>3. CASE phi[k] # 0 /\ phi[k] = i
    BY <1>2, <2>1, <2>3 DEF Source, Rest
  <2>4. CASE phi[k] # 0 /\ phi[k] # i
    BY <2>1, <2>4 DEF Source, Sources, Slots
  <2> QED
    BY <2>2, <2>3, <2>4
<1>8. PICK s \in Seq(Entry) :
        /\ s = Swept(q, sp, first, first + size)
        /\ Len(s) >= sp - 1 /\ \A m \in 1..(sp - 1) : s[m] = q[m]
  <2>1. PICK s \in Seq(Entry) :
          /\ Swept(q, sp, q[i].start, q[i].start + size) = s
          /\ Len(s) = sp - 1 + Cardinality(Kept(q, sp, i, size))
          /\ \A m \in 1..(sp - 1) : s[m] = q[m]
    BY <1>0, <1>2, SweptIs
  <2>2. Cardinality(Kept(q, sp, i, size)) \in Nat
    <3>1. \A k \in Kept(q, sp, i, size) : k \in 1..Len(q)
      BY <1>0 DEF Kept
    <3> QED
      BY <1>0, <3>1, NthOnce
  <2> QED
    BY <1>0, <1>1, <2>1, <2>2
<1> DEFINE e == [start |-> first, sectors |-> size, type |-> "data", refs |-> 1]
<1>9. e \in Entry /\ e.type = "data"
  <2>1. q[i].start \in Nat
    BY <1>2, RowNats
  <2> QED
    BY <1>0, <1>1, <2>1 DEF Entry, Types
<1>10. r = Inserted(s, n, e) /\ n = NewSlot(s, before) /\ Len(s) \in Nat
  BY <1>8 DEF WithPartition
<1> HIDE DEF e
<1>11. \A j \in 1..Len(s) : (j = 1 \/ s[j].type # "free") /\ before \notin 2..j => j < n /\ n <= Len(s) + 1
  <2> TAKE j \in 1..Len(s)
  <2> HAVE (j = 1 \/ s[j].type # "free") /\ before \notin 2..j
  <2>1. n \in (j + 1)..(Len(s) + 1)
    BY <1>10, NewSlotBehind
  <2> QED
    BY <1>10, <2>1
<1>12. n \in 2..(Len(s) + 1)
  <2>1. 1 \in 1..Len(s) /\ before \notin 2..1
    BY <1>0, <1>8, <1>10
  <2>2. n \in (1 + 1)..(Len(s) + 1)
    BY <1>10, <2>1, NewSlotBehind
  <2> QED
    BY <2>2
<1>13. /\ Len(r) = Len(s) + 1
       /\ \A k \in 1..Len(r) : r[k] = IF k < n THEN s[k] ELSE IF k = n THEN e ELSE s[k - 1]
  <2>1. n \in 1..(Len(s) + 1)
    BY <1>10, <1>12
  <2>2. IsInserted(Inserted(s, n, e), s, n, e)
    BY <1>9, <2>1, InsertedFacts
  <2> QED
    BY <1>10, <2>2 DEF IsInserted
<1>14. n \in 2..Len(r) /\ r[n].type = "data"
  BY <1>9, <1>10, <1>12, <1>13
<1>15. ASSUME NEW j \in 1..(sp - 1), j = 1 \/ q[j].type # "free"
       PROVE  j < n /\ r[j] = q[j]
  <2>1. j \in 1..Len(s) /\ s[j] = q[j] /\ before \notin 2..j
    BY <1>0, <1>8, <1>10
  <2>2. j < n
    BY <1>11, <1>15, <2>1
  <2>3. j \in 1..Len(r)
    BY <1>10, <1>13, <2>1
  <2> QED
    BY <1>13, <2>1, <2>2, <2>3
<1>16. ASSUME NEW o \in 2..Len(q), q[o].type # "free",
              \A j \in Removed(q, sp, first, first + size) : j >= o
       PROVE  /\ before = 0 => o < n /\ r[o] = q[o]
              /\ before = o => n = o /\ o < Len(r) /\ r[o + 1] = q[o]
  <2>1. o \in 1..Len(q) /\ o # i /\ o \in Nat
    BY <1>0, <1>2, <1>16
  <2>2. o <= Len(s) /\ s[o] = q[o]
    BY <1>0, <1>1, <1>2, <1>8, <1>16, <2>1, SweptUpTo
  <2>3. o \in 1..Len(s) /\ o \in 1..Len(r) /\ o + 1 \in 1..Len(r)
    BY <1>10, <1>13, <2>1, <2>2
  <2>4. ASSUME before = 0 PROVE o < n /\ r[o] = q[o]
    <3>1. o < n
      BY <1>11, <1>16, <2>2, <2>3, <2>4
    <3> QED
      BY <1>13, <2>2, <2>3, <3>1
  <2>5. ASSUME before = o PROVE n = o /\ o < Len(r) /\ r[o + 1] = q[o]
    <3>1. before \in 2..(Len(s) + 1)
      BY <1>10, <2>2, <2>5
    <3>2. n = o
      BY <1>10, <2>5, <3>1 DEF NewSlot
    <3>3. r[o + 1] = s[o]
      BY <1>13, <2>1, <2>3, <3>2
    <3> QED
      BY <1>10, <1>13, <2>2, <3>2, <3>3
  <2> QED
    BY <2>4, <2>5
<1> QED
  BY <1>3, <1>5, <1>6, <1>7, <1>14, <1>15, <1>16

(* And what validation leaves of the numbers.                                *)
LEMMA ValidByNumber ==
  ASSUME NEW t \in Table, Tiled(t), \A k \in 1..Len(t.parts) : t.parts[k].refs >= 1
  PROVE  /\ Validations(t) # {}
         /\ \A v \in Validations(t) :
              /\ v.table \in Table /\ Tiled(v.table) /\ (v.ok => Covered(v.table.parts))
              /\ \A k \in 1..Len(v.table.parts) : v.table.parts[k].refs >= 1
              /\ Data(v.table.parts) = Data(t.parts)
              /\ Len(t.parts) <= Len(v.table.parts)
              /\ \A k \in 1..Len(t.parts) : v.table.parts[k] = t.parts[k]
              /\ \A k \in (Len(t.parts) + 1)..Len(v.table.parts) : v.table.parts[k].type = "free"
              /\ v.table.flags \ {"VALID"} = t.flags \ {"VALID"}
<1>1. Validations(t) # {}
  BY Zenon DEF Validations
<1>2. ASSUME NEW v \in Validations(t)
      PROVE  /\ v.table \in Table /\ Tiled(v.table) /\ (v.ok => Covered(v.table.parts))
             /\ \A k \in 1..Len(v.table.parts) : v.table.parts[k].refs >= 1
             /\ Data(v.table.parts) = Data(t.parts)
             /\ Len(t.parts) <= Len(v.table.parts)
             /\ \A k \in 1..Len(t.parts) : v.table.parts[k] = t.parts[k]
             /\ \A k \in (Len(t.parts) + 1)..Len(v.table.parts) : v.table.parts[k].type = "free"
             /\ v.table.flags \ {"VALID"} = t.flags \ {"VALID"}
  <2>1. /\ v.table \in Table
        /\ Len(v.table.parts) >= Len(t.parts)
        /\ \A k \in 1..Len(t.parts) : v.table.parts[k] = t.parts[k]
        /\ \A k \in (Len(t.parts) + 1)..Len(v.table.parts) :
             v.table.parts[k].refs = 1 /\ v.table.parts[k].type = "free"
        /\ v.table.flags \ {"VALID"} = t.flags \ {"VALID"}
    BY ValidationFacts
  <2>2. Tiled(v.table) /\ (v.ok => "VALID" \in v.table.flags)
    BY ValidationTiled
  <2>3. v.ok => Covered(v.table.parts)
    BY <2>2 DEF Tiled
  <2>4. Len(t.parts) \in Nat /\ Len(v.table.parts) \in Nat
    BY <2>1 DEF Table
  <2>5. \A k \in 1..Len(v.table.parts) : v.table.parts[k].refs >= 1
    <3> TAKE k \in 1..Len(v.table.parts)
    <3>1. k \in 1..Len(t.parts) \/ k \in (Len(t.parts) + 1)..Len(v.table.parts)
      BY <2>4
    <3> QED
      BY <2>1, <3>1
  <2> QED
    BY <2>1, <2>2, <2>3, <2>4, <2>5, SameData
<1> QED
  BY <1>1, <1>2

(* A new table is a row.                                                     *)
LEMMA MapRow ==
  ASSUME NEW e, e = [start |-> 1, sectors |-> MapSectors, type |-> "map", refs |-> 1]
  PROVE  <<e>> \in Seq(Entry) /\ Row(<<e>>)
<1>1. MapSectors \in Nat /\ MapSectors > 0
  BY SizesAssumption
<1>2. /\ e.start = 1 /\ e.sectors = MapSectors /\ e.type = "map" /\ EndOf(e) = 1 + MapSectors
  BY DEF EndOf
<1>3. e \in Entry
  BY <1>1 DEF Entry, Types
<1>4. Len(<<e>>) = 1 /\ <<e>>[1] = e /\ <<e>> \in Seq(Entry)
  BY <1>3
<1>5. \A i \in 1..Len(<<e>>) : <<e>>[i] = e /\ i = 1
  BY <1>4
<1> QED
  BY <1>1, <1>2, <1>4, <1>5 DEF Row, Sized, Disjoint, Joined, FreeMerged, FreeFollowed
=============================================================================
