----------------------------- MODULE MfsAdd_proofs -----------------------------
(***************************************************************************)
(* For every pair of drives, every set on them and every sequence of runs  *)
(* that are stopped anywhere: the volumes whose numbers were sure stay.     *)
(* What one call of tivo_partition_add does is known from                   *)
(* PartTable_proofs, of which each drive has an instance.                   *)
(***************************************************************************)
EXTENDS MfsAdd, FiniteSetTheorems, SequenceTheorems, TLAPS

OnA == INSTANCE PartTable_proofs WITH
         DevSize <- DevSize["A"], MapSectors <- Allocated, Handles <- {}, InitDisks <- {},
         Sizes <- {}, Crashes <- FALSE, BadSectors <- {}, boot <- TRUE, disk <- disk["A"],
         tab <- mem["A"], file <- <<>>, wr <- 0
OnB == INSTANCE PartTable_proofs WITH
         DevSize <- DevSize["B"], MapSectors <- Allocated, Handles <- {}, InitDisks <- {},
         Sizes <- {}, Crashes <- FALSE, BadSectors <- {}, boot <- TRUE, disk <- disk["B"],
         tab <- mem["B"], file <- <<>>, wr <- 0

Flags == {"VALID", "DIRTY", "NONINIT"}
Entry == [start : Nat, sectors : Nat, type : Types, refs : Nat]
Table == [parts : Seq(Entry), refs : Nat, flags : SUBSET Flags]

RowOn(d, q)     == IF d = "A" THEN OnA!Row(q) ELSE OnB!Row(q)
CoveredOn(d, q) == IF d = "A" THEN OnA!Covered(q) ELSE OnB!Covered(q)

Data(q) == {[start |-> q[k].start, sectors |-> q[k].sectors, type |-> q[k].type] :
              k \in {k \in 1..Len(q) : q[k].type # "free"}}

-----------------------------------------------------------------------------
(* The operators of a drive's table are those of its instance.               *)
LEMMA AssumptionsA ==
  OnA!SizesAssumption /\ OnA!HandlesAssumption /\ OnA!NoneAssumption /\ OnA!DisksAssumption
<1>1. OnA!SizesAssumption
  BY SizesAssumption DEF OnA!SizesAssumption, Drives
<1>2. OnA!HandlesAssumption
  <2>1. \A S : OnA!IsFiniteSet(S) <=> IsFiniteSet(S)
    BY DEF OnA!IsFiniteSet, IsFiniteSet
  <2> QED
    BY <2>1, FS_EmptySet DEF OnA!HandlesAssumption
<1>3. "A" \in Drives
  BY DEF Drives
<1>4. OnA!NoneAssumption
  BY <1>3, NoneAssumption DEF OnA!NoneAssumption, OnA!Table, OnA!Entry, OnA!Types, OnA!Flags, OnA!DiskEntry,
     T!Table, T!Entry, T!Types, T!Flags, T!DiskEntry
<1>5. OnA!DisksAssumption
  BY DEF OnA!DisksAssumption
<1> QED
  BY <1>1, <1>2, <1>4, <1>5

LEMMA SameNamesA ==
  ASSUME NEW d \in Drives
  PROVE  /\ \A q : OnA!FirstMovable(q) = T(d)!FirstMovable(q)
         /\ \A q, sp, size : OnA!FirstFit(q, sp, size) = T(d)!FirstFit(q, sp, size)
         /\ \A q, sp, first, last : OnA!Removed(q, sp, first, last) = T(d)!Removed(q, sp, first, last)
         /\ \A q, sp, first, last : OnA!Swept(q, sp, first, last) = T(d)!Swept(q, sp, first, last)
         /\ \A s, before : OnA!NewSlot(s, before) = T(d)!NewSlot(s, before)
         /\ \A q, sp, first, size, before :
              OnA!WithPartition(q, sp, first, size, before) = T(d)!WithPartition(q, sp, first, size, before)
<1>1. \A q : OnA!FirstMovable(q) = T(d)!FirstMovable(q)
  BY DEF OnA!FirstMovable, T!FirstMovable
<1>2. \A q, sp, size : OnA!FirstFit(q, sp, size) = T(d)!FirstFit(q, sp, size)
  BY DEF OnA!FirstFit, T!FirstFit, OnA!FreeFrom, T!FreeFrom, OnA!Closest, T!Closest, OnA!Before, T!Before,
         OnA!NoRoom, T!NoRoom
<1>3. \A q, sp, first, last : OnA!Removed(q, sp, first, last) = T(d)!Removed(q, sp, first, last)
  BY DEF OnA!Removed, T!Removed, OnA!Inside, T!Inside, OnA!StartsIn, T!StartsIn
<1>4. \A q, sp, first, last : OnA!Swept(q, sp, first, last) = T(d)!Swept(q, sp, first, last)
  <2>1. \A S : OnA!Cardinality(S) = T(d)!Cardinality(S)
    BY DEF OnA!Cardinality, T!Cardinality
  <2>2. \A K, n : OnA!Nth(K, n) = T(d)!Nth(K, n)
    BY <2>1 DEF OnA!Nth, T!Nth
  <2>3. \A q, k, gone, first, last : OnA!Trimmed(q, k, gone, first, last) = T(d)!Trimmed(q, k, gone, first, last)
    BY DEF OnA!Trimmed, T!Trimmed, OnA!Inside, T!Inside, OnA!StartsIn, T!StartsIn
  <2> TAKE q, sp, first, last
  <2> DEFINE gone == OnA!Removed(q, sp, first, last)
             kept == (sp..Len(q)) \ gone
             ta   == [n \in 1..OnA!Cardinality(kept) |-> OnA!Trimmed(q, OnA!Nth(kept, n), gone, first, last)]
             td   == [n \in 1..T(d)!Cardinality(kept) |-> T(d)!Trimmed(q, T(d)!Nth(kept, n), gone, first, last)]
  <2>4. OnA!Swept(q, sp, first, last) = SubSeq(q, 1, sp - 1) \o ta
    BY DEF OnA!Swept
  <2>5. T(d)!Swept(q, sp, first, last) = SubSeq(q, 1, sp - 1) \o td
    BY <1>3, Zenon DEF T!Swept
  <2> HIDE DEF gone, kept
  <2>6. ta = td
    BY <2>1, <2>2, <2>3
  <2> HIDE DEF ta, td
  <2> QED
    BY <2>4, <2>5, <2>6
<1>5. \A s, before : OnA!NewSlot(s, before) = T(d)!NewSlot(s, before)
  BY DEF OnA!NewSlot, T!NewSlot
<1>6. \A q, sp, first, size, before :
        OnA!WithPartition(q, sp, first, size, before) = T(d)!WithPartition(q, sp, first, size, before)
  <2>1. \A s, slot, e : OnA!Inserted(s, slot, e) = T(d)!Inserted(s, slot, e)
    BY DEF OnA!Inserted, T!Inserted
  <2> QED
    BY <1>4, <1>5, <2>1, ZenonT(40) DEF OnA!WithPartition, T!WithPartition
<1> QED
  BY <1>1, <1>2, <1>3, <1>4, <1>5, <1>6

LEMMA ValidatesA ==
  ASSUME NEW t
  PROVE  OnA!Validations(t) = T("A")!Validations(t)
<1>1. \A q : OnA!Walk(q) = T("A")!Walk(q)
  BY DEF OnA!Walk, T!Walk, OnA!Closest, T!Closest, OnA!Before, T!Before
<1>2. \A end : OnA!Filler(end) = T("A")!Filler(end)
  BY DEF OnA!Filler, T!Filler
<1> QED
  BY <1>1, <1>2, Zenon DEF OnA!Validations, T!Validations

LEMMA SameTypesA == OnA!Table = Table /\ OnA!Entry = Entry /\ \A q : OnA!Data(q) = Data(q)
BY DEF OnA!Table, Table, OnA!Entry, Entry, OnA!Types, Types, OnA!Flags, Flags, OnA!Data, Data

LEMMA AssumptionsB ==
  OnB!SizesAssumption /\ OnB!HandlesAssumption /\ OnB!NoneAssumption /\ OnB!DisksAssumption
<1>1. OnB!SizesAssumption
  BY SizesAssumption DEF OnB!SizesAssumption, Drives
<1>2. OnB!HandlesAssumption
  <2>1. \A S : OnB!IsFiniteSet(S) <=> IsFiniteSet(S)
    BY DEF OnB!IsFiniteSet, IsFiniteSet
  <2> QED
    BY <2>1, FS_EmptySet DEF OnB!HandlesAssumption
<1>3. "B" \in Drives
  BY DEF Drives
<1>4. OnB!NoneAssumption
  BY <1>3, NoneAssumption DEF OnB!NoneAssumption, OnB!Table, OnB!Entry, OnB!Types, OnB!Flags, OnB!DiskEntry,
     T!Table, T!Entry, T!Types, T!Flags, T!DiskEntry
<1>5. OnB!DisksAssumption
  BY DEF OnB!DisksAssumption
<1> QED
  BY <1>1, <1>2, <1>4, <1>5

LEMMA SameNamesB ==
  ASSUME NEW d \in Drives
  PROVE  /\ \A q : OnB!FirstMovable(q) = T(d)!FirstMovable(q)
         /\ \A q, sp, size : OnB!FirstFit(q, sp, size) = T(d)!FirstFit(q, sp, size)
         /\ \A q, sp, first, last : OnB!Removed(q, sp, first, last) = T(d)!Removed(q, sp, first, last)
         /\ \A q, sp, first, last : OnB!Swept(q, sp, first, last) = T(d)!Swept(q, sp, first, last)
         /\ \A s, before : OnB!NewSlot(s, before) = T(d)!NewSlot(s, before)
         /\ \A q, sp, first, size, before :
              OnB!WithPartition(q, sp, first, size, before) = T(d)!WithPartition(q, sp, first, size, before)
<1>1. \A q : OnB!FirstMovable(q) = T(d)!FirstMovable(q)
  BY DEF OnB!FirstMovable, T!FirstMovable
<1>2. \A q, sp, size : OnB!FirstFit(q, sp, size) = T(d)!FirstFit(q, sp, size)
  BY DEF OnB!FirstFit, T!FirstFit, OnB!FreeFrom, T!FreeFrom, OnB!Closest, T!Closest, OnB!Before, T!Before,
         OnB!NoRoom, T!NoRoom
<1>3. \A q, sp, first, last : OnB!Removed(q, sp, first, last) = T(d)!Removed(q, sp, first, last)
  BY DEF OnB!Removed, T!Removed, OnB!Inside, T!Inside, OnB!StartsIn, T!StartsIn
<1>4. \A q, sp, first, last : OnB!Swept(q, sp, first, last) = T(d)!Swept(q, sp, first, last)
  <2>1. \A S : OnB!Cardinality(S) = T(d)!Cardinality(S)
    BY DEF OnB!Cardinality, T!Cardinality
  <2>2. \A K, n : OnB!Nth(K, n) = T(d)!Nth(K, n)
    BY <2>1 DEF OnB!Nth, T!Nth
  <2>3. \A q, k, gone, first, last : OnB!Trimmed(q, k, gone, first, last) = T(d)!Trimmed(q, k, gone, first, last)
    BY DEF OnB!Trimmed, T!Trimmed, OnB!Inside, T!Inside, OnB!StartsIn, T!StartsIn
  <2> TAKE q, sp, first, last
  <2> DEFINE gone == OnB!Removed(q, sp, first, last)
             kept == (sp..Len(q)) \ gone
             ta   == [n \in 1..OnB!Cardinality(kept) |-> OnB!Trimmed(q, OnB!Nth(kept, n), gone, first, last)]
             td   == [n \in 1..T(d)!Cardinality(kept) |-> T(d)!Trimmed(q, T(d)!Nth(kept, n), gone, first, last)]
  <2>4. OnB!Swept(q, sp, first, last) = SubSeq(q, 1, sp - 1) \o ta
    BY DEF OnB!Swept
  <2>5. T(d)!Swept(q, sp, first, last) = SubSeq(q, 1, sp - 1) \o td
    BY <1>3, Zenon DEF T!Swept
  <2> HIDE DEF gone, kept
  <2>6. ta = td
    BY <2>1, <2>2, <2>3
  <2> HIDE DEF ta, td
  <2> QED
    BY <2>4, <2>5, <2>6
<1>5. \A s, before : OnB!NewSlot(s, before) = T(d)!NewSlot(s, before)
  BY DEF OnB!NewSlot, T!NewSlot
<1>6. \A q, sp, first, size, before :
        OnB!WithPartition(q, sp, first, size, before) = T(d)!WithPartition(q, sp, first, size, before)
  <2>1. \A s, slot, e : OnB!Inserted(s, slot, e) = T(d)!Inserted(s, slot, e)
    BY DEF OnB!Inserted, T!Inserted
  <2> QED
    BY <1>4, <1>5, <2>1, ZenonT(40) DEF OnB!WithPartition, T!WithPartition
<1> QED
  BY <1>1, <1>2, <1>3, <1>4, <1>5, <1>6

LEMMA ValidatesB ==
  ASSUME NEW t
  PROVE  OnB!Validations(t) = T("B")!Validations(t)
<1>1. \A q : OnB!Walk(q) = T("B")!Walk(q)
  BY DEF OnB!Walk, T!Walk, OnB!Closest, T!Closest, OnB!Before, T!Before
<1>2. \A end : OnB!Filler(end) = T("B")!Filler(end)
  BY DEF OnB!Filler, T!Filler
<1> QED
  BY <1>1, <1>2, Zenon DEF OnB!Validations, T!Validations

LEMMA SameTypesB == OnB!Table = Table /\ OnB!Entry = Entry /\ \A q : OnB!Data(q) = Data(q)
BY DEF OnB!Table, Table, OnB!Entry, Entry, OnB!Types, Types, OnB!Flags, Flags, OnB!Data, Data

-----------------------------------------------------------------------------
(* One call on one drive.                                                    *)

\* A table that some drive may have: it tiles the drive if it is valid.
Good(d, t) ==
  /\ t \in Table /\ Len(t.parts) >= 1
  /\ RowOn(d, t.parts)
  /\ "VALID" \in t.flags => CoveredOn(d, t.parts)
  /\ \A k \in 1..Len(t.parts) : t.parts[k].refs >= 1

\* The entries of p, and free space behind them.
Extends(q, p) ==
  /\ Len(p) <= Len(q)
  /\ \A k \in 1..Len(p) : q[k] = p[k]
  /\ \A k \in (Len(p) + 1)..Len(q) : q[k].type = "free"

LEMMA ValidOne ==
  ASSUME NEW d \in Drives, NEW t, Good(d, t), NEW v, v = Validated(d, t)
  PROVE  /\ Good(d, v.table) /\ (v.ok => CoveredOn(d, v.table.parts))
         /\ Data(v.table.parts) = Data(t.parts)
         /\ Extends(v.table.parts, t.parts)
         /\ v.table.flags \ {"VALID"} = t.flags \ {"VALID"}
<1>1. CASE d = "A"
  <2>1. t \in OnA!Table /\ OnA!Tiled(t)
    BY <1>1, SameTypesA DEF Good, RowOn, CoveredOn, OnA!Tiled
  <2>2. \A k \in 1..Len(t.parts) : t.parts[k].refs >= 1
    BY DEF Good
  <2>3. /\ OnA!Validations(t) # {}
        /\ \A x \in OnA!Validations(t) :
             /\ x.table \in OnA!Table /\ OnA!Tiled(x.table) /\ (x.ok => OnA!Covered(x.table.parts))
             /\ \A k \in 1..Len(x.table.parts) : x.table.parts[k].refs >= 1
             /\ OnA!Data(x.table.parts) = OnA!Data(t.parts)
             /\ Len(t.parts) <= Len(x.table.parts)
             /\ \A k \in 1..Len(t.parts) : x.table.parts[k] = t.parts[k]
             /\ \A k \in (Len(t.parts) + 1)..Len(x.table.parts) : x.table.parts[k].type = "free"
             /\ x.table.flags \ {"VALID"} = t.flags \ {"VALID"}
    BY <2>1, <2>2, AssumptionsA, OnA!ValidByNumber
  <2>4. v = CHOOSE x \in OnA!Validations(t) : TRUE
    BY <1>1, ValidatesA DEF Validated
  <2>5. v \in OnA!Validations(t)
    BY <2>3, <2>4
  <2>6. v.table \in Table /\ Len(v.table.parts) \in Nat /\ Len(t.parts) \in Nat
    BY <2>3, <2>5, SameTypesA DEF Table, Good
  <2>7. Good(d, v.table) /\ (v.ok => CoveredOn(d, v.table.parts))
    BY <1>1, <2>3, <2>5, <2>6 DEF Good, RowOn, CoveredOn, OnA!Tiled
  <2> QED
    BY <2>3, <2>5, <2>7, SameTypesA DEF Extends
<1>2. CASE d = "B"
  <2>1. t \in OnB!Table /\ OnB!Tiled(t)
    BY <1>2, SameTypesB DEF Good, RowOn, CoveredOn, OnB!Tiled
  <2>2. \A k \in 1..Len(t.parts) : t.parts[k].refs >= 1
    BY DEF Good
  <2>3. /\ OnB!Validations(t) # {}
        /\ \A x \in OnB!Validations(t) :
             /\ x.table \in OnB!Table /\ OnB!Tiled(x.table) /\ (x.ok => OnB!Covered(x.table.parts))
             /\ \A k \in 1..Len(x.table.parts) : x.table.parts[k].refs >= 1
             /\ OnB!Data(x.table.parts) = OnB!Data(t.parts)
             /\ Len(t.parts) <= Len(x.table.parts)
             /\ \A k \in 1..Len(t.parts) : x.table.parts[k] = t.parts[k]
             /\ \A k \in (Len(t.parts) + 1)..Len(x.table.parts) : x.table.parts[k].type = "free"
             /\ x.table.flags \ {"VALID"} = t.flags \ {"VALID"}
    BY <2>1, <2>2, AssumptionsB, OnB!ValidByNumber
  <2>4. v = CHOOSE x \in OnB!Validations(t) : TRUE
    BY <1>2, ValidatesB DEF Validated
  <2>5. v \in OnB!Validations(t)
    BY <2>3, <2>4
  <2>6. v.table \in Table /\ Len(v.table.parts) \in Nat /\ Len(t.parts) \in Nat
    BY <2>3, <2>5, SameTypesB DEF Table, Good
  <2>7. Good(d, v.table) /\ (v.ok => CoveredOn(d, v.table.parts))
    BY <1>2, <2>3, <2>5, <2>6 DEF Good, RowOn, CoveredOn, OnB!Tiled
  <2> QED
    BY <2>3, <2>5, <2>7, SameTypesB DEF Extends
<1> QED
  BY <1>1, <1>2 DEF Drives

LEMMA AddOne ==
  ASSUME NEW d \in Drives, NEW q \in Seq(Entry), Len(q) >= 1, RowOn(d, q), CoveredOn(d, q),
         \A k \in 1..Len(q) : q[k].refs >= 1,
         NEW sp, sp = T(d)!FirstMovable(q), NEW size \in Nat \ {0},
         NEW first, first = T(d)!FirstFit(q, sp, size), first # T(d)!NoRoom,
         NEW before \in Nat, before \notin 2..(sp - 1),
         NEW n, n = T(d)!NewSlot(T(d)!Swept(q, sp, first, first + size), before),
         NEW r, r = T(d)!WithPartition(q, sp, first, size, before)
  PROVE  /\ r \in Seq(Entry) /\ RowOn(d, r) /\ CoveredOn(d, r) /\ \A k \in 1..Len(r) : r[k].refs >= 1
         /\ Data(q) \subseteq Data(r)
         /\ n \in 2..Len(r) /\ r[n].type = "data"
         /\ sp \in 2..(Len(q) + 1) /\ \A k \in sp..Len(q) : q[k].refs <= 1
         /\ \A j \in 1..(sp - 1) : j = 1 \/ q[j].type # "free" => j < n /\ r[j] = q[j]
         /\ \A o \in 2..Len(q) :
              q[o].type # "free" /\ (\A j \in T(d)!Removed(q, sp, first, first + size) : j >= o) =>
                /\ before = 0 => o < n /\ r[o] = q[o]
                /\ before = o => n = o /\ o < Len(r) /\ r[o + 1] = q[o]
<1>1. CASE d = "A"
  <2>1. q \in Seq(OnA!Entry) /\ OnA!Row(q) /\ OnA!Covered(q)
    BY <1>1, SameTypesA DEF RowOn, CoveredOn
  <2>2. /\ sp = OnA!FirstMovable(q) /\ first = OnA!FirstFit(q, sp, size) /\ first # OnA!NoRoom
        /\ n = OnA!NewSlot(OnA!Swept(q, sp, first, first + size), before)
        /\ r = OnA!WithPartition(q, sp, first, size, before)
        /\ T(d)!Removed(q, sp, first, first + size) = OnA!Removed(q, sp, first, first + size)
    BY SameNamesA DEF OnA!NoRoom, T!NoRoom
  <2>3. /\ r \in Seq(OnA!Entry) /\ OnA!Row(r) /\ OnA!Covered(r) /\ \A k \in 1..Len(r) : r[k].refs >= 1
        /\ OnA!Data(q) \subseteq OnA!Data(r)
        /\ n \in 2..Len(r) /\ r[n].type = "data"
        /\ \A j \in 1..(sp - 1) : j = 1 \/ q[j].type # "free" => j < n /\ r[j] = q[j]
        /\ \A o \in 2..Len(q) :
             q[o].type # "free" /\ (\A j \in OnA!Removed(q, sp, first, first + size) : j >= o) =>
               /\ before = 0 => o < n /\ r[o] = q[o]
               /\ before = o => n = o /\ o < Len(r) /\ r[o + 1] = q[o]
    BY <2>1, <2>2, AssumptionsA, OnA!AddByNumber, SMTT(30)
  <2>4. /\ sp \in 2..(Len(q) + 1) /\ \A k \in sp..Len(q) : q[k].refs <= 1
    BY <2>1, <2>2, AssumptionsA, OnA!FirstMovableFacts
  <2> QED
    BY <1>1, <2>2, <2>3, <2>4, SameTypesA DEF RowOn, CoveredOn
<1>2. CASE d = "B"
  <2>1. q \in Seq(OnB!Entry) /\ OnB!Row(q) /\ OnB!Covered(q)
    BY <1>2, SameTypesB DEF RowOn, CoveredOn
  <2>2. /\ sp = OnB!FirstMovable(q) /\ first = OnB!FirstFit(q, sp, size) /\ first # OnB!NoRoom
        /\ n = OnB!NewSlot(OnB!Swept(q, sp, first, first + size), before)
        /\ r = OnB!WithPartition(q, sp, first, size, before)
        /\ T(d)!Removed(q, sp, first, first + size) = OnB!Removed(q, sp, first, first + size)
    BY SameNamesB DEF OnB!NoRoom, T!NoRoom
  <2>3. /\ r \in Seq(OnB!Entry) /\ OnB!Row(r) /\ OnB!Covered(r) /\ \A k \in 1..Len(r) : r[k].refs >= 1
        /\ OnB!Data(q) \subseteq OnB!Data(r)
        /\ n \in 2..Len(r) /\ r[n].type = "data"
        /\ \A j \in 1..(sp - 1) : j = 1 \/ q[j].type # "free" => j < n /\ r[j] = q[j]
        /\ \A o \in 2..Len(q) :
             q[o].type # "free" /\ (\A j \in OnB!Removed(q, sp, first, first + size) : j >= o) =>
               /\ before = 0 => o < n /\ r[o] = q[o]
               /\ before = o => n = o /\ o < Len(r) /\ r[o + 1] = q[o]
    BY <2>1, <2>2, AssumptionsB, OnB!AddByNumber, SMTT(30)
  <2>4. /\ sp \in 2..(Len(q) + 1) /\ \A k \in sp..Len(q) : q[k].refs <= 1
    BY <2>1, <2>2, AssumptionsB, OnB!FirstMovableFacts
  <2> QED
    BY <1>2, <2>2, <2>3, <2>4, SameTypesB DEF RowOn, CoveredOn
<1> QED
  BY <1>1, <1>2 DEF Drives

\* A partition was made in t, at number n; the sure numbers are those in use.
MadeIn(d, t, r, n) ==
  /\ Good(d, r) /\ "DIRTY" \in r.flags
  /\ r.flags \ {"VALID", "DIRTY"} = t.flags \ {"VALID", "DIRTY"}
  /\ Data(t.parts) \subseteq Data(r.parts)
  /\ n \in 2..Len(r.parts) /\ r.parts[n].type = "data"
  /\ \A j \in 2..Len(t.parts) :
       t.parts[j].refs > 1 /\ t.parts[j].type # "free" =>
         j < n /\ j <= Len(r.parts) /\ r.parts[j] = t.parts[j]

LEMMA MadeTypes ==
  ASSUME NEW d, NEW t, NEW r, NEW n, MadeIn(d, t, r, n), Len(t.parts) \in Nat
  PROVE  Len(t.parts) \in Nat /\ Len(r.parts) \in Nat /\ n \in 2..Len(r.parts) /\ r.parts[n].type = "data"
<1>1. n \in 2..Len(r.parts) /\ r.parts[n].type = "data" /\ Good(d, r)
  BY DEF MadeIn
<1>2. r \in Table
  BY <1>1 DEF Good
<1> QED
  BY <1>1, <1>2 DEF Table

LEMMA AddPartFacts ==
  ASSUME NEW d \in Drives, NEW t, Good(d, t), NEW size \in Int, NEW before \in Nat, NEW other \in Nat,
         NEW a, a = AddPart(d, t, size, before, other), a.part # Failed
  PROVE  /\ MadeIn(d, t, a.table, a.part) /\ a.sure \in BOOLEAN
         /\ other \in 2..Len(t.parts) /\ t.parts[other].type # "free" /\ a.sure =>
              /\ before = 0 => other < a.part /\ a.table.parts[other] = t.parts[other]
              /\ before = other =>
                   /\ a.part = other /\ other < Len(a.table.parts)
                   /\ a.table.parts[other + 1] = t.parts[other]
<1> DEFINE v == Validated(d, t)
           q == v.table.parts
           sp == T(d)!FirstMovable(q)
           first == T(d)!FirstFit(q, sp, size)
           s == T(d)!Swept(q, sp, first, first + size)
           n == T(d)!NewSlot(s, before)
           r == T(d)!WithPartition(q, sp, first, size, before)
           u == [v.table EXCEPT !.parts = r, !.flags = @ \cup {"DIRTY"}]
           sure == \A i \in T(d)!Removed(q, sp, first, first + size) : i >= other
<1>1. /\ Good(d, v.table) /\ (v.ok => CoveredOn(d, q))
      /\ Data(q) = Data(t.parts)
      /\ Extends(q, t.parts)
      /\ v.table.flags \ {"VALID"} = t.flags \ {"VALID"}
  BY ValidOne
<1>2. a = AddValid(d, v, size, before, other)
  BY DEF AddPart
<1>3. size > 0 /\ ~T(d)!Refused(v, size, before)
      /\ a = [part |-> n, table |-> u, sure |-> sure]
  <2> DEFINE bad == [part |-> Failed, table |-> v.table, sure |-> FALSE]
  <2>1. bad.part = Failed
    OBVIOUS
  <2>2. a = IF size <= 0 \/ T(d)!Refused(v, size, before) THEN bad
            ELSE AddFrom(d, v.table, T(d)!FirstMovable(v.table.parts), size, before, other)
    BY <1>2 DEF AddValid
  <2> HIDE DEF bad, v
  <2>3. ~(size <= 0) /\ ~T(d)!Refused(v, size, before)
        /\ a = AddFrom(d, v.table, T(d)!FirstMovable(v.table.parts), size, before, other)
    BY <2>1, <2>2
  <2>4. a = AddAt(d, v.table, sp, first, size, before, other)
    BY <2>3, Zenon DEF AddFrom
  <2> QED
    BY <2>3, <2>4 DEF AddAt
<1>4. a.part = n /\ a.table = u /\ a.sure = sure
  <2> HIDE DEF n, u, sure
  <2> QED
    BY <1>3
<1>5. v.ok /\ before \notin 2..(sp - 1) /\ first # T(d)!NoRoom
  BY <1>3 DEF T!Refused
<1>6. /\ q \in Seq(Entry) /\ Len(q) >= 1 /\ RowOn(d, q) /\ CoveredOn(d, q)
      /\ \A k \in 1..Len(q) : q[k].refs >= 1
  BY <1>1, <1>5 DEF Good, Table
<1>7. size \in Nat \ {0}
  BY <1>3
<1> HIDE DEF v
<1>80. /\ T(d)!FirstMovable(q) = sp /\ T(d)!FirstFit(q, sp, size) = first
       /\ n = T(d)!NewSlot(T(d)!Swept(q, sp, first, first + size), before)
       /\ r = T(d)!WithPartition(q, sp, first, size, before)
       /\ v.table.parts = q
  OBVIOUS
<1> HIDE DEF n, r, s, sp, first, q
<1>8. /\ r \in Seq(Entry) /\ RowOn(d, r) /\ CoveredOn(d, r) /\ \A k \in 1..Len(r) : r[k].refs >= 1
      /\ Data(q) \subseteq Data(r)
      /\ n \in 2..Len(r) /\ r[n].type = "data"
      /\ sp \in 2..(Len(q) + 1) /\ \A k \in sp..Len(q) : q[k].refs <= 1
      /\ \A j \in 1..(sp - 1) : j = 1 \/ q[j].type # "free" => j < n /\ r[j] = q[j]
      /\ \A o \in 2..Len(q) :
           q[o].type # "free" /\ (\A j \in T(d)!Removed(q, sp, first, first + size) : j >= o) =>
             /\ before = 0 => o < n /\ r[o] = q[o]
             /\ before = o => n = o /\ o < Len(r) /\ r[o + 1] = q[o]
  BY <1>5, <1>6, <1>7, <1>80, AddOne, SMTT(30)
<1>9. /\ v.table \in Table /\ t \in Table
      /\ Len(q) \in Nat /\ Len(r) \in Nat /\ Len(t.parts) \in Nat
  BY <1>1, <1>6, <1>8, <1>80 DEF Good, Table
<1>10. /\ u \in Table /\ u.parts = r /\ u.flags = v.table.flags \cup {"DIRTY"}
  BY <1>8, <1>9 DEF Table, Flags
<1> HIDE DEF u, sure
<1>11. Good(d, u) /\ "DIRTY" \in u.flags
  BY <1>8, <1>9, <1>10, SMTT(30) DEF Good
<1>12. u.flags \ {"VALID", "DIRTY"} = t.flags \ {"VALID", "DIRTY"}
  BY <1>1, <1>10
<1>13. \A j \in 2..Len(t.parts) : j \in 2..Len(q) /\ q[j] = t.parts[j]
  BY <1>1, <1>9 DEF Extends
<1>14. ASSUME NEW j \in 2..Len(t.parts), t.parts[j].refs > 1, t.parts[j].type # "free"
       PROVE  j < n /\ j <= Len(r) /\ r[j] = t.parts[j]
  <2>1. q[j] = t.parts[j] /\ j \in 2..Len(q)
    BY <1>13
  <2>2. q[j] \in Entry
    BY <1>6, <2>1
  <2>5. q[j].refs \in Nat
    BY <2>2 DEF Entry
  <2>3. j \in 1..(sp - 1)
    BY <1>8, <1>9, <1>14, <2>1, <2>5, SMTT(30)
  <2> QED
    BY <1>8, <1>9, <1>14, <2>1, <2>3
<1>15. MadeIn(d, t, u, n)
  BY <1>1, <1>8, <1>10, <1>11, <1>12, <1>14 DEF MadeIn
<1>16. ASSUME other \in 2..Len(t.parts), t.parts[other].type # "free", sure
       PROVE  /\ before = 0 => other < n /\ r[other] = t.parts[other]
              /\ before = other => n = other /\ other < Len(r) /\ r[other + 1] = t.parts[other]
  BY <1>8, <1>13, <1>16 DEF sure
<1>17. sure \in BOOLEAN
  BY DEF sure
<1> QED
  BY <1>4, <1>10, <1>15, <1>16, <1>17

-----------------------------------------------------------------------------
(* A pair carved out of a drive.                                             *)

LEMMA AddPartFails ==
  ASSUME NEW d \in Drives, NEW t, NEW size \in Int, size <= 0, NEW before, NEW other
  PROVE  AddPart(d, t, size, before, other).part = Failed
BY DEF AddPart, AddValid

\* Its two partitions lie behind every one in use; with sure numbers it has both.
BothIn(p, q) ==
  /\ p.app[2] \in 2..Len(q) /\ q[p.app[2]].type = "data"
  /\ p.media[2] \in 2..Len(q) /\ q[p.media[2]].type = "data"
  /\ p.app # p.media

PairIn(d, t, r, p) ==
  /\ Good(d, r) /\ "DIRTY" \in r.flags
  /\ r.flags \ {"VALID", "DIRTY"} = t.flags \ {"VALID", "DIRTY"}
  /\ Data(t.parts) \subseteq Data(r.parts)
  /\ p \in PairType /\ p.app[1] = d /\ p.media[1] = d
  /\ p.sure => BothIn(p, r.parts)
  /\ \A j \in 2..Len(t.parts) :
       t.parts[j].refs > 1 /\ t.parts[j].type # "free" =>
         j < p.app[2] /\ j < p.media[2] /\ j <= Len(r.parts) /\ r.parts[j] = t.parts[j]

LEMMA ThenAppFacts ==
  ASSUME NEW d \in Drives, NEW t, Good(d, t), NEW used \in Int, NEW required \in Int,
         NEW m, m = AddPart(d, t, used, 0, 0), m.part # Failed,
         NEW a, a = AddPart(d, m.table, required, m.part, m.part), a.part # Failed
  PROVE  PairIn(d, t, a.table, NewPair(d, a.part, m.part + 1, a.sure))
<1> DEFINE p == NewPair(d, a.part, m.part + 1, a.sure)
<1>0. Len(t.parts) \in Nat
  BY DEF Good, Table
<1>1. MadeIn(d, t, m.table, m.part)
  BY AddPartFacts
<1>2. Good(d, m.table) /\ m.part \in 2..Len(m.table.parts) /\ Len(m.table.parts) \in Nat
      /\ m.table.parts[m.part].type = "data"
  BY <1>1 DEF MadeIn, Good, Table
<1>3. /\ MadeIn(d, m.table, a.table, a.part) /\ a.sure \in BOOLEAN
      /\ a.sure => /\ a.part = m.part /\ m.part < Len(a.table.parts)
                   /\ a.table.parts[m.part + 1] = m.table.parts[m.part]
  <2>1. m.part \in Nat /\ m.part # 0 /\ m.table.parts[m.part].type # "free"
    BY <1>2
  <2> DEFINE o == m.part
  <2>2. o \in Nat /\ a = AddPart(d, m.table, required, o, o)
    BY <2>1
  <2>3. o \in 2..Len(m.table.parts) /\ m.table.parts[o].type # "free"
    BY <1>2
  <2> HIDE DEF o
  <2>4. /\ MadeIn(d, m.table, a.table, a.part) /\ a.sure \in BOOLEAN
        /\ a.sure => /\ a.part = o /\ o < Len(a.table.parts)
                     /\ a.table.parts[o + 1] = m.table.parts[o]
    BY <1>2, <2>2, <2>3, AddPartFacts, SMTT(30)
  <2> QED
    BY <2>4 DEF o
<1>4. Len(t.parts) \in Nat /\ Len(a.table.parts) \in Nat /\ a.part \in 2..Len(a.table.parts)
      /\ a.table.parts[a.part].type = "data"
  BY <1>3, <1>0, MadeTypes
<1>5. /\ p.app = <<d, a.part>> /\ p.media = <<d, m.part + 1>> /\ p.sure = a.sure
      /\ p.app[1] = d /\ p.app[2] = a.part /\ p.media[1] = d /\ p.media[2] = m.part + 1
      /\ p \in PairType
  BY <1>2, <1>3, <1>4 DEF NewPair, PairType, Part
<1> HIDE DEF p
<1>6. ASSUME p.sure PROVE BothIn(p, a.table.parts)
  <2>1. a.part = m.part /\ m.part < Len(a.table.parts)
        /\ a.table.parts[m.part + 1] = m.table.parts[m.part]
    BY <1>3, <1>5, <1>6
  <2>2. m.part + 1 \in 2..Len(a.table.parts) /\ a.table.parts[m.part + 1].type = "data"
    <3>1. m.part \in Nat /\ m.part >= 2 /\ Len(a.table.parts) \in Nat
      BY <1>2, <1>4
    <3>2. m.part + 1 \in 2..Len(a.table.parts)
      BY <2>1, <3>1
    <3> QED
      BY <1>2, <2>1, <3>2
  <2>3. a.part # m.part + 1
    BY <1>2, <2>1
  <2>4. p.app # p.media
    BY <1>5, <2>3
  <2> QED
    BY <1>4, <1>5, <2>2, <2>4 DEF BothIn
<1>7. ASSUME NEW j \in 2..Len(t.parts), t.parts[j].refs > 1, t.parts[j].type # "free"
      PROVE  j < p.app[2] /\ j < p.media[2] /\ j <= Len(a.table.parts) /\ a.table.parts[j] = t.parts[j]
  <2>1. j < m.part /\ j <= Len(m.table.parts) /\ m.table.parts[j] = t.parts[j]
    BY <1>1, <1>7 DEF MadeIn
  <2>2. j \in 2..Len(m.table.parts)
    BY <1>2, <2>1
  <2>3. j < a.part /\ j <= Len(a.table.parts) /\ a.table.parts[j] = m.table.parts[j]
    BY <1>3, <1>7, <2>1, <2>2, SMTT(30) DEF MadeIn
  <2> QED
    BY <1>2, <1>5, <2>1, <2>3
<1>8. Data(t.parts) \subseteq Data(a.table.parts) /\ "DIRTY" \in a.table.flags /\ Good(d, a.table)
      /\ a.table.flags \ {"VALID", "DIRTY"} = t.flags \ {"VALID", "DIRTY"}
  BY <1>1, <1>3 DEF MadeIn
<1>9. PairIn(d, t, a.table, p)
  BY <1>5, <1>6, <1>7, <1>8 DEF PairIn
<1> QED
  BY <1>9 DEF p

LEMMA ThenMediaFacts ==
  ASSUME NEW d \in Drives, NEW t, Good(d, t), NEW used \in Int, NEW required \in Int,
         NEW a, a = AddPart(d, t, required, 0, 0), a.part # Failed,
         NEW m, m = AddPart(d, a.table, used, 0, a.part), m.part # Failed
  PROVE  PairIn(d, t, m.table, NewPair(d, a.part, m.part, m.sure))
<1> DEFINE p == NewPair(d, a.part, m.part, m.sure)
<1>0. Len(t.parts) \in Nat
  BY DEF Good, Table
<1>1. MadeIn(d, t, a.table, a.part)
  BY AddPartFacts
<1>2. Good(d, a.table) /\ a.part \in 2..Len(a.table.parts) /\ Len(a.table.parts) \in Nat
      /\ a.table.parts[a.part].type = "data"
  BY <1>1 DEF MadeIn, Good, Table
<1>3. /\ MadeIn(d, a.table, m.table, m.part) /\ m.sure \in BOOLEAN
      /\ m.sure => a.part < m.part /\ m.table.parts[a.part] = a.table.parts[a.part]
  BY <1>2, AddPartFacts
<1>4. Len(t.parts) \in Nat /\ Len(m.table.parts) \in Nat /\ m.part \in 2..Len(m.table.parts)
      /\ m.table.parts[m.part].type = "data"
  BY <1>3, <1>0, MadeTypes
<1>5. /\ p.app = <<d, a.part>> /\ p.media = <<d, m.part>> /\ p.sure = m.sure
      /\ p.app[1] = d /\ p.app[2] = a.part /\ p.media[1] = d /\ p.media[2] = m.part
      /\ p \in PairType
  BY <1>2, <1>3, <1>4 DEF NewPair, PairType, Part
<1> HIDE DEF p
<1>6. p.sure => BothIn(p, m.table.parts)
  BY <1>2, <1>3, <1>4, <1>5, SMTT(30) DEF BothIn
<1>7. ASSUME NEW j \in 2..Len(t.parts), t.parts[j].refs > 1, t.parts[j].type # "free"
      PROVE  j < p.app[2] /\ j < p.media[2] /\ j <= Len(m.table.parts) /\ m.table.parts[j] = t.parts[j]
  <2>1. j < a.part /\ j <= Len(a.table.parts) /\ a.table.parts[j] = t.parts[j]
    BY <1>1, <1>7 DEF MadeIn
  <2>2. j \in 2..Len(a.table.parts)
    BY <1>2, <2>1
  <2>3. j < m.part /\ j <= Len(m.table.parts) /\ m.table.parts[j] = a.table.parts[j]
    BY <1>3, <1>7, <2>1, <2>2 DEF MadeIn
  <2> QED
    BY <1>2, <1>5, <2>1, <2>3
<1>8. Data(t.parts) \subseteq Data(m.table.parts) /\ "DIRTY" \in m.table.flags /\ Good(d, m.table)
      /\ m.table.flags \ {"VALID", "DIRTY"} = t.flags \ {"VALID", "DIRTY"}
  BY <1>1, <1>3 DEF MadeIn
<1>9. PairIn(d, t, m.table, p)
  BY <1>5, <1>6, <1>7, <1>8 DEF PairIn
<1> QED
  BY <1>9 DEF p

\* What a run has decided is s with one table and one pair more.
Decision(s) == s = [ok |-> s.ok, mem |-> s.mem, pairs |-> s.pairs]
WithPair(s, d, c, r, p) ==
  /\ Decision(c) /\ c.mem = [s.mem EXCEPT ![d] = r] /\ c.pairs = Append(s.pairs, p)
  /\ PairIn(d, s.mem[d], r, p)

LEMMA NotFailed ==
  ASSUME NEW i, NEW j
  PROVE  /\ i \in 2..16 => i # Failed
         /\ j + 1 \in 2..16 => j # Failed
BY DEF Failed

LEMMA CarvePairFacts ==
  ASSUME NEW d \in Drives, NEW s, Good(d, s.mem[d]), NEW used \in Int,
         NEW required, used > 0 => required \in Int, NEW rest, NEW max,
         NEW c, c = CarvePair(s, d, rest, max, used, required), c.ok
  PROVE  \E r, p : WithPair(s, d, c, r, p)
<1> DEFINE t == s.mem[d]
<1>1. CASE rest >= required /\ max - used < required
  <2> DEFINE m == AddPart(d, t, used, 0, 0)
             a == AddPart(d, m.table, required, m.part, m.part)
  <2>1. c = Made(s, d, a, a.part, m.part + 1)
    BY <1>1, Zenon DEF CarvePair, ThenApp
  <2> HIDE DEF m, a
  <2>2. /\ a.part \in 2..16 /\ m.part + 1 \in 2..16
        /\ Decision(c) /\ c.mem = [s.mem EXCEPT ![d] = a.table]
        /\ c.pairs = Append(s.pairs, NewPair(d, a.part, m.part + 1, a.sure))
    <3> DEFINE b == a.part \in 2..16 /\ m.part + 1 \in 2..16
               mem1 == [s.mem EXCEPT ![d] = a.table]
               pairs1 == Append(s.pairs, NewPair(d, a.part, m.part + 1, a.sure))
    <3>1. c = [ok |-> b, mem |-> mem1, pairs |-> pairs1]
      BY <2>1 DEF Made
    <3> HIDE DEF b, mem1, pairs1
    <3>2. b
      BY <3>1
    <3>3. Decision(c) /\ c.mem = mem1 /\ c.pairs = pairs1
      BY <3>1 DEF Decision
    <3> QED
      BY <3>2, <3>3 DEF b, mem1, pairs1
  <2>3. a.part # Failed /\ m.part # Failed
    BY <2>2, NotFailed
  <2>4. used > 0
    BY <2>3, AddPartFails DEF m
  <2>5. PairIn(d, t, a.table, NewPair(d, a.part, m.part + 1, a.sure))
    BY <2>3, <2>4, ThenAppFacts DEF m, a
  <2> QED
    BY <2>2, <2>5 DEF WithPair
<1>2. CASE ~(rest >= required /\ max - used < required)
  <2> DEFINE a == AddPart(d, t, required, 0, 0)
             m == AddPart(d, a.table, used, 0, a.part)
  <2>1. c = Made(s, d, m, a.part, m.part)
    BY <1>2, Zenon DEF CarvePair, ThenMedia
  <2> HIDE DEF m, a
  <2>2. /\ a.part \in 2..16 /\ m.part \in 2..16
        /\ Decision(c) /\ c.mem = [s.mem EXCEPT ![d] = m.table]
        /\ c.pairs = Append(s.pairs, NewPair(d, a.part, m.part, m.sure))
    <3> DEFINE b == a.part \in 2..16 /\ m.part \in 2..16
               mem1 == [s.mem EXCEPT ![d] = m.table]
               pairs1 == Append(s.pairs, NewPair(d, a.part, m.part, m.sure))
    <3>1. c = [ok |-> b, mem |-> mem1, pairs |-> pairs1]
      BY <2>1 DEF Made
    <3> HIDE DEF b, mem1, pairs1
    <3>2. b
      BY <3>1
    <3>3. Decision(c) /\ c.mem = mem1 /\ c.pairs = pairs1
      BY <3>1 DEF Decision
    <3> QED
      BY <3>2, <3>3 DEF b, mem1, pairs1
  <2>3. a.part # Failed /\ m.part # Failed
    BY <2>2, NotFailed
  <2>4. used > 0
    BY <2>3, AddPartFails DEF m
  <2>5. PairIn(d, t, m.table, NewPair(d, a.part, m.part, m.sure))
    BY <2>3, <2>4, ThenMediaFacts DEF m, a
  <2> QED
    BY <2>2, <2>5 DEF WithPair
<1> QED
  BY <1>1, <1>2

LEMMA SizeFacts ==
  ASSUME NEW d \in Drives, NEW max \in 0..DevSize[d], NEW total
  PROVE  /\ MediaSize(total, max) \in Int
         /\ MediaSize(total, max) > 0 => AppSize(MediaSize(total, max)) \in Int
<1>1. /\ MinAlloc \in Nat \ {0} /\ Round \in Nat \ {0} /\ DevSize[d] \in Nat
      /\ \A n \in 0..DevSize[d] : MapLen[n] \in Nat
  BY SizesAssumption
<1>2. ASSUME NEW x \in Int, x <= max
      PROVE  AllocBlocks(x) \in Int /\ AllocBlocks(x) <= max
  BY <1>1, <1>2 DEF AllocBlocks
<1>3. ASSUME NEW media \in Nat, media <= max
      PROVE  AppSize(media) \in Nat
  <2>1. media \div MinAlloc \in 0..DevSize[d]
    BY <1>1, <1>3
  <2> DEFINE n == 2 + 2 * MapLen[media \div MinAlloc]
  <2>2. n \in Nat
    BY <1>1, <2>1
  <2> HIDE DEF n
  <2>3. ((n + Round - 1) \div Round) \in Nat
    BY <1>1, <2>2
  <2>4. ((n + Round - 1) \div Round) * Round \in Nat
    BY <1>1, <2>3
  <2> QED
    BY <2>4 DEF AppSize, n
<1> DEFINE whole == AllocBlocks(max)
           app == AppSize(whole)
<1>4. whole \in Nat /\ whole <= max
  BY <1>1 DEF AllocBlocks
<1>5. app \in Nat
  BY <1>3, <1>4
<1> HIDE DEF whole, app
<1>6. max - app \in Int /\ max - app <= max
  BY <1>5
<1>7. AllocBlocks(max - app) \in Int /\ AllocBlocks(max - app) <= max
  BY <1>2, <1>6
<1>8. MediaSize(total, max) \in Int /\ MediaSize(total, max) <= max
  <2>1. MediaSize(total, max) = IF total - max < app /\ max - whole < app THEN AllocBlocks(max - app) ELSE whole
    BY DEF MediaSize, whole, app
  <2> QED
    BY <1>4, <1>7, <2>1
<1>9. ASSUME MediaSize(total, max) > 0
      PROVE  AppSize(MediaSize(total, max)) \in Int
  <2>1. MediaSize(total, max) \in Nat
    BY <1>8, <1>9
  <2> QED
    BY <1>3, <1>8, <2>1
<1> QED
  BY <1>8, <1>9

LEMMA CoveredEnds ==
  ASSUME NEW d \in Drives, NEW q, CoveredOn(d, q), NEW i \in 1..Len(q)
  PROVE  q[i].start + q[i].sectors <= DevSize[d]
<1>1. CASE d = "A"
  BY <1>1 DEF CoveredOn, OnA!Covered, OnA!EndOf
<1>2. CASE d = "B"
  BY <1>2 DEF CoveredOn, OnB!Covered, OnB!EndOf
<1> QED
  BY <1>1, <1>2 DEF Drives

LEMMA GreatestFree ==
  ASSUME NEW m \in Nat, NEW S, \A x \in S : x \in Nat /\ x <= m, S # {}
  PROVE  Max(S) \in S
<1>1. \E x \in S : \A y \in S : y <= x
  BY AssumptionsA, OnA!GreatestNat
<1>2. PICK x \in S : \A y \in S : y <= x
  BY <1>1
<1>3. \A y \in S : x >= y
  BY <1>2
<1> QED
  BY <1>2, <1>3 DEF Max

LEMMA LargestFreeFits ==
  ASSUME NEW d \in Drives, NEW v, Good(d, v.table), v.ok => CoveredOn(d, v.table.parts)
  PROVE  LargestFree(v) \in 0..DevSize[d]
<1> DEFINE q     == v.table.parts
           first == {i \in FreeSlots(q) : \A j \in FreeSlots(q) : q[j].start + q[j].sectors # q[i].start}
           S     == {0} \cup {q[i].sectors : i \in first}
<1>1. DevSize[d] \in Nat
  BY SizesAssumption
<1>2. CASE HasRoom(v)
  <2>1. q \in Seq(Entry) /\ CoveredOn(d, q)
    BY <1>2 DEF HasRoom, Good, Table
  <2>2. ASSUME NEW i \in 1..Len(q)
        PROVE  q[i].sectors \in Nat /\ q[i].sectors <= DevSize[d]
    <3>1. q[i] \in Entry
      BY <2>1
    <3>2. q[i].start \in Nat /\ q[i].sectors \in Nat
      BY <3>1 DEF Entry
    <3>3. q[i].start + q[i].sectors <= DevSize[d]
      BY <2>1, CoveredEnds
    <3> QED
      BY <1>1, <3>2, <3>3
  <2>3. \A x \in S : x \in Nat /\ x <= DevSize[d]
    BY <1>1, <2>2 DEF FreeSlots
  <2>4. LargestFree(v) = Max(S)
    BY <1>2 DEF LargestFree
  <2> HIDE DEF S
  <2>5. S # {}
    BY DEF S
  <2>6. Max(S) \in S
    BY <1>1, <2>3, <2>5, GreatestFree
  <2> QED
    BY <1>1, <2>3, <2>4, <2>6
<1>3. CASE ~HasRoom(v)
  BY <1>1, <1>3 DEF LargestFree
<1> QED
  BY <1>2, <1>3

LEMMA CarveFacts ==
  ASSUME NEW d \in Drives, NEW s, Good(d, s.mem[d]), NEW total, NEW max \in 0..DevSize[d],
         NEW c, c = Carve(s, d, total, max), c.ok
  PROVE  \E r, p : WithPair(s, d, c, r, p)
<1>1. c = CarvePair(s, d, total - max, max, MediaSize(total, max), AppSize(MediaSize(total, max)))
  BY DEF Carve, CarveSize
<1>2. /\ MediaSize(total, max) \in Int
      /\ MediaSize(total, max) > 0 => AppSize(MediaSize(total, max)) \in Int
  BY SizeFacts
<1> DEFINE used == MediaSize(total, max)
           required == AppSize(used)
           rest == total - max
<1>3. c = CarvePair(s, d, rest, max, used, required)
  BY <1>1
<1>4. used \in Int /\ (used > 0 => required \in Int)
  BY <1>2
<1> HIDE DEF used, required, rest
<1> QED
  BY <1>3, <1>4, CarvePairFacts

\* As validation leaves t.
Stretched(d, t, r) ==
  /\ Good(d, r)
  /\ Data(r.parts) = Data(t.parts)
  /\ Extends(r.parts, t.parts)
  /\ r.flags \ {"VALID"} = t.flags \ {"VALID"}

LEMMA StretchedPair ==
  ASSUME NEW d, NEW t, Good(d, t), NEW v, Stretched(d, t, v), NEW r, NEW p, PairIn(d, v, r, p)
  PROVE  PairIn(d, t, r, p)
<1>1. Len(t.parts) \in Nat /\ Len(v.parts) \in Nat
  BY DEF Stretched, Good, Table
<1>2. r.flags \ {"VALID", "DIRTY"} = t.flags \ {"VALID", "DIRTY"}
  BY DEF PairIn, Stretched
<1>3. Data(t.parts) \subseteq Data(r.parts)
  BY DEF PairIn, Stretched
<1>4. ASSUME NEW j \in 2..Len(t.parts), t.parts[j].refs > 1, t.parts[j].type # "free"
      PROVE  j < p.app[2] /\ j < p.media[2] /\ j <= Len(r.parts) /\ r.parts[j] = t.parts[j]
  <2>1. j \in 2..Len(v.parts) /\ v.parts[j] = t.parts[j]
    BY <1>1 DEF Stretched, Extends
  <2> QED
    BY <1>4, <2>1 DEF PairIn
<1> QED
  BY <1>2, <1>3, <1>4 DEF PairIn

\* Extending the set on one drive: its table is only stretched, or has a pair more.
LEMMA ExtendFacts ==
  ASSUME NEW d \in Drives, NEW s, Good(d, s.mem[d]), s.mem \in [Drives -> Table \cup {NoTable}],
         s.ok, Decision(s), NEW c, c = Extend(s, d), c.ok
  PROVE  \/ \E r : /\ Decision(c) /\ c.mem = [s.mem EXCEPT ![d] = r] /\ c.pairs = s.pairs
                   /\ Stretched(d, s.mem[d], r)
         \/ \E r, p : WithPair(s, d, c, r, p)
<1> DEFINE v == Validated(d, s.mem[d])
           w == v.table
           t == [s EXCEPT !.mem[d] = w]
<1>1. Stretched(d, s.mem[d], w) /\ (v.ok => CoveredOn(d, w.parts))
  BY ValidOne DEF Stretched
<1>2. c = IF LargestFree(v) < MinFree THEN t ELSE Carve(t, d, TotalFree(v), LargestFree(v))
  BY DEF Extend, ExtendValid
<1> HIDE DEF w
<1>3. Decision(t) /\ t.mem = [s.mem EXCEPT ![d] = w] /\ t.pairs = s.pairs
  BY DEF Decision
<1>4. t.mem[d] = w
  BY <1>3
<1> HIDE DEF t, v
<1>5. CASE LargestFree(v) < MinFree
  BY <1>1, <1>2, <1>3, <1>5
<1>6. CASE ~(LargestFree(v) < MinFree)
  <2>1. LargestFree(v) \in 0..DevSize[d]
    BY <1>1, LargestFreeFits DEF Stretched, w
  <2>2. Good(d, t.mem[d])
    BY <1>1, <1>4 DEF Stretched
  <2>3. c = Carve(t, d, TotalFree(v), LargestFree(v))
    BY <1>2, <1>6
  <2>4. PICK r, p : WithPair(t, d, c, r, p)
    BY <2>1, <2>2, <2>3, CarveFacts
  <2>5. PairIn(d, s.mem[d], r, p)
    BY <1>1, <1>4, <2>4, StretchedPair DEF WithPair
  <2>6. [t.mem EXCEPT ![d] = r] = [s.mem EXCEPT ![d] = r]
    BY <1>3
  <2>7. WithPair(s, d, c, r, p)
    BY <1>3, <2>4, <2>5, <2>6 DEF WithPair
  <2> QED
    BY <2>7
<1> QED
  BY <1>5, <1>6

-----------------------------------------------------------------------------
(* The set extended on the drives of E, one after another: from the tables   *)
(* tb, and pairs h made by hand.                                             *)

Reached(h, tb, s, E) ==
  /\ Decision(s) /\ s.mem \in [Drives -> Table \cup {NoTable}] /\ s.pairs \in Seq(PairType)
  /\ Len(h) <= Len(s.pairs) /\ \A k \in 1..Len(h) : s.pairs[k] = h[k]
  /\ \A d \in Drives \ E : s.mem[d] = tb[d]
  /\ \A d \in E : \/ Stretched(d, tb[d], s.mem[d])
                  \/ \E k \in (Len(h) + 1)..Len(s.pairs) : PairIn(d, tb[d], s.mem[d], s.pairs[k])
  /\ \A k \in (Len(h) + 1)..Len(s.pairs) :
       /\ s.pairs[k].app[1] \in E
       /\ PairIn(s.pairs[k].app[1], tb[s.pairs[k].app[1]], s.mem[s.pairs[k].app[1]], s.pairs[k])
  /\ \A k, l \in (Len(h) + 1)..Len(s.pairs) : k # l => s.pairs[k].app[1] # s.pairs[l].app[1]

LEMMA ReachedStep ==
  ASSUME NEW h, h \in Seq(PairType), NEW tb, NEW E \in SUBSET Drives, NEW s, Reached(h, tb, s, E), s.ok,
         NEW d \in Drives \ E, Good(d, tb[d]), NEW c, c = Extend(s, d), c.ok
  PROVE  Reached(h, tb, c, E \cup {d})
<1>1. /\ Decision(s) /\ s.mem \in [Drives -> Table \cup {NoTable}] /\ s.pairs \in Seq(PairType)
      /\ Len(h) <= Len(s.pairs) /\ \A k \in 1..Len(h) : s.pairs[k] = h[k]
      /\ s.mem[d] = tb[d]
      /\ Len(h) \in Nat /\ Len(s.pairs) \in Nat
  BY DEF Reached
<1>2. CASE \E r : /\ Decision(c) /\ c.mem = [s.mem EXCEPT ![d] = r] /\ c.pairs = s.pairs
                  /\ Stretched(d, s.mem[d], r)
  <2>1. PICK r : /\ Decision(c) /\ c.mem = [s.mem EXCEPT ![d] = r] /\ c.pairs = s.pairs
                 /\ Stretched(d, s.mem[d], r)
    BY <1>2
  <2>2. r \in Table
    BY <2>1 DEF Stretched, Good
  <2>3. /\ c.mem \in [Drives -> Table \cup {NoTable}] /\ c.mem[d] = r
        /\ \A e \in Drives : e # d => c.mem[e] = s.mem[e]
    BY <1>1, <2>1, <2>2
  <2>4. \A e \in E \cup {d} : \/ Stretched(e, tb[e], c.mem[e])
                              \/ \E k \in (Len(h) + 1)..Len(c.pairs) : PairIn(e, tb[e], c.mem[e], c.pairs[k])
    BY <1>1, <2>1, <2>3 DEF Reached
  <2>5. \A k \in (Len(h) + 1)..Len(c.pairs) :
          /\ c.pairs[k].app[1] \in E \cup {d}
          /\ PairIn(c.pairs[k].app[1], tb[c.pairs[k].app[1]], c.mem[c.pairs[k].app[1]], c.pairs[k])
    BY <2>1, <2>3 DEF Reached
  <2>6. \A e \in Drives \ (E \cup {d}) : c.mem[e] = tb[e]
    BY <2>3 DEF Reached
  <2> QED
    BY <1>1, <2>1, <2>3, <2>4, <2>5, <2>6 DEF Reached
<1>3. CASE \E r, p : WithPair(s, d, c, r, p)
  <2>1. PICK r, p : /\ Decision(c) /\ c.mem = [s.mem EXCEPT ![d] = r] /\ c.pairs = Append(s.pairs, p)
                    /\ PairIn(d, s.mem[d], r, p)
    BY <1>3 DEF WithPair
  <2>2. r \in Table /\ p \in PairType /\ p.app[1] = d
    BY <2>1 DEF PairIn, Good
  <2>3. /\ c.mem \in [Drives -> Table \cup {NoTable}] /\ c.mem[d] = r
        /\ \A e \in Drives : e # d => c.mem[e] = s.mem[e]
    BY <1>1, <2>1, <2>2
  <2>4. /\ c.pairs \in Seq(PairType) /\ Len(c.pairs) = Len(s.pairs) + 1 /\ c.pairs[Len(s.pairs) + 1] = p
        /\ \A k \in 1..Len(s.pairs) : c.pairs[k] = s.pairs[k]
    BY <1>1, <2>1, <2>2
  <2>5. \A k \in 1..Len(h) : c.pairs[k] = h[k]
    BY <1>1, <2>4
  <2>6. ASSUME NEW e \in E \cup {d}
        PROVE  \/ Stretched(e, tb[e], c.mem[e])
               \/ \E k \in (Len(h) + 1)..Len(c.pairs) : PairIn(e, tb[e], c.mem[e], c.pairs[k])
    <3>1. CASE e = d
      <4>1. PairIn(d, tb[d], c.mem[d], c.pairs[Len(s.pairs) + 1])
        BY <1>1, <2>1, <2>3, <2>4
      <4>2. Len(s.pairs) + 1 \in (Len(h) + 1)..Len(c.pairs)
        BY <1>1, <2>4
      <4> QED
        BY <3>1, <4>1, <4>2
    <3>2. CASE e # d
      <4>1. c.mem[e] = s.mem[e] /\ e \in E
        BY <2>3, <2>6, <3>2
      <4>2. CASE Stretched(e, tb[e], s.mem[e])
        BY <4>1, <4>2
      <4>3. CASE \E k \in (Len(h) + 1)..Len(s.pairs) : PairIn(e, tb[e], s.mem[e], s.pairs[k])
        <5>1. PICK k \in (Len(h) + 1)..Len(s.pairs) : PairIn(e, tb[e], s.mem[e], s.pairs[k])
          BY <4>3
        <5>2. k \in (Len(h) + 1)..Len(c.pairs) /\ c.pairs[k] = s.pairs[k]
          BY <1>1, <2>4
        <5> QED
          BY <4>1, <5>1, <5>2
      <4> QED
        BY <4>1, <4>2, <4>3 DEF Reached
    <3> QED
      BY <3>1, <3>2
  <2>7. ASSUME NEW k \in (Len(h) + 1)..Len(c.pairs)
        PROVE  /\ c.pairs[k].app[1] \in E \cup {d}
               /\ PairIn(c.pairs[k].app[1], tb[c.pairs[k].app[1]], c.mem[c.pairs[k].app[1]], c.pairs[k])
    <3>1. CASE k = Len(s.pairs) + 1
      BY <1>1, <2>1, <2>2, <2>3, <2>4, <3>1
    <3>2. CASE k # Len(s.pairs) + 1
      <4>1. k \in (Len(h) + 1)..Len(s.pairs) /\ c.pairs[k] = s.pairs[k]
        BY <1>1, <2>4, <3>2
      <4>2. s.pairs[k].app[1] \in E
            /\ PairIn(s.pairs[k].app[1], tb[s.pairs[k].app[1]], s.mem[s.pairs[k].app[1]], s.pairs[k])
        BY <4>1 DEF Reached
      <4>3. c.mem[s.pairs[k].app[1]] = s.mem[s.pairs[k].app[1]]
        BY <2>3, <4>2
      <4> QED
        BY <4>1, <4>2, <4>3
    <3> QED
      BY <3>1, <3>2
  <2>8. ASSUME NEW k \in (Len(h) + 1)..Len(c.pairs), NEW l \in (Len(h) + 1)..Len(c.pairs), k # l
        PROVE  c.pairs[k].app[1] # c.pairs[l].app[1]
    <3>1. \A j \in (Len(h) + 1)..Len(s.pairs) : c.pairs[j] = s.pairs[j] /\ s.pairs[j].app[1] \in E
      BY <1>1, <2>4 DEF Reached
    <3>2. CASE k = Len(s.pairs) + 1
      <4>1. l \in (Len(h) + 1)..Len(s.pairs)
        BY <1>1, <2>4, <2>8, <3>2
      <4> QED
        BY <2>2, <2>4, <3>1, <3>2, <4>1
    <3>3. CASE l = Len(s.pairs) + 1
      <4>1. k \in (Len(h) + 1)..Len(s.pairs)
        BY <1>1, <2>4, <2>8, <3>3
      <4> QED
        BY <2>2, <2>4, <3>1, <3>3, <4>1
    <3>4. CASE k # Len(s.pairs) + 1 /\ l # Len(s.pairs) + 1
      <4>1. k \in (Len(h) + 1)..Len(s.pairs) /\ l \in (Len(h) + 1)..Len(s.pairs)
        BY <1>1, <2>4, <3>4
      <4> QED
        BY <2>8, <3>1, <4>1, SMTT(30) DEF Reached
    <3> QED
      BY <3>2, <3>3, <3>4
  <2>9. \A e \in Drives \ (E \cup {d}) : c.mem[e] = tb[e]
    BY <2>3 DEF Reached
  <2>10. Len(h) <= Len(c.pairs)
    BY <1>1, <2>4
  <2> QED
    BY <2>1, <2>3, <2>4, <2>5, <2>6, <2>7, <2>8, <2>9, <2>10 DEF Reached
<1>4. Good(d, s.mem[d])
  BY <1>1
<1> QED
  BY <1>1, <1>2, <1>3, <1>4, ExtendFacts

LEMMA ExtendedReached ==
  ASSUME NEW h, h \in Seq(PairType), NEW tb, tb \in [Drives -> Table \cup {NoTable}],
         NEW ds \in Seq(Drives), IsInjective(ds), \A d \in ToSet(ds) : Good(d, tb[d]),
         NEW s, Decision(s), s.ok, s.mem = tb, s.pairs = h,
         NEW c, c = Extended(s, ds), c.ok
  PROVE  Reached(h, tb, c, ToSet(ds))
<1>1. /\ Len(ds) \in Nat /\ \A i \in 1..Len(ds) : ds[i] \in Drives /\ ds[i] \in ToSet(ds)
      /\ \A i, j \in 1..Len(ds) : ds[i] = ds[j] => i = j
  BY DEF IsInjective, ToSet
<1>2. Len(ds) <= 2
  <2> SUFFICES ASSUME Len(ds) >= 3 PROVE FALSE
    BY <1>1
  <2>1. 1 \in 1..Len(ds) /\ 2 \in 1..Len(ds) /\ 3 \in 1..Len(ds)
    BY <1>1
  <2>2. ds[1] # ds[2] /\ ds[2] # ds[3] /\ ds[1] # ds[3]
    BY <1>1, <2>1
  <2> QED
    BY <1>1, <2>1, <2>2 DEF Drives
<1>3. Reached(h, tb, s, {})
  BY DEF Reached
<1> DEFINE e == ExtendNth(s, ds, 1)
           E1 == {ds[i] : i \in {i \in 1..Len(ds) : i <= 1}}
<1>4. c = ExtendNth(e, ds, 2)
  BY DEF Extended
<1>5. e.ok
  <2> HIDE DEF e
  <2>1. CASE e.ok
    BY <2>1
  <2>2. CASE ~e.ok
    <3>1. c = e
      BY <1>4, <2>2 DEF ExtendNth, Extend
    <3> QED
      BY <2>2, <3>1
  <2> QED
    BY <2>1, <2>2
<1>6. Reached(h, tb, e, E1)
  <2>1. CASE Len(ds) >= 1
    <3>1. E1 = {ds[1]} /\ ds[1] \in Drives /\ ds[1] \in ToSet(ds)
      BY <1>1, <2>1
    <3>2. e = Extend(s, ds[1])
      BY <1>1, <2>1 DEF ExtendNth
    <3>3. {} \in SUBSET Drives /\ ds[1] \in Drives \ {} /\ Good(ds[1], tb[ds[1]])
      BY <3>1
    <3> HIDE DEF e, E1
    <3>4. Reached(h, tb, e, {} \cup {ds[1]})
      BY <1>3, <1>5, <3>2, <3>3, ReachedStep
    <3> QED
      BY <3>1, <3>4
  <2>2. CASE Len(ds) < 1
    <3>1. E1 = {}
      BY <1>1, <2>2
    <3>2. e = s
      BY <1>1, <2>2 DEF ExtendNth
    <3> QED
      BY <1>3, <3>1, <3>2
  <2> QED
    BY <1>1, <2>1, <2>2
<1> HIDE DEF e
<1>7. CASE Len(ds) = 2
  <2>1. ToSet(ds) = E1 \cup {ds[2]}
    BY <1>1, <1>7 DEF ToSet
  <2>2. ds[2] \in Drives \ E1 /\ E1 \in SUBSET Drives /\ ds[2] \in ToSet(ds)
    BY <1>1, <1>7
  <2>3. c = Extend(e, ds[2])
    BY <1>4, <1>7 DEF ExtendNth
  <2> HIDE DEF E1
  <2> QED
    BY <1>5, <1>6, <2>1, <2>2, <2>3, ReachedStep
<1>8. CASE Len(ds) # 2
  <2> DEFINE n == Len(ds)
  <2>1. n \in Nat /\ n <= 2 /\ n # 2
    BY <1>1, <1>2, <1>8
  <2>2. DOMAIN ds = 1..n
    OBVIOUS
  <2> HIDE DEF n
  <2>3. n < 2 /\ {i \in 1..n : i <= 1} = 1..n
    BY <2>1
  <2>4. ToSet(ds) = E1
    BY <2>2, <2>3 DEF ToSet, n
  <2>5. c = e
    BY <1>4, <2>1, <2>3 DEF ExtendNth, n
  <2> QED
    BY <1>6, <2>4, <2>5
<1> QED
  BY <1>7, <1>8

-----------------------------------------------------------------------------
(* The invariant.                                                            *)

Clean(t)     == t.flags \cap {"DIRTY", "NONINIT"} = {}
Reachable(t) == "NONINIT" \in t.flags => "DIRTY" \in t.flags

\* What is on drive d is what t says.
Agrees(d, t) ==
  /\ Len(disk[d]) <= Len(t.parts)
  /\ \A k \in 1..Len(disk[d]) : /\ t.parts[k].start = disk[d][k].start
                                /\ t.parts[k].sectors = disk[d][k].sectors
                                /\ t.parts[k].type = disk[d][k].type
  /\ \A k \in (Len(disk[d]) + 1)..Len(t.parts) : t.parts[k].type = "free"

SureOn(d) == {n \in 1..Len(list) : list[n].sure /\ list[n].part[1] = d}

\* The volumes whose numbers are sure are where they were; and they are in use.
Holds(d, t) ==
  \A n \in SureOn(d) : /\ list[n].part[2] \in 2..Len(t.parts)
                       /\ t.parts[list[n].part[2]].start = list[n].start
                       /\ t.parts[list[n].part[2]].sectors = list[n].sectors
                       /\ t.parts[list[n].part[2]].type = "data"
Pins(d, t) == \A n \in SureOn(d) : t.parts[list[n].part[2]].refs > 1

\* A table that was changed is still to be written.
ToWrite(d) ==
  \/ stage = "tables" /\ d \in dirty
  \/ stage = "table" /\ todo # <<>> /\ d = todo[1].app[1]

TableInv(d, t) ==
  /\ Good(d, t)
  /\ Clean(t) => Agrees(d, t)
  /\ Holds(d, t)
  /\ "DIRTY" \in t.flags => ToWrite(d) /\ (UsedBy(d) # {} => Data(disk[d]) \subseteq Data(t.parts))

\* The number of a partition to be added leads, in table t, to one made for it.
FoundIn(t, q) ==
  /\ t # NoTable
  /\ Reachable(t) => q[2] \in 2..Len(t.parts) /\ t.parts[q[2]].type = "data"
  /\ \A n \in 1..Len(list) : list[n].sure => list[n].part # q
Found(q) == FoundIn(mem[q[1]], q)

TodoInv ==
  /\ \A k \in 1..Len(todo) : todo[k].sure =>
       Found(todo[k].app) /\ Found(todo[k].media) /\ todo[k].app # todo[k].media
  /\ \A k, l \in 1..Len(todo) : todo[k].sure /\ todo[l].sure /\ k # l =>
       {todo[k].app, todo[k].media} \cap {todo[l].app, todo[l].media} = {}

\* The drives that are still to be expanded.
Left ==
  IF stage = "expand" THEN dirty
  ELSE IF stage \in {"table", "volume"} THEN dirty \ {todo[1].app[1]}
  ELSE {}

StageInv ==
  /\ stage = "idle" => todo = <<>> /\ \A d \in Drives : mem[d] = NoTable
  /\ stage = "tables" => \A d \in dirty : mem[d] # NoTable
  /\ stage = "expand" => todo = <<>>
  /\ stage \in {"table", "volume"} =>
       Len(todo) = 1 /\ todo[1].app[1] = todo[1].media[1] /\ mem[todo[1].app[1]] # NoTable
  /\ stage = "table" => "DIRTY" \in mem[todo[1].app[1]].flags
  /\ \A d \in Left : mem[d] # NoTable /\ Clean(mem[d]) /\ Pins(d, mem[d])

MInv ==
  /\ VolumesSound
  /\ disk["A"] # <<>> /\ \A d \in Drives : RowOn(d, disk[d])
  /\ mem \in [Drives -> Table \cup {NoTable}]
  /\ \A d \in Drives : mem[d] # NoTable => TableInv(d, mem[d])
  /\ TodoInv
  /\ StageInv

-----------------------------------------------------------------------------
(* What a run finds, and the tables it starts from.                          *)

LEMMA MinOfTwo ==
  ASSUME NEW a \in Int, NEW b \in Int
  PROVE  Min({a, b}) \in {a, b} /\ Min({a, b}) <= a /\ Min({a, b}) <= b
<1>1. \E x \in {a, b} : \A y \in {a, b} : x <= y
  OBVIOUS
<1> QED
  BY <1>1 DEF Min

LEMMA AppendNew ==
  ASSUME NEW q \in Seq(Drives), IsInjective(q), NEW d \in Drives, d \notin ToSet(q)
  PROVE  /\ q \o <<d>> \in Seq(Drives) /\ IsInjective(q \o <<d>>)
         /\ ToSet(q \o <<d>>) = ToSet(q) \cup {d}
<1> DEFINE r == q \o <<d>>
           n == Len(q)
<1>1. /\ n \in Nat /\ r \in Seq(Drives) /\ Len(r) = n + 1 /\ r[n + 1] = d /\ \A i \in 1..n : r[i] = q[i]
      /\ DOMAIN q = 1..n /\ DOMAIN r = 1..(n + 1)
  OBVIOUS
<1>2. \A i, j \in 1..n : q[i] = q[j] => i = j
  BY <1>1 DEF IsInjective
<1>3. \A i \in 1..n : q[i] # d
  BY <1>1 DEF ToSet
<1> HIDE DEF r, n
<1>4. \A i \in 1..(n + 1) : i = n + 1 \/ i \in 1..n
  BY <1>1
<1>5. IsInjective(r)
  BY <1>1, <1>2, <1>3, <1>4 DEF IsInjective
<1>6. ToSet(r) = ToSet(q) \cup {d}
  <2>1. ASSUME NEW x \in ToSet(r) PROVE x \in ToSet(q) \cup {d}
    BY <1>1, <1>4, <2>1 DEF ToSet
  <2>2. ASSUME NEW x \in ToSet(q) \cup {d} PROVE x \in ToSet(r)
    <3>1. n + 1 \in 1..(n + 1) /\ \A i \in 1..n : i \in 1..(n + 1)
      BY <1>1
    <3> QED
      BY <1>1, <2>2, <3>1 DEF ToSet
  <2> QED
    BY <2>1, <2>2
<1> QED
  BY <1>1, <1>5, <1>6 DEF r

LEMMA AlsoFacts ==
  ASSUME NEW q \in Seq(Drives), IsInjective(q), NEW d \in Drives, NEW a, a \in {<<>>, <<d>>},
         a = <<d>> => d \notin ToSet(q)
  PROVE  /\ q \o a \in Seq(Drives) /\ IsInjective(q \o a)
         /\ ToSet(q) \subseteq ToSet(q \o a) /\ ToSet(q \o a) \subseteq ToSet(q) \cup {d}
<1>1. CASE a = <<>>
  <2>1. q \o a = q
    BY <1>1
  <2> QED
    BY <2>1
<1>2. CASE a = <<d>>
  BY <1>2, AppendNew
<1> QED
  BY <1>1, <1>2

\* As a run has it that has changed nothing: of a set that is sound.
Base(d, t) ==
  /\ Good(d, t)
  /\ "DIRTY" \notin t.flags
  /\ Clean(t) => Agrees(d, t)
  /\ Holds(d, t) /\ Pins(d, t)
  /\ UsedBy(d) # {} => Data(disk[d]) = Data(t.parts)

Sound == VolumesSound /\ disk["A"] # <<>> /\ \A d \in Drives : RowOn(d, disk[d])

LEMMA SamePlacesRow ==
  ASSUME NEW d \in Drives, NEW q, NEW r, RowOn(d, q), Len(q) = Len(r),
         \A i \in 1..Len(q) : q[i].start = r[i].start /\ q[i].sectors = r[i].sectors /\ q[i].type = r[i].type
  PROVE  RowOn(d, r)
<1>1. CASE d = "A"
  <2>1. OnA!SamePlaces(q, r)
    BY DEF OnA!SamePlaces
  <2> QED
    BY <1>1, <2>1, AssumptionsA, OnA!SameRow DEF RowOn
<1>2. CASE d = "B"
  <2>1. OnB!SamePlaces(q, r)
    BY DEF OnB!SamePlaces
  <2> QED
    BY <1>2, <2>1, AssumptionsB, OnB!SameRow DEF RowOn
<1> QED
  BY <1>1, <1>2 DEF Drives

LEMMA SameData ==
  ASSUME NEW q, NEW r, Len(q) = Len(r),
         \A i \in 1..Len(q) : q[i].start = r[i].start /\ q[i].sectors = r[i].sectors /\ q[i].type = r[i].type
  PROVE  Data(q) = Data(r)
<1>1. {k \in 1..Len(q) : q[k].type # "free"} = {k \in 1..Len(r) : r[k].type # "free"}
  OBVIOUS
<1> QED
  BY <1>1 DEF Data

LEMMA ToExtendFacts ==
  ASSUME NEW o \in Options, IsInjective(o.xs)
  PROVE  /\ ToExtend(o) \in Seq(Drives) /\ IsInjective(ToExtend(o))
         /\ "B" \in ToSet(ToExtend(o)) => WithB(o)
<1>1. o.xs \in Seq(Drives)
  BY OptionsAssumption
<1>2. "A" \in Drives /\ "B" \in Drives
  BY DEF Drives
<1> DEFINE a == AlsoExtend(o, "A")
           b == IF WithB(o) THEN AlsoExtend(o, "B") ELSE <<>>
           q == o.xs \o a
<1>3. a \in {<<>>, <<"A">>} /\ (a = <<"A">> => "A" \notin ToSet(o.xs))
  BY DEF AlsoExtend
<1>4. /\ q \in Seq(Drives) /\ IsInjective(q) /\ ToSet(q) \subseteq ToSet(o.xs) \cup {"A"}
  BY <1>1, <1>2, <1>3, AlsoFacts
<1>5. b \in {<<>>, <<"B">>} /\ (b = <<"B">> => "B" \notin ToSet(o.xs) /\ WithB(o))
  BY DEF AlsoExtend
<1>6. ToExtend(o) = q \o b
  <2> HIDE DEF a, b
  <2>1. <<>> \in Seq(Drives) /\ <<"A">> \in Seq(Drives) /\ <<"B">> \in Seq(Drives)
    BY <1>2
  <2>3. a \in Seq(Drives) /\ b \in Seq(Drives)
    BY <1>3, <1>5, <2>1
  <2>2. ToExtend(o) = o.xs \o AlsoExtend(o, "A") \o b
    BY DEF ToExtend, a, b
  <2>4. o.xs \o a \o b = (o.xs \o a) \o b
    OBVIOUS
  <2> QED
    BY <2>2 DEF a, b, q
<1> HIDE DEF a, b, q
<1>7. b = <<"B">> => "B" \notin ToSet(q)
  BY <1>4, <1>5
<1>8. /\ q \o b \in Seq(Drives) /\ IsInjective(q \o b) /\ ToSet(q \o b) \subseteq ToSet(q) \cup {"B"}
  BY <1>2, <1>4, <1>5, <1>7, AlsoFacts
<1>9. ASSUME "B" \in ToSet(q \o b) PROVE WithB(o)
  <2>1. CASE b = <<"B">>
    BY <1>5, <2>1
  <2>2. CASE b = <<>>
    <3>1. q \o b = q
      BY <1>4, <2>2
    <3>2. "B" \in ToSet(o.xs)
      BY <1>4, <1>9, <3>1
    <3> QED
      BY <3>2 DEF WithB
  <2> QED
    BY <1>5, <2>1, <2>2
<1> QED
  BY <1>6, <1>8, <1>9


\* The volumes that are partition k of drive d.
InUse(d, k) == Cardinality({n \in 1..Len(list) : list[n].part = <<d, k>>})

LEMMA InUseFacts ==
  ASSUME list \in Seq(Volume), NEW d, NEW k
  PROVE  /\ InUse(d, k) \in Nat
         /\ \A n \in 1..Len(list) : list[n].part = <<d, k>> => InUse(d, k) >= 1
<1> DEFINE at == {n \in 1..Len(list) : list[n].part = <<d, k>>}
<1>1. Len(list) \in Nat
  OBVIOUS
<1>2. IsFiniteSet(1..Len(list)) /\ at \subseteq 1..Len(list)
  BY <1>1, FS_Interval
<1>3. IsFiniteSet(at) /\ Cardinality(at) \in Nat
  BY <1>2, FS_Subset, FS_CardinalityType
<1>4. ASSUME NEW n \in 1..Len(list), list[n].part = <<d, k>>
      PROVE  Cardinality(at) # 0
  <2>1. n \in at
    BY <1>4
  <2> HIDE DEF at
  <2> QED
    BY <1>3, <2>1, FS_EmptySet
<1>5. InUse(d, k) = Cardinality(at)
  BY DEF InUse
<1> HIDE DEF at
<1> QED
  BY <1>3, <1>4, <1>5

LEMMA LoadedFacts ==
  ASSUME list \in Seq(Volume), NEW d \in Drives, disk[d] \in Seq(Stored), disk[d] # <<>>,
         NEW t, t = Loaded(d)
  PROVE  /\ t \in Table /\ t.flags = {} /\ Len(t.parts) = Len(disk[d])
         /\ \A k \in 1..Len(disk[d]) : /\ t.parts[k].start = disk[d][k].start
                                       /\ t.parts[k].sectors = disk[d][k].sectors
                                       /\ t.parts[k].type = disk[d][k].type
                                       /\ t.parts[k].refs = 1 + InUse(d, k)
<1> DEFINE e(k) == [start |-> disk[d][k].start, sectors |-> disk[d][k].sectors,
                    type |-> disk[d][k].type, refs |-> 1 + InUse(d, k)]
           parts == [k \in 1..Len(disk[d]) |-> e(k)]
           refs  == Cardinality({n \in 1..Len(list) : list[n].part[1] = d})
<1>1. t = [parts |-> parts, refs |-> refs, flags |-> {}]
  BY DEF Loaded, InUse
<1>2. refs \in Nat
  <2>1. IsFiniteSet(1..Len(list)) /\ {n \in 1..Len(list) : list[n].part[1] = d} \subseteq 1..Len(list)
    BY FS_Interval
  <2> QED
    BY <2>1, FS_Subset, FS_CardinalityType
<1>3. ASSUME NEW k \in 1..Len(disk[d]) PROVE e(k) \in Entry
  <2>1. disk[d][k] \in Stored
    BY <1>3
  <2>2. InUse(d, k) \in Nat
    BY InUseFacts
  <2>3. 1 + InUse(d, k) \in Nat
    BY <2>2
  <2> QED
    BY <2>1, <2>3 DEF Stored, Entry
<1>4. \A k \in 1..Len(disk[d]) : /\ e(k).start = disk[d][k].start
                                 /\ e(k).sectors = disk[d][k].sectors
                                 /\ e(k).type = disk[d][k].type
                                 /\ e(k).refs = 1 + InUse(d, k)
  OBVIOUS
<1>5. \A k \in 1..Len(disk[d]) : parts[k] = e(k)
  OBVIOUS
<1>6. parts \in Seq(Entry) /\ Len(parts) = Len(disk[d])
  <2> HIDE DEF e
  <2>1. Len(disk[d]) \in Nat
    OBVIOUS
  <2> QED
    BY <1>3, <2>1
<1> HIDE DEF parts, refs, e
<1>7. t.parts = parts /\ t.flags = {} /\ t \in Table
  BY <1>1, <1>2, <1>6 DEF Table
<1> QED
  BY <1>4, <1>5, <1>6, <1>7

LEMMA LoadedBase ==
  ASSUME Sound, NEW d \in Drives, disk[d] # <<>>, NEW t, t = Loaded(d)
  PROVE  t.flags = {} /\ Base(d, t)
<1>1. /\ disk[d] \in Seq(Stored) /\ Len(disk[d]) \in Nat /\ Len(disk[d]) >= 1
      /\ list \in Seq(Volume) /\ Len(list) \in Nat /\ Stay(list, disk) /\ Sure(list, disk)
      /\ RowOn(d, disk[d])
  BY DEF Sound, VolumesSound, TypeOK
<1>2. /\ t \in Table /\ t.flags = {} /\ Len(t.parts) = Len(disk[d])
      /\ \A k \in 1..Len(disk[d]) : /\ t.parts[k].start = disk[d][k].start
                                    /\ t.parts[k].sectors = disk[d][k].sectors
                                    /\ t.parts[k].type = disk[d][k].type
                                    /\ t.parts[k].refs = 1 + InUse(d, k)
  BY <1>1, LoadedFacts
<1>3. \A k : InUse(d, k) \in Nat /\ \A n \in 1..Len(list) : list[n].part = <<d, k>> => InUse(d, k) >= 1
  BY <1>1, InUseFacts
<1>4. RowOn(d, t.parts)
  BY <1>1, <1>2, SamePlacesRow
<1>5. \A k \in 1..Len(t.parts) : t.parts[k].refs >= 1
  BY <1>2, <1>3
<1>6. Good(d, t)
  BY <1>1, <1>2, <1>4, <1>5 DEF Good
<1>7. Agrees(d, t)
  BY <1>1, <1>2 DEF Agrees
<1>8. ASSUME NEW n \in SureOn(d)
      PROVE  /\ list[n].part[2] \in 2..Len(t.parts)
             /\ t.parts[list[n].part[2]].start = list[n].start
             /\ t.parts[list[n].part[2]].sectors = list[n].sectors
             /\ t.parts[list[n].part[2]].type = "data"
             /\ t.parts[list[n].part[2]].refs > 1
  <2>1. n \in 1..Len(list) /\ list[n].sure /\ list[n].part[1] = d
    BY DEF SureOn
  <2>2. list[n].part \in Part
    <3>1. list[n] \in Volume
      BY <1>1, <2>1
    <3> QED
      BY <3>1 DEF Volume
  <2>3. list[n].part = <<d, list[n].part[2]>>
    BY <2>1, <2>2 DEF Part
  <2> DEFINE k == list[n].part[2]
  <2>4. k \in 2..Len(disk[d]) /\ disk[d][k].start = list[n].start /\ disk[d][k].sectors = list[n].sectors
    BY <1>1, <2>1 DEF Stay
  <2>5. disk[d][k].type = "data"
    BY <1>1, <2>1 DEF Sure
  <2>6. InUse(d, k) \in Nat /\ InUse(d, k) >= 1
    BY <1>3, <2>1, <2>3
  <2> HIDE DEF k
  <2>7. k \in 2..Len(t.parts) /\ k \in 1..Len(disk[d])
    BY <1>1, <1>2, <2>4
  <2>8. t.parts[k].refs > 1
    BY <1>2, <2>6, <2>7
  <2> QED
    BY <1>2, <2>4, <2>5, <2>7, <2>8 DEF k
<1>9. Holds(d, t) /\ Pins(d, t)
  BY <1>8 DEF Holds, Pins
<1>10. Data(disk[d]) = Data(t.parts)
  BY <1>2, SameData
<1>11. "DIRTY" \notin t.flags
  BY <1>2
<1> QED
  BY <1>2, <1>6, <1>7, <1>9, <1>10, <1>11 DEF Base

LEMMA SameTables == \A d \in Drives : T(d)!Table = Table
BY DEF T!Table, Table, T!Entry, Entry, T!Types, Types, T!Flags, Flags

LEMMA NoTableApart == NoTable \notin Table
<1>1. "A" \in Drives
  BY DEF Drives
<1> QED
  BY <1>1, SameTables, NoneAssumption

LEMMA UsedByFacts ==
  ASSUME list \in Seq(Volume)
  PROVE  /\ \A n \in 1..Len(list) : /\ list[n].part \in UsedBy(list[n].part[1])
                                    /\ list[n].part[1] \in Drives /\ list[n].part[2] \in Nat
                                    /\ list[n].part = <<list[n].part[1], list[n].part[2]>>
         /\ \A d : UsedBy(d) = {} => SureOn(d) = {}
         /\ \A d : \A p \in UsedBy(d) : \E n \in 1..Len(list) : list[n].part = p /\ p[1] = d
<1>1. Len(list) \in Nat /\ \A n \in 1..Len(list) : list[n] \in Volume
  OBVIOUS
<1>2. ToSet(InSet(list)) = {list[n].part : n \in 1..Len(list)}
  BY <1>1 DEF ToSet, InSet
<1>3. ASSUME NEW n \in 1..Len(list)
      PROVE  /\ list[n].part[1] \in Drives /\ list[n].part[2] \in Nat
             /\ list[n].part = <<list[n].part[1], list[n].part[2]>>
  <2>1. list[n].part \in Part
    BY <1>1 DEF Volume
  <2> QED
    BY <2>1 DEF Part
<1>4. \A n \in 1..Len(list) : list[n].part \in UsedBy(list[n].part[1])
  BY <1>2 DEF UsedBy
<1>5. \A d : \A p \in UsedBy(d) : \E n \in 1..Len(list) : list[n].part = p /\ p[1] = d
  BY <1>2 DEF UsedBy
<1>6. \A d : UsedBy(d) = {} => SureOn(d) = {}
  BY <1>4 DEF SureOn
<1> QED
  BY <1>3, <1>4, <1>5, <1>6

LEMMA EmptyBase ==
  ASSUME list \in Seq(Volume), NEW d \in Drives, UsedBy(d) = {}, NEW t, t = EmptyTable
  PROVE  Base(d, t)
<1> DEFINE e == [start |-> 1, sectors |-> Allocated, type |-> "map", refs |-> 1]
<1>1. <<e>> \in Seq(Entry) /\ RowOn(d, <<e>>)
  <2>1. CASE d = "A"
    BY <2>1, AssumptionsA, OnA!MapRow, SameTypesA DEF RowOn
  <2>2. CASE d = "B"
    BY <2>2, AssumptionsB, OnB!MapRow, SameTypesB DEF RowOn
  <2> QED
    BY <2>1, <2>2 DEF Drives
<1>2. t.parts = <<e>> /\ t.flags = {"NONINIT"} /\ e.refs = 1
  BY DEF EmptyTable
<1>3. t \in Table
  BY <1>1, <1>2 DEF EmptyTable, Table, Flags
<1> HIDE DEF e
<1>4. Len(t.parts) = 1 /\ \A k \in 1..Len(t.parts) : t.parts[k].refs >= 1
  BY <1>2
<1>5. Good(d, t)
  BY <1>1, <1>2, <1>3, <1>4 DEF Good
<1>6. SureOn(d) = {}
  BY UsedByFacts
<1>7. Holds(d, t) /\ Pins(d, t)
  BY <1>6 DEF Holds, Pins
<1>8. ~Clean(t) /\ "DIRTY" \notin t.flags
  BY <1>2 DEF Clean
<1> QED
  BY <1>5, <1>7, <1>8 DEF Base

LEMMA TablesFacts ==
  ASSUME Sound, NEW o, SetOpens(o), NEW d \in Drives, NEW t, t = Tables(o)[d]
  PROVE  /\ t = NoTable \/ Base(d, t)
         /\ t = NoTable => UsedBy(d) = {}
         /\ d = "A" \/ WithB(o) => t # NoTable
<1>1. list \in Seq(Volume) /\ disk["A"] # <<>> /\ Len(disk[d]) \in Nat
  BY DEF Sound, VolumesSound, TypeOK
<1>2. t = IF d = "B" /\ NewB(o) THEN EmptyTable
          ELSE IF d = "B" /\ ~WithB(o) THEN NoTable ELSE Loaded(d)
  BY DEF Tables
<1>3. ASSUME NEW p \in UsedBy(d)
      PROVE  disk[d] # <<>> /\ (d = "B" => WithB(o))
  <2>1. PICK n \in 1..Len(list) : list[n].part = p /\ p[1] = d
    BY <1>1, UsedByFacts
  <2>2. list[n].part[1] = d /\ list[n].part[2] \in Nat
    BY <1>1, <2>1, UsedByFacts
  <2>3. (d = "B" => WithB(o)) /\ list[n].part[2] \in 2..Min({16, Len(disk[d])})
    BY <2>2 DEF SetOpens
  <2>4. Min({16, Len(disk[d])}) \in Int /\ Min({16, Len(disk[d])}) <= Len(disk[d])
    <3> DEFINE size == Len(disk[d])
    <3>1. 16 \in Int /\ size \in Int
      BY <1>1
    <3> HIDE DEF size
    <3>2. Min({16, size}) \in {16, size} /\ Min({16, size}) <= size
      BY <3>1, MinOfTwo
    <3>3. Min({16, size}) \in Int
      BY <3>1, <3>2
    <3> QED
      BY <3>2, <3>3 DEF size
  <2>5. Len(disk[d]) >= 2
    BY <1>1, <2>2, <2>3, <2>4
  <2> QED
    BY <2>3, <2>5
<1>4. CASE d = "B" /\ NewB(o)
  <2>1. UsedBy(d) = {} /\ t = EmptyTable
    BY <1>2, <1>4 DEF NewB
  <2>2. Base(d, t)
    BY <1>1, <2>1, EmptyBase
  <2>3. t # NoTable
    BY <2>2, NoTableApart DEF Base, Good
  <2> QED
    BY <2>1, <2>2, <2>3
<1>5. CASE ~(d = "B" /\ NewB(o)) /\ d = "B" /\ ~WithB(o)
  BY <1>2, <1>3, <1>5
<1>6. CASE ~(d = "B" /\ NewB(o)) /\ ~(d = "B" /\ ~WithB(o))
  <2>1. t = Loaded(d)
    BY <1>2, <1>6
  <2>2. disk[d] # <<>>
    <3>1. CASE d = "A"
      BY <1>1, <3>1
    <3>2. CASE d # "A"
      <4>1. d = "B"
        BY <3>2 DEF Drives
      <4>2. UsedBy(d) # {}
        BY <1>6, <4>1 DEF NewB
      <4> QED
        BY <1>3, <4>2
    <3> QED
      BY <3>1, <3>2
  <2>3. Base(d, t)
    BY <2>1, <2>2, LoadedBase
  <2>4. t # NoTable
    BY <2>3, NoTableApart DEF Base, Good
  <2> QED
    BY <2>3, <2>4
<1> QED
  BY <1>4, <1>5, <1>6

\* A table in memory that was not changed, or only stretched.
Unchanged(d, t) ==
  /\ Good(d, t) /\ "DIRTY" \notin t.flags
  /\ Clean(t) => Agrees(d, t)
  /\ Holds(d, t)

LEMMA StretchedBase ==
  ASSUME list \in Seq(Volume), NEW d \in Drives, disk[d] \in Seq(Stored),
         NEW t, Base(d, t), NEW r, Stretched(d, t, r)
  PROVE  Unchanged(d, r) /\ Pins(d, r) /\ (Clean(t) => Clean(r))
<1>1. /\ Len(t.parts) \in Nat /\ Len(r.parts) \in Nat /\ Len(disk[d]) \in Nat
  BY DEF Base, Stretched, Good, Table
<1>2. /\ Len(t.parts) <= Len(r.parts)
      /\ \A k \in 1..Len(t.parts) : r.parts[k] = t.parts[k]
      /\ \A k \in (Len(t.parts) + 1)..Len(r.parts) : r.parts[k].type = "free"
  BY DEF Stretched, Extends
<1>3. ASSUME NEW n \in SureOn(d)
      PROVE  /\ list[n].part[2] \in 2..Len(r.parts)
             /\ r.parts[list[n].part[2]].start = list[n].start
             /\ r.parts[list[n].part[2]].sectors = list[n].sectors
             /\ r.parts[list[n].part[2]].type = "data"
             /\ r.parts[list[n].part[2]].refs > 1
  <2>1. /\ list[n].part[2] \in 2..Len(t.parts)
        /\ t.parts[list[n].part[2]].start = list[n].start
        /\ t.parts[list[n].part[2]].sectors = list[n].sectors
        /\ t.parts[list[n].part[2]].type = "data"
        /\ t.parts[list[n].part[2]].refs > 1
    BY DEF Base, Holds, Pins
  <2>2. list[n].part[2] \in 1..Len(t.parts) /\ list[n].part[2] \in 2..Len(r.parts)
    BY <1>1, <1>2, <2>1
  <2>3. r.parts[list[n].part[2]] = t.parts[list[n].part[2]]
    BY <1>2, <2>2
  <2> QED
    BY <2>1, <2>2, <2>3
<1>4. Holds(d, r) /\ Pins(d, r)
  BY <1>3 DEF Holds, Pins
<1>5. r.flags \ {"VALID"} = t.flags \ {"VALID"}
  BY DEF Stretched
<1>6. (Clean(r) <=> Clean(t)) /\ "DIRTY" \notin r.flags
  <2>1. "DIRTY" \notin t.flags
    BY DEF Base
  <2> QED
    BY <1>5, <2>1 DEF Clean
<1>7. ASSUME Agrees(d, t) PROVE Agrees(d, r)
  <2>1. Len(disk[d]) <= Len(r.parts)
    BY <1>1, <1>2, <1>7 DEF Agrees
  <2>2. ASSUME NEW k \in 1..Len(disk[d])
        PROVE /\ r.parts[k].start = disk[d][k].start
              /\ r.parts[k].sectors = disk[d][k].sectors
              /\ r.parts[k].type = disk[d][k].type
    <3>1. k \in 1..Len(t.parts)
      BY <1>1, <1>7 DEF Agrees
    <3> QED
      BY <1>2, <1>7, <3>1 DEF Agrees
  <2>3. ASSUME NEW k \in (Len(disk[d]) + 1)..Len(r.parts)
        PROVE  r.parts[k].type = "free"
    <3>1. CASE k \in (Len(disk[d]) + 1)..Len(t.parts)
      <4>1. k \in 1..Len(t.parts)
        BY <1>1, <3>1
      <4>2. t.parts[k].type = "free"
        BY <1>7, <3>1 DEF Agrees
      <4> QED
        BY <1>2, <4>1, <4>2
    <3>2. CASE k \in (Len(t.parts) + 1)..Len(r.parts)
      BY <1>2, <3>2
    <3> QED
      BY <1>1, <3>1, <3>2
  <2> QED
    BY <2>1, <2>2, <2>3 DEF Agrees
<1>8. Clean(t) => Agrees(d, t)
  BY DEF Base
<1> QED
  BY <1>4, <1>6, <1>7, <1>8 DEF Unchanged, Stretched

\* A pair was made in a table of a run.
LEMMA PairBase ==
  ASSUME list \in Seq(Volume), NEW d \in Drives,
         NEW t, Base(d, t), NEW r, NEW p, PairIn(d, t, r, p)
  PROVE  /\ Good(d, r) /\ "DIRTY" \in r.flags /\ Holds(d, r)
         /\ UsedBy(d) # {} => Data(disk[d]) \subseteq Data(r.parts)
         /\ p.sure => FoundIn(r, p.app) /\ FoundIn(r, p.media) /\ p.app # p.media
<1>1. /\ Good(d, r) /\ "DIRTY" \in r.flags /\ Data(t.parts) \subseteq Data(r.parts)
      /\ p \in PairType /\ p.app[1] = d /\ p.media[1] = d
      /\ p.sure => BothIn(p, r.parts)
      /\ Len(r.parts) \in Nat /\ Len(t.parts) \in Nat
  BY DEF PairIn, Base, Good, Table
<1>2. ASSUME NEW n \in SureOn(d)
      PROVE  /\ list[n].part[2] \in 2..Len(r.parts)
             /\ r.parts[list[n].part[2]] = t.parts[list[n].part[2]]
             /\ list[n].part[2] < p.app[2] /\ list[n].part[2] < p.media[2]
  <2>1. /\ list[n].part[2] \in 2..Len(t.parts)
        /\ t.parts[list[n].part[2]].type = "data"
        /\ t.parts[list[n].part[2]].refs > 1
    BY DEF Base, Holds, Pins
  <2> DEFINE j == list[n].part[2]
  <2>2. j \in 2..Len(t.parts) /\ t.parts[j].refs > 1 /\ t.parts[j].type # "free"
    BY <2>1
  <2> HIDE DEF j
  <2>3. j < p.app[2] /\ j < p.media[2] /\ j <= Len(r.parts) /\ r.parts[j] = t.parts[j]
    BY <2>2 DEF PairIn
  <2>4. j \in 2..Len(r.parts)
    BY <1>1, <2>2, <2>3
  <2> QED
    BY <2>3, <2>4 DEF j
<1>3. Holds(d, r)
  BY <1>2 DEF Base, Holds
<1>4. UsedBy(d) # {} => Data(disk[d]) \subseteq Data(r.parts)
  BY <1>1 DEF Base
<1>5. ASSUME NEW n \in 1..Len(list), list[n].sure
      PROVE  list[n].part # p.app /\ list[n].part # p.media
  <2>1. CASE list[n].part[1] = d
    <3>1. n \in SureOn(d) /\ list[n].part[2] \in Nat
      BY <1>5, <2>1, UsedByFacts DEF SureOn
    <3>2. list[n].part[2] < p.app[2] /\ list[n].part[2] < p.media[2]
      BY <1>2, <3>1
    <3>3. p.app[2] \in Nat /\ p.media[2] \in Nat
      BY <1>1 DEF PairType, Part
    <3>4. list[n].part[2] # p.app[2] /\ list[n].part[2] # p.media[2]
      BY <3>1, <3>2, <3>3
    <3> QED
      BY <3>4
  <2>2. CASE list[n].part[1] # d
    BY <1>1, <2>2
  <2> QED
    BY <2>1, <2>2
<1>6. r # NoTable
  BY <1>1, NoTableApart DEF Good
<1>7. ASSUME p.sure
      PROVE  FoundIn(r, p.app) /\ FoundIn(r, p.media) /\ p.app # p.media
  <2>1. BothIn(p, r.parts)
    BY <1>1, <1>7
  <2>2. \A n \in 1..Len(list) : list[n].sure => list[n].part # p.app /\ list[n].part # p.media
    BY <1>5
  <2> QED
    BY <1>6, <2>1, <2>2 DEF BothIn, FoundIn
<1> QED
  BY <1>1, <1>3, <1>4, <1>7

\* A pair made by hand of partitions the table of a run has.
LEMMA EligibleFound ==
  ASSUME Sound, NEW p \in Part, Eligible(p), NEW t, Base(p[1], t)
  PROVE  FoundIn(t, p)
<1> DEFINE d == p[1]
           k == p[2]
<1>1. d \in Drives /\ k \in Nat
  BY DEF Part
<1>2. list \in Seq(Volume) /\ disk[d] \in Seq(Stored) /\ Len(disk[d]) \in Nat
  BY <1>1 DEF Sound, VolumesSound, TypeOK
<1>3. p \notin UsedBy(d) /\ k \in 2..Min({16, Len(disk[d])}) /\ disk[d][k].type = "data"
  BY DEF Eligible
<1>4. Good(d, t) /\ "DIRTY" \notin t.flags /\ (Clean(t) => Agrees(d, t))
  BY DEF Base
<1> HIDE DEF d, k
<1>5. k \in 2..Len(disk[d])
  <2> DEFINE n == Len(disk[d])
  <2>1. 16 \in Int /\ n \in Int /\ n \in Nat
    BY <1>2
  <2>2. k \in 2..Min({16, n})
    BY <1>3
  <2> HIDE DEF n
  <2>3. Min({16, n}) \in {16, n} /\ Min({16, n}) <= n
    BY <2>1, MinOfTwo
  <2>4. Min({16, n}) \in Int
    BY <2>1, <2>3
  <2> QED
    BY <1>1, <2>1, <2>2, <2>3, <2>4 DEF n
<1>6. ASSUME Reachable(t) PROVE k \in 2..Len(t.parts) /\ t.parts[k].type = "data"
  <2>1. Clean(t)
    BY <1>4, <1>6 DEF Reachable, Clean
  <2>2. Agrees(d, t) /\ Len(t.parts) \in Nat
    BY <1>4, <2>1 DEF Good, Table
  <2>3. k \in 1..Len(disk[d])
    BY <1>2, <1>5
  <2> QED
    BY <1>2, <1>3, <1>5, <2>2, <2>3 DEF Agrees
<1>7. \A n \in 1..Len(list) : list[n].part # p
  BY <1>2, <1>3, UsedByFacts DEF d
<1>8. t # NoTable
  BY <1>4, NoTableApart DEF Good
<1> QED
  BY <1>6, <1>7, <1>8 DEF FoundIn, k

\* The pairs of the command line.
LEMMA ByHandFacts ==
  ASSUME NEW o \in Options, Accepted(o), NEW h, h = ByHand(o)
  PROVE  /\ h \in Seq(PairType) /\ Len(h) \in Nat
         /\ \A k \in 1..Len(h) :
              /\ Eligible(h[k].app) /\ Eligible(h[k].media) /\ h[k].app # h[k].media
              /\ h[k].app[1] = "B" \/ h[k].media[1] = "B" => WithB(o)
              /\ h[k].sure => h[k].app[1] \notin ToSet(ToExtend(o)) /\ h[k].media[1] \notin ToSet(ToExtend(o))
         /\ \A k, l \in 1..Len(h) : k # l => {h[k].app, h[k].media} \cap {h[l].app, h[l].media} = {}
<1> DEFINE q == o.pairs
           E == ToSet(ToExtend(o))
           n == Len(q) \div 2
           apart(k) == {q[2 * k - 1][1], q[2 * k][1]} \cap E = {}
           pair(k) == [app |-> q[2 * k - 1], media |-> q[2 * k], own |-> FALSE, sure |-> apart(k)]
<1>1. h = [k \in 1..n |-> pair(k)]
  BY DEF ByHand
<1>2. \A k : /\ pair(k).app = q[2 * k - 1] /\ pair(k).media = q[2 * k]
             /\ pair(k) = [app |-> q[2 * k - 1], media |-> q[2 * k], own |-> FALSE, sure |-> apart(k)]
  <2> HIDE DEF apart
  <2> QED
    OBVIOUS
<1>3. \A k : apart(k) \in BOOLEAN /\ (apart(k) => q[2 * k - 1][1] \notin E /\ q[2 * k][1] \notin E)
  OBVIOUS
<1>4. \A k : pair(k).sure = apart(k)
  <2> HIDE DEF apart
  <2> QED
    OBVIOUS
<1> HIDE DEF pair, apart
<1>5. q \in Seq(Part)
  BY OptionsAssumption
<1> HIDE DEF q
<1>6. /\ Len(q) \in Nat /\ Len(q) % 2 = 0 /\ \A k \in 1..Len(q) : Eligible(q[k])
  <2>1. Len(q) \in Nat
    BY <1>5
  <2>2. Len(q) % 2 = 0 /\ \A k \in 1..Len(q) : Eligible(q[k])
    BY Zenon DEF Accepted, q
  <2> QED
    BY <2>1, <2>2
<1>7. \A i, j \in 1..Len(q) : q[i] = q[j] => i = j
  BY <1>5 DEF Accepted, IsInjective, q
<1>8. n \in Nat /\ Len(q) = 2 * n
  BY <1>6
<1> HIDE DEF n
<1>9. \A k \in 1..n : 2 * k - 1 \in 1..Len(q) /\ 2 * k \in 1..Len(q)
  BY <1>8
<1>10. /\ Len(h) = n /\ \A k \in 1..n : h[k] = pair(k)
  BY <1>1, <1>8
<1>11. \A k \in 1..n : pair(k) \in PairType
  <2> TAKE k \in 1..n
  <2>1. q[2 * k - 1] \in Part /\ q[2 * k] \in Part
    BY <1>5, <1>9
  <2> QED
    BY <1>2, <1>3, <2>1 DEF PairType
<1>12. h \in Seq(PairType)
  BY <1>1, <1>8, <1>11
<1>13. ASSUME NEW p, p \in ToSet(q), p[1] = "B" PROVE WithB(o)
  <2>1. PICK k \in 1..Len(q) : q[k] = p
    BY <1>5, <1>13 DEF ToSet
  <2> QED
    BY <1>13, <2>1 DEF WithB, q
<1>14. ASSUME NEW k \in 1..Len(h)
       PROVE  /\ Eligible(h[k].app) /\ Eligible(h[k].media) /\ h[k].app # h[k].media
              /\ h[k].app[1] = "B" \/ h[k].media[1] = "B" => WithB(o)
              /\ h[k].sure => h[k].app[1] \notin E /\ h[k].media[1] \notin E
  <2> DEFINE i == 2 * k - 1
             j == 2 * k
  <2>1. i \in 1..Len(q) /\ j \in 1..Len(q) /\ i # j
    BY <1>8, <1>9, <1>10
  <2>2. h[k].app = q[i] /\ h[k].media = q[j] /\ h[k].sure = apart(k)
    BY <1>2, <1>4, <1>10
  <2>3. apart(k) => q[i][1] \notin E /\ q[j][1] \notin E
    BY <1>3
  <2> HIDE DEF i, j
  <2>4. q[i] \in ToSet(q) /\ q[j] \in ToSet(q) /\ q[i] # q[j] /\ Eligible(q[i]) /\ Eligible(q[j])
    BY <1>5, <1>6, <1>7, <2>1 DEF ToSet
  <2>5. q[i][1] = "B" \/ q[j][1] = "B" => WithB(o)
    BY <1>13, <2>4
  <2> QED
    BY <2>2, <2>3, <2>4, <2>5
<1>15. ASSUME NEW k \in 1..Len(h), NEW l \in 1..Len(h), k # l
       PROVE  {h[k].app, h[k].media} \cap {h[l].app, h[l].media} = {}
  <2> DEFINE a == 2 * k - 1
             b == 2 * k
             c == 2 * l - 1
             d == 2 * l
  <2>1. /\ a \in 1..Len(q) /\ b \in 1..Len(q) /\ c \in 1..Len(q) /\ d \in 1..Len(q)
        /\ a # c /\ a # d /\ b # c /\ b # d
    BY <1>8, <1>9, <1>10, <1>15
  <2>2. h[k].app = q[a] /\ h[k].media = q[b] /\ h[l].app = q[c] /\ h[l].media = q[d]
    BY <1>2, <1>10
  <2> HIDE DEF a, b, c, d
  <2>3. q[a] # q[c] /\ q[a] # q[d] /\ q[b] # q[c] /\ q[b] # q[d]
    BY <1>7, <2>1
  <2> QED
    BY <2>2, <2>3
<1> QED
  BY <1>8, <1>10, <1>12, <1>14, <1>15

LEMMA MadeDecides ==
  ASSUME NEW s, NEW d, NEW last, NEW app, NEW media
  PROVE  Decision(Made(s, d, last, app, media))
<1> DEFINE b == app \in 2..16 /\ media \in 2..16
           m == [s.mem EXCEPT ![d] = last.table]
           p == Append(s.pairs, NewPair(d, app, media, last.sure))
<1>1. Made(s, d, last, app, media) = [ok |-> b, mem |-> m, pairs |-> p]
  BY DEF Made
<1> HIDE DEF b, m, p
<1> QED
  BY <1>1 DEF Decision

LEMMA ExtendDecides ==
  ASSUME NEW s, Decision(s), NEW d, NEW c, c = Extend(s, d)
  PROVE  Decision(c)
<1> DEFINE v == Validated(d, s.mem[d])
           t == [s EXCEPT !.mem[d] = v.table]
<1>1. CASE ~s.ok
  BY <1>1 DEF Extend
<1>2. CASE s.ok
  <2>1. c = IF LargestFree(v) < MinFree THEN t ELSE Carve(t, d, TotalFree(v), LargestFree(v))
    BY <1>2 DEF Extend, ExtendValid
  <2> HIDE DEF v
  <2>2. Decision(t)
    BY DEF Decision
  <2> HIDE DEF t
  <2>3. \A rest, max, used, required :
          Decision(CarvePair(t, d, rest, max, used, required))
    BY MadeDecides, Zenon DEF CarvePair, ThenApp, ThenMedia
  <2>4. Decision(Carve(t, d, TotalFree(v), LargestFree(v)))
    BY <2>3, Zenon DEF Carve, CarveSize
  <2> QED
    BY <2>1, <2>2, <2>4
<1> QED
  BY <1>1, <1>2

LEMMA PlanFacts ==
  ASSUME Sound, NEW o \in Options, Accepted(o), NEW s, s = Plan(o), s.ok
  PROVE  Reached(ByHand(o), Tables(o), s, ToSet(ToExtend(o)))
<1> DEFINE h == ByHand(o)
           tb == Tables(o)
           ds == ToExtend(o)
           s0 == [ok |-> TRUE, mem |-> tb, pairs |-> h]
           c == Extended(s0, ds)
<1>1. h \in Seq(PairType)
  BY ByHandFacts
<1>2. SetOpens(o) /\ IsInjective(o.xs)
  BY DEF Accepted
<1>3. \A d \in Drives : tb[d] = NoTable \/ Base(d, tb[d])
  BY <1>2, TablesFacts
<1>4. tb \in [Drives -> Table \cup {NoTable}]
  <2>1. tb = [d \in Drives |-> tb[d]]
    BY DEF Tables
  <2> HIDE DEF tb
  <2>2. \A d \in Drives : tb[d] \in Table \cup {NoTable}
    BY <1>3 DEF Base, Good
  <2> QED
    BY <2>1, <2>2
<1>5. ds \in Seq(Drives) /\ IsInjective(ds) /\ ("B" \in ToSet(ds) => WithB(o))
  BY <1>2, ToExtendFacts
<1>6. ASSUME NEW d \in ToSet(ds) PROVE Good(d, tb[d])
  <2>1. d \in Drives
    BY <1>5 DEF ToSet
  <2>2. d = "A" \/ WithB(o)
    BY <1>5, <2>1 DEF Drives
  <2>3. tb[d] # NoTable
    BY <1>2, <2>1, <2>2, TablesFacts
  <2> QED
    BY <1>3, <2>1, <2>3 DEF Base
<1>7. s0 = [ok |-> TRUE, mem |-> tb, pairs |-> h]
  OBVIOUS
<1>8. Decision(s0) /\ s0.ok /\ s0.mem = tb /\ s0.pairs = h
  <2> HIDE DEF h, tb
  <2>1. s0.ok = TRUE /\ s0.mem = tb /\ s0.pairs = h
    OBVIOUS
  <2>2. s0.ok
    BY <2>1
  <2>3. s0 = [ok |-> s0.ok, mem |-> s0.mem, pairs |-> s0.pairs]
    BY <2>1
  <2> QED
    BY <2>1, <2>2, <2>3 DEF Decision
<1>9. s = Checked(c)
  BY DEF Plan
<1> HIDE DEF s0
<1>10. Decision(c)
  BY <1>8, ExtendDecides DEF Extended, ExtendNth
<1> HIDE DEF c
<1> DEFINE fits == CountFits(c.pairs)
<1>11. s = [c EXCEPT !.ok = c.ok /\ fits]
  BY <1>9 DEF Checked
<1> HIDE DEF fits
<1>12. s.ok = (c.ok /\ fits) /\ s.mem = c.mem /\ s.pairs = c.pairs
       /\ s = [ok |-> s.ok, mem |-> s.mem, pairs |-> s.pairs]
  BY <1>10, <1>11 DEF Decision
<1>13. c.ok /\ Decision(s)
  BY <1>12 DEF Decision
<1> HIDE DEF h, tb, ds
<1>14. Reached(h, tb, c, ToSet(ds))
  BY <1>1, <1>4, <1>5, <1>6, <1>8, <1>13, ExtendedReached DEF c
<1>15. Reached(h, tb, s, ToSet(ds))
  BY <1>12, <1>13, <1>14 DEF Reached
<1> QED
  BY <1>15 DEF h, tb, ds


\* What a run has decided: its tables and the pairs it is to add.
LEMMA RunFacts ==
  ASSUME Sound, NEW o \in Options, Accepted(o), NEW s, s = Plan(o), s.ok
  PROVE  /\ s.mem \in [Drives -> Table \cup {NoTable}] /\ s.pairs \in Seq(PairType)
         /\ \A k \in 1..Len(s.pairs) :
              s.mem[s.pairs[k].app[1]] # NoTable /\ s.mem[s.pairs[k].media[1]] # NoTable
         /\ \A d \in Drives : s.mem[d] # NoTable =>
              /\ Good(d, s.mem[d]) /\ Holds(d, s.mem[d])
              /\ Clean(s.mem[d]) => Agrees(d, s.mem[d])
              /\ "DIRTY" \in s.mem[d].flags =>
                   /\ \E k \in 1..Len(s.pairs) : s.pairs[k].app[1] = d
                   /\ UsedBy(d) # {} => Data(disk[d]) \subseteq Data(s.mem[d].parts)
         /\ \A k \in 1..Len(s.pairs) : s.pairs[k].sure =>
              LET p == s.pairs[k]
              IN  FoundIn(s.mem[p.app[1]], p.app) /\ FoundIn(s.mem[p.media[1]], p.media) /\ p.app # p.media
         /\ \A k, l \in 1..Len(s.pairs) : s.pairs[k].sure /\ s.pairs[l].sure /\ k # l =>
              {s.pairs[k].app, s.pairs[k].media} \cap {s.pairs[l].app, s.pairs[l].media} = {}
<1> DEFINE h == ByHand(o)
           tb == Tables(o)
           E == ToSet(ToExtend(o))
           made == (Len(h) + 1)..Len(s.pairs)
<1>1. /\ list \in Seq(Volume) /\ disk \in [Drives -> Seq(Stored)]
      /\ SetOpens(o) /\ IsInjective(o.xs)
  BY DEF Sound, VolumesSound, TypeOK, Accepted
<1>2. \A d \in Drives : /\ tb[d] = NoTable \/ Base(d, tb[d])
                        /\ d = "A" \/ WithB(o) => tb[d] # NoTable
  BY <1>1, TablesFacts
<1>3. Reached(h, tb, s, E)
  BY PlanFacts
<1>4. ToExtend(o) \in Seq(Drives) /\ ("B" \in E => WithB(o))
  BY <1>1, ToExtendFacts
<1>5. \A d \in E : d \in Drives /\ Base(d, tb[d])
  <2> TAKE d \in E
  <2>1. d \in Drives
    BY <1>4 DEF ToSet
  <2>2. d = "A" \/ WithB(o)
    BY <1>4, <2>1 DEF Drives
  <2> QED
    BY <1>2, <2>1, <2>2
<1>6. /\ h \in Seq(PairType) /\ Len(h) \in Nat
      /\ \A k \in 1..Len(h) :
           /\ Eligible(h[k].app) /\ Eligible(h[k].media) /\ h[k].app # h[k].media
           /\ h[k].app[1] = "B" \/ h[k].media[1] = "B" => WithB(o)
           /\ h[k].sure => h[k].app[1] \notin E /\ h[k].media[1] \notin E
      /\ \A k, l \in 1..Len(h) : k # l => {h[k].app, h[k].media} \cap {h[l].app, h[l].media} = {}
  BY ByHandFacts
<1> HIDE DEF h, tb, E
<1>7. /\ s.mem \in [Drives -> Table \cup {NoTable}] /\ s.pairs \in Seq(PairType)
      /\ Len(h) <= Len(s.pairs) /\ (\A k \in 1..Len(h) : s.pairs[k] = h[k])
      /\ Len(s.pairs) \in Nat
  BY <1>3 DEF Reached
<1>8. \A k \in 1..Len(s.pairs) : k \in 1..Len(h) \/ k \in made
  BY <1>6, <1>7
<1>9. \A d \in Drives \ E : s.mem[d] = tb[d]
  BY <1>3 DEF Reached
<1>10. \A d \in E : \/ Stretched(d, tb[d], s.mem[d])
                    \/ \E k \in made : PairIn(d, tb[d], s.mem[d], s.pairs[k])
  BY <1>3 DEF Reached
<1>11. \A k \in made :
         /\ s.pairs[k].app[1] \in E
         /\ PairIn(s.pairs[k].app[1], tb[s.pairs[k].app[1]], s.mem[s.pairs[k].app[1]], s.pairs[k])
  BY <1>3 DEF Reached
<1>12. \A k, l \in made : k # l => s.pairs[k].app[1] # s.pairs[l].app[1]
  BY <1>3 DEF Reached
<1>13. \A k \in made : k \in 1..Len(s.pairs)
  BY <1>6, <1>7
<1> HIDE DEF made
<1>14. ASSUME NEW d \in Drives, s.mem[d] # NoTable
       PROVE  /\ Good(d, s.mem[d]) /\ Holds(d, s.mem[d])
              /\ Clean(s.mem[d]) => Agrees(d, s.mem[d])
              /\ "DIRTY" \in s.mem[d].flags =>
                   /\ \E k \in 1..Len(s.pairs) : s.pairs[k].app[1] = d
                   /\ UsedBy(d) # {} => Data(disk[d]) \subseteq Data(s.mem[d].parts)
  <2>1. CASE d \notin E
    <3>1. s.mem[d] = tb[d] /\ Base(d, tb[d])
      BY <1>2, <1>9, <1>14, <2>1
    <3> QED
      BY <3>1 DEF Base
  <2>2. CASE Base(d, tb[d]) /\ Stretched(d, tb[d], s.mem[d])
    <3>1. Unchanged(d, s.mem[d])
      BY <1>1, <2>2, StretchedBase
    <3> QED
      BY <3>1 DEF Unchanged
  <2>3. CASE Base(d, tb[d]) /\ \E k \in made : PairIn(d, tb[d], s.mem[d], s.pairs[k])
    <3>1. PICK k \in made : PairIn(d, tb[d], s.mem[d], s.pairs[k])
      BY <2>3
    <3>2. /\ Good(d, s.mem[d]) /\ "DIRTY" \in s.mem[d].flags /\ Holds(d, s.mem[d])
          /\ UsedBy(d) # {} => Data(disk[d]) \subseteq Data(s.mem[d].parts)
      BY <1>1, <2>3, <3>1, PairBase
    <3>3. k \in 1..Len(s.pairs) /\ s.pairs[k].app[1] = d
      BY <1>13, <3>1 DEF PairIn
    <3>4. ~Clean(s.mem[d])
      BY <3>2 DEF Clean
    <3> QED
      BY <3>2, <3>3, <3>4
  <2> QED
    BY <1>5, <1>10, <2>1, <2>2, <2>3
<1>15. ASSUME NEW k \in 1..Len(h), NEW q \in {h[k].app, h[k].media}, q[1] \notin E
       PROVE  FoundIn(s.mem[q[1]], q)
  <2>1. h[k] \in PairType
    BY <1>6
  <2>2. q \in Part /\ q[1] \in Drives
    BY <2>1 DEF PairType, Part
  <2>3. Eligible(q)
    BY <1>6
  <2>4. q[1] = "B" => WithB(o)
    BY <1>6
  <2>5. tb[q[1]] # NoTable /\ s.mem[q[1]] = tb[q[1]]
    BY <1>2, <1>9, <1>15, <2>2, <2>4 DEF Drives
  <2>6. Base(q[1], s.mem[q[1]])
    BY <1>2, <2>2, <2>5
  <2> QED
    BY <2>2, <2>3, <2>6, EligibleFound
<1>16. ASSUME NEW k \in 1..Len(s.pairs), s.pairs[k].sure
       PROVE  /\ FoundIn(s.mem[s.pairs[k].app[1]], s.pairs[k].app)
              /\ FoundIn(s.mem[s.pairs[k].media[1]], s.pairs[k].media)
              /\ s.pairs[k].app # s.pairs[k].media
  <2>1. CASE k \in 1..Len(h)
    <3>1. s.pairs[k] = h[k]
      BY <1>7, <2>1
    <3>2. h[k].app[1] \notin E /\ h[k].media[1] \notin E /\ h[k].app # h[k].media
      BY <1>6, <1>16, <2>1, <3>1
    <3>3. FoundIn(s.mem[h[k].app[1]], h[k].app) /\ FoundIn(s.mem[h[k].media[1]], h[k].media)
      BY <1>15, <2>1, <3>2
    <3> QED
      BY <3>1, <3>2, <3>3
  <2>2. CASE k \in made
    <3> DEFINE p == s.pairs[k]
               d == p.app[1]
    <3>1. d \in Drives /\ Base(d, tb[d]) /\ PairIn(d, tb[d], s.mem[d], p)
      BY <1>5, <1>11, <2>2
    <3>2. p.sure /\ p.media[1] = d
      BY <1>16, <3>1, Zenon DEF PairIn
    <3> HIDE DEF p, d
    <3>3. FoundIn(s.mem[d], p.app) /\ FoundIn(s.mem[d], p.media) /\ p.app # p.media
      BY <1>1, <3>1, <3>2, PairBase
    <3> QED
      BY <3>2, <3>3 DEF p, d
  <2> QED
    BY <1>8, <2>1, <2>2
<1>17. ASSUME NEW k \in 1..Len(s.pairs), NEW l \in 1..Len(s.pairs), s.pairs[k].sure, s.pairs[l].sure, k # l
       PROVE  {s.pairs[k].app, s.pairs[k].media} \cap {s.pairs[l].app, s.pairs[l].media} = {}
  <2>1. ASSUME NEW i \in 1..Len(h), s.pairs[i].sure
        PROVE  s.pairs[i].app[1] \notin E /\ s.pairs[i].media[1] \notin E
    BY <1>6, <1>7, <2>1
  <2>2. \A i \in made : s.pairs[i].app[1] \in E /\ s.pairs[i].media[1] = s.pairs[i].app[1]
    BY <1>11, Zenon DEF PairIn
  <2>3. CASE k \in 1..Len(h) /\ l \in 1..Len(h)
    BY <1>6, <1>7, <1>17, <2>3
  <2>4. CASE k \in 1..Len(h) /\ l \in made
    <3>1. s.pairs[k].app[1] \notin E /\ s.pairs[k].media[1] \notin E
      BY <1>17, <2>1, <2>4
    <3> QED
      BY <2>2, <2>4, <3>1
  <2>5. CASE k \in made /\ l \in 1..Len(h)
    <3>1. s.pairs[l].app[1] \notin E /\ s.pairs[l].media[1] \notin E
      BY <1>17, <2>1, <2>5
    <3> QED
      BY <2>2, <2>5, <3>1
  <2>6. CASE k \in made /\ l \in made
    <3>1. s.pairs[k].app[1] # s.pairs[l].app[1]
      BY <1>12, <1>17, <2>6
    <3> QED
      BY <2>2, <2>6, <3>1
  <2> QED
    BY <1>8, <2>3, <2>4, <2>5, <2>6
<1>18. \A d \in E : s.mem[d] # NoTable
  <2> TAKE d \in E
  <2>1. Good(d, s.mem[d])
    BY <1>10 DEF Stretched, PairIn
  <2> QED
    BY <2>1, NoTableApart DEF Good
<1>19. ASSUME NEW k \in 1..Len(h), NEW q \in {h[k].app, h[k].media}
       PROVE  s.mem[q[1]] # NoTable
  <2>1. h[k] \in PairType
    BY <1>6
  <2>2. q[1] \in Drives
    BY <2>1 DEF PairType, Part
  <2>3. q[1] = "B" => WithB(o)
    BY <1>6
  <2>4. tb[q[1]] # NoTable
    BY <1>2, <2>2, <2>3 DEF Drives
  <2> QED
    BY <1>9, <1>18, <2>2, <2>4
<1>20. \A k \in made : s.pairs[k].app[1] \in E /\ s.pairs[k].media[1] = s.pairs[k].app[1]
  BY <1>11, Zenon DEF PairIn
<1>21. ASSUME NEW k \in 1..Len(s.pairs)
       PROVE  s.mem[s.pairs[k].app[1]] # NoTable /\ s.mem[s.pairs[k].media[1]] # NoTable
  <2>1. CASE k \in 1..Len(h)
    <3>1. s.pairs[k] = h[k]
      BY <1>7, <2>1
    <3> QED
      BY <1>19, <2>1, <3>1
  <2>2. CASE k \in made
    <3>1. s.pairs[k].app[1] \in E /\ s.pairs[k].media[1] = s.pairs[k].app[1]
      BY <1>20, <2>2
    <3> QED
      BY <1>18, <3>1
  <2> QED
    BY <1>8, <2>1, <2>2
<1> QED
  BY <1>7, <1>14, <1>16, <1>17, <1>21, Zenon

-----------------------------------------------------------------------------
(* Every step keeps the invariant.                                           *)

LEMMA InvSound == MInv => Sound /\ list \in Seq(Volume) /\ disk \in [Drives -> Seq(Stored)]
BY DEF MInv, Sound, VolumesSound, TypeOK

\* A step that writes nothing keeps what is said of the drives and the set.
LEMMA SameDrives ==
  ASSUME MInv, UNCHANGED <<disk, list>>, todo' \in Seq(PairType), dirty' \subseteq Drives,
         stage' \in {"idle", "tables", "volumes", "expand", "table", "volume"}
  PROVE  VolumesSound' /\ (disk["A"] # <<>> /\ \A d \in Drives : RowOn(d, disk[d]))'
<1>1. TypeOK'
  BY DEF MInv, VolumesSound, TypeOK
<1>2. Stay(list, disk)' /\ Sure(list, disk)'
  BY DEF MInv, VolumesSound
<1> QED
  BY <1>1, <1>2 DEF MInv, VolumesSound

LEMMA RunStep ==
  ASSUME MInv, NEW o \in Options, Run(o)
  PROVE  MInv'
<1>1. PICK s \in {Plan(o)} :
        /\ s.ok /\ s.pairs # <<>> /\ mem' = s.mem /\ todo' = s.pairs
        /\ dirty' = UNION {DrivesOf(s.pairs[k]) : k \in 1..Len(s.pairs)}
  BY DEF Run
<1>2. Accepted(o) /\ disk' = disk /\ list' = list /\ stage' = "tables"
  BY DEF Run
<1>3. /\ s.mem \in [Drives -> Table \cup {NoTable}] /\ s.pairs \in Seq(PairType)
      /\ \A k \in 1..Len(s.pairs) :
           s.mem[s.pairs[k].app[1]] # NoTable /\ s.mem[s.pairs[k].media[1]] # NoTable
      /\ \A d \in Drives : s.mem[d] # NoTable =>
           /\ Good(d, s.mem[d]) /\ Holds(d, s.mem[d])
           /\ Clean(s.mem[d]) => Agrees(d, s.mem[d])
           /\ "DIRTY" \in s.mem[d].flags =>
                /\ \E k \in 1..Len(s.pairs) : s.pairs[k].app[1] = d
                /\ UsedBy(d) # {} => Data(disk[d]) \subseteq Data(s.mem[d].parts)
      /\ \A k \in 1..Len(s.pairs) : s.pairs[k].sure =>
           LET p == s.pairs[k]
           IN  FoundIn(s.mem[p.app[1]], p.app) /\ FoundIn(s.mem[p.media[1]], p.media) /\ p.app # p.media
      /\ \A k, l \in 1..Len(s.pairs) : s.pairs[k].sure /\ s.pairs[l].sure /\ k # l =>
           {s.pairs[k].app, s.pairs[k].media} \cap {s.pairs[l].app, s.pairs[l].media} = {}
  BY <1>1, <1>2, InvSound, RunFacts
<1>4. \A k \in 1..Len(s.pairs) : s.pairs[k] \in PairType
  BY <1>3
<1>5. dirty' \subseteq Drives
  BY <1>1, <1>4 DEF PairType, Part, DrivesOf
<1>6. VolumesSound' /\ (disk["A"] # <<>> /\ \A d \in Drives : RowOn(d, disk[d]))'
  BY <1>1, <1>2, <1>3, <1>5, SameDrives
<1>7. (mem \in [Drives -> Table \cup {NoTable}])'
  BY <1>1, <1>3
<1>8. ASSUME NEW d \in Drives, mem'[d] # NoTable PROVE TableInv(d, mem[d])'
  <2>1. /\ Good(d, s.mem[d]) /\ Holds(d, s.mem[d])
        /\ Clean(s.mem[d]) => Agrees(d, s.mem[d])
        /\ "DIRTY" \in s.mem[d].flags =>
             /\ \E k \in 1..Len(s.pairs) : s.pairs[k].app[1] = d
             /\ UsedBy(d) # {} => Data(disk[d]) \subseteq Data(s.mem[d].parts)
    BY <1>1, <1>3, <1>8
  <2>2. Good(d, mem[d])'
    BY <1>1, <2>1
  <2>3. Holds(d, mem[d])'
    BY <1>1, <1>2, <2>1, Zenon DEF Holds, SureOn
  <2>4. (Clean(mem[d]) => Agrees(d, mem[d]))'
    BY <1>1, <1>2, <2>1 DEF Agrees
  <2>5. ASSUME "DIRTY" \in mem'[d].flags
        PROVE  ToWrite(d)' /\ (UsedBy(d) # {} => Data(disk[d]) \subseteq Data(mem[d].parts))'
    <3>1. PICK k \in 1..Len(s.pairs) : s.pairs[k].app[1] = d
      BY <1>1, <2>1, <2>5
    <3>2. d \in dirty'
      BY <1>1, <3>1 DEF DrivesOf
    <3>3. ToWrite(d)'
      BY <1>2, <3>2 DEF ToWrite
    <3>4. UsedBy(d)' = UsedBy(d)
      BY <1>2 DEF UsedBy, InSet
    <3>5. UsedBy(d) # {} => Data(disk[d]) \subseteq Data(s.mem[d].parts)
      BY <1>1, <2>1, <2>5
    <3> QED
      BY <1>1, <1>2, <3>3, <3>4, <3>5
  <2> QED
    BY <2>2, <2>3, <2>4, <2>5 DEF TableInv
<1>9. TodoInv'
  <2>1. \A t, q : FoundIn(t, q)' <=> FoundIn(t, q)
    BY <1>2 DEF FoundIn
  <2>2. ASSUME NEW k \in 1..Len(s.pairs), s.pairs[k].sure
        PROVE  /\ FoundIn(s.mem[s.pairs[k].app[1]], s.pairs[k].app)'
               /\ FoundIn(s.mem[s.pairs[k].media[1]], s.pairs[k].media)'
               /\ s.pairs[k].app # s.pairs[k].media
    BY <1>3, <2>1, <2>2
  <2>3. (\A k \in 1..Len(todo) : todo[k].sure =>
           Found(todo[k].app) /\ Found(todo[k].media) /\ todo[k].app # todo[k].media)'
    BY <1>1, <2>2 DEF Found
  <2>4. (\A k, l \in 1..Len(todo) : todo[k].sure /\ todo[l].sure /\ k # l =>
           {todo[k].app, todo[k].media} \cap {todo[l].app, todo[l].media} = {})'
    BY <1>1, <1>3
  <2> QED
    BY <2>3, <2>4 DEF TodoInv
<1>10. StageInv'
  <2>1. ASSUME NEW d \in dirty' PROVE mem'[d] # NoTable
    <3>1. PICK k \in 1..Len(s.pairs) : d \in DrivesOf(s.pairs[k])
      BY <1>1, <2>1
    <3> QED
      BY <1>1, <1>3, <3>1 DEF DrivesOf
  <2> QED
    BY <1>2, <2>1 DEF StageInv, Left
<1> QED
  BY <1>6, <1>7, <1>8, <1>9, <1>10 DEF MInv

\* Nothing but the tool's own bookkeeping changes.
LEMMA SameMemory ==
  ASSUME MInv, UNCHANGED <<disk, list, mem>>, NEW d \in Drives, mem[d] # NoTable,
         "DIRTY" \in mem[d].flags => ToWrite(d)'
  PROVE  TableInv(d, mem[d])'
<1>1. TableInv(d, mem[d])
  BY DEF MInv
<1>2. Good(d, mem[d])'
  BY <1>1 DEF TableInv
<1>3. (Clean(mem[d]) => Agrees(d, mem[d]))'
  BY <1>1 DEF TableInv, Agrees
<1>4. Holds(d, mem[d])'
  BY <1>1 DEF TableInv, Holds, SureOn
<1>5. (UsedBy(d) # {} => Data(disk[d]) \subseteq Data(mem[d].parts)) <=>
      (UsedBy(d) # {} => Data(disk[d]) \subseteq Data(mem[d].parts))'
  BY DEF UsedBy, InSet
<1>6. ("DIRTY" \in mem[d].flags => ToWrite(d) /\ (UsedBy(d) # {} => Data(disk[d]) \subseteq Data(mem[d].parts)))'
  BY <1>1, <1>5 DEF TableInv
<1> QED
  BY <1>2, <1>3, <1>4, <1>6 DEF TableInv

LEMMA SameTodo ==
  ASSUME MInv, UNCHANGED <<list, mem, todo>>
  PROVE  TodoInv'
BY Zenon DEF MInv, TodoInv, Found, FoundIn

LEMMA EmptyTodo ==
  ASSUME todo' = <<>>
  PROVE  TodoInv'
BY DEF TodoInv

LEMMA ToolEndsStep ==
  ASSUME MInv, ToolEnds
  PROVE  MInv'
<1>1. /\ stage' = "idle" /\ todo' = <<>> /\ dirty' = {} /\ mem' = [d \in Drives |-> NoTable]
      /\ disk' = disk /\ list' = list
  BY DEF ToolEnds
<1>2. VolumesSound' /\ (disk["A"] # <<>> /\ \A d \in Drives : RowOn(d, disk[d]))'
  BY <1>1, SameDrives
<1>3. (mem \in [Drives -> Table \cup {NoTable}])' /\ \A d \in Drives : mem'[d] = NoTable
  BY <1>1
<1>4. TodoInv'
  BY <1>1, EmptyTodo
<1>5. StageInv'
  BY <1>1, <1>3 DEF StageInv, Left
<1> QED
  BY <1>2, <1>3, <1>4, <1>5 DEF MInv

LEMMA TablesWrittenStep ==
  ASSUME MInv, TablesWritten
  PROVE  MInv'
<1>1. /\ stage = "tables" /\ dirty = {} /\ stage' = "volumes"
      /\ UNCHANGED <<disk, list, mem, todo, dirty>>
  BY DEF TablesWritten
<1>2. VolumesSound' /\ (disk["A"] # <<>> /\ \A d \in Drives : RowOn(d, disk[d]))'
  BY <1>1, SameDrives DEF MInv, VolumesSound, TypeOK
<1>3. \A d \in Drives : mem[d] # NoTable => "DIRTY" \notin mem[d].flags
  BY <1>1 DEF MInv, TableInv, ToWrite
<1>4. (\A d \in Drives : mem[d] # NoTable => TableInv(d, mem[d]))'
  BY <1>1, <1>3, SameMemory
<1>5. TodoInv'
  BY <1>1, SameTodo
<1>6. StageInv'
  BY <1>1 DEF StageInv, Left
<1>7. (mem \in [Drives -> Table \cup {NoTable}])'
  BY <1>1 DEF MInv
<1> QED
  BY <1>2, <1>4, <1>5, <1>6, <1>7 DEF MInv

\* What is on the drive of a table that is clean is what its entries say, but for free space.
LEMMA AgreesData ==
  ASSUME NEW d \in Drives, disk[d] \in Seq(Stored), NEW t \in Table, Agrees(d, t)
  PROVE  Data(disk[d]) = Data(t.parts)
<1> DEFINE q == disk[d]
           r == t.parts
<1>1. Len(q) \in Nat /\ Len(r) \in Nat /\ Len(q) <= Len(r)
  BY DEF Agrees, Table
<1>2. \A k \in 1..Len(q) : r[k].start = q[k].start /\ r[k].sectors = q[k].sectors /\ r[k].type = q[k].type
  BY DEF Agrees
<1>3. \A k \in (Len(q) + 1)..Len(r) : r[k].type = "free"
  BY DEF Agrees
<1> HIDE DEF q, r
<1>4. \A k \in 1..Len(r) : k \in 1..Len(q) \/ k \in (Len(q) + 1)..Len(r)
  BY <1>1
<1>5. \A k \in 1..Len(q) : k \in 1..Len(r)
  BY <1>1
<1>6. {k \in 1..Len(q) : q[k].type # "free"} = {k \in 1..Len(r) : r[k].type # "free"}
  BY <1>2, <1>3, <1>4, <1>5
<1>7. Data(q) = Data(r)
  BY <1>2, <1>6 DEF Data
<1> QED
  BY <1>7 DEF q, r

LEMMA StartExpandStep ==
  ASSUME MInv, NEW b \in BOOLEAN, StartExpand(b)
  PROVE  MInv'
<1>1. /\ stage = "idle" /\ (b => disk["B"] # <<>>) /\ stage' = "expand" /\ dirty' = Targets(b)
      /\ mem' = [d \in Drives |-> IF d \in Targets(b) THEN Loaded(d) ELSE NoTable]
      /\ UNCHANGED <<disk, list, todo>>
  BY DEF StartExpand
<1>2. Targets(b) \subseteq Drives /\ \A d \in Targets(b) : disk[d] # <<>>
  BY <1>1 DEF Targets, Drives, MInv
<1>3. \A d \in Targets(b) : Loaded(d).flags = {} /\ Base(d, Loaded(d))
  BY <1>2, InvSound, LoadedBase
<1>4. \A d \in Targets(b) : Loaded(d) \in Table /\ Loaded(d) # NoTable
  BY <1>3, NoTableApart DEF Base, Good
<1>5. todo' = <<>> /\ todo' \in Seq(PairType)
  BY <1>1 DEF MInv, StageInv
<1>6. VolumesSound' /\ (disk["A"] # <<>> /\ \A d \in Drives : RowOn(d, disk[d]))'
  BY <1>1, <1>2, <1>5, SameDrives
<1>7. (mem \in [Drives -> Table \cup {NoTable}])'
  BY <1>1, <1>4
<1>8. ASSUME NEW d \in Drives, mem'[d] # NoTable PROVE TableInv(d, mem[d])'
  <2> DEFINE t == Loaded(d)
  <2>1. d \in Targets(b) /\ mem'[d] = t
    BY <1>1, <1>8
  <2>2. Good(d, t) /\ (Clean(t) => Agrees(d, t)) /\ Holds(d, t) /\ t.flags = {}
    BY <1>3, <2>1 DEF Base
  <2> HIDE DEF t
  <2>3. Good(d, mem[d])'
    BY <2>1, <2>2
  <2>4. (Clean(mem[d]) => Agrees(d, mem[d]))'
    BY <1>1, <2>1, <2>2 DEF Agrees
  <2>5. Holds(d, mem[d])'
    BY <1>1, <2>1, <2>2 DEF Holds, SureOn
  <2>6. "DIRTY" \notin mem'[d].flags
    BY <2>1, <2>2
  <2> QED
    BY <2>3, <2>4, <2>5, <2>6 DEF TableInv
<1>9. TodoInv'
  BY <1>5, EmptyTodo
<1>10. ASSUME NEW d \in Targets(b)
       PROVE  mem'[d] # NoTable /\ Clean(mem[d])' /\ Pins(d, mem[d])'
  <2> DEFINE t == Loaded(d)
  <2>1. mem'[d] = t /\ t # NoTable /\ t.flags = {} /\ Pins(d, t)
    BY <1>1, <1>2, <1>3, <1>4 DEF Base
  <2> HIDE DEF t
  <2> QED
    BY <1>1, <2>1 DEF Clean, Pins, SureOn
<1>11. StageInv'
  BY <1>1, <1>5, <1>10 DEF StageInv, Left
<1> QED
  BY <1>6, <1>7, <1>8, <1>9, <1>11 DEF MInv

LEMMA OnDiskFacts ==
  ASSUME NEW d \in Drives, NEW t, Good(d, t), NEW q, q = OnDisk(t)
  PROVE  /\ q \in Seq(Stored) /\ q # <<>> /\ Len(q) = Len(t.parts)
         /\ \A k \in 1..Len(t.parts) : /\ q[k].start = t.parts[k].start
                                       /\ q[k].sectors = t.parts[k].sectors
                                       /\ q[k].type = t.parts[k].type
         /\ RowOn(d, q)
         /\ \A k \in 1..Len(t.parts) :
              q[k] = [start |-> t.parts[k].start, sectors |-> t.parts[k].sectors, type |-> t.parts[k].type]
<1> DEFINE e(k) == [start |-> t.parts[k].start, sectors |-> t.parts[k].sectors, type |-> t.parts[k].type]
<1>1. t.parts \in Seq(Entry) /\ Len(t.parts) \in Nat /\ Len(t.parts) >= 1 /\ RowOn(d, t.parts)
  BY DEF Good, Table
<1>2. q = [k \in 1..Len(t.parts) |-> e(k)]
  BY DEF OnDisk
<1>3. ASSUME NEW k \in 1..Len(t.parts) PROVE e(k) \in Stored
  <2>1. t.parts[k] \in Entry
    BY <1>1
  <2> QED
    BY <2>1 DEF Entry, Stored
<1>4. \A k : e(k).start = t.parts[k].start /\ e(k).sectors = t.parts[k].sectors /\ e(k).type = t.parts[k].type
  OBVIOUS
<1>5. \A k \in 1..Len(t.parts) : q[k] = e(k)
  BY <1>2
<1>6. \A k \in 1..Len(t.parts) : q[k] =
        [start |-> t.parts[k].start, sectors |-> t.parts[k].sectors, type |-> t.parts[k].type]
  BY <1>5
<1> HIDE DEF e
<1>7. q \in Seq(Stored) /\ Len(q) = Len(t.parts)
  BY <1>1, <1>2, <1>3
<1>8. q # <<>>
  BY <1>1, <1>7
<1>9. RowOn(d, q)
  BY <1>1, <1>4, <1>5, <1>7, SamePlacesRow
<1> QED
  BY <1>4, <1>5, <1>6, <1>7, <1>8, <1>9

\* tivo_partition_table_write of the table of drive d.
LEMMA TableWritten ==
  ASSUME MInv, NEW d \in Drives, mem[d] # NoTable, "DIRTY" \in mem[d].flags,
         disk' = [disk EXCEPT ![d] = OnDisk(mem[d])],
         mem' = [mem EXCEPT ![d].flags = @ \ {"DIRTY", "NONINIT"}],
         UNCHANGED <<list, todo>>, dirty' \subseteq Drives,
         stage' \in {"idle", "tables", "volumes", "expand", "table", "volume"},
         \A e \in Drives \ {d} : ToWrite(e) => ToWrite(e)'
  PROVE  /\ VolumesSound' /\ (disk["A"] # <<>> /\ \A e \in Drives : RowOn(e, disk[e]))'
         /\ (mem \in [Drives -> Table \cup {NoTable}])'
         /\ (\A e \in Drives : mem[e] # NoTable => TableInv(e, mem[e]))'
         /\ TodoInv'
         /\ mem'[d] # NoTable /\ \A e \in Drives \ {d} : mem'[e] = mem[e]
<1> DEFINE t == mem[d]
           u == [t EXCEPT !.flags = @ \ {"DIRTY", "NONINIT"}]
           q == OnDisk(t)
<1>1. /\ TypeOK /\ Stay(list, disk) /\ Sure(list, disk)
      /\ disk["A"] # <<>> /\ \A e \in Drives : RowOn(e, disk[e])
  BY DEF MInv, VolumesSound
<1>2. /\ disk \in [Drives -> Seq(Stored)] /\ list \in Seq(Volume)
      /\ mem \in [Drives -> Table \cup {NoTable}]
  BY <1>1 DEF TypeOK, MInv
<1>3. TableInv(d, t)
  BY DEF MInv
<1>4. Good(d, t) /\ Holds(d, t) /\ t \in Table /\ Len(t.parts) \in Nat
  BY <1>3 DEF TableInv, Good, Table
<1>5. mem' = [mem EXCEPT ![d] = u]
  OBVIOUS
<1> HIDE DEF q
<1>6. /\ q \in Seq(Stored) /\ q # <<>> /\ Len(q) = Len(t.parts)
      /\ \A k \in 1..Len(t.parts) : /\ q[k].start = t.parts[k].start
                                    /\ q[k].sectors = t.parts[k].sectors
                                    /\ q[k].type = t.parts[k].type
      /\ RowOn(d, q)
  BY <1>4, OnDiskFacts DEF q
<1>7. /\ disk' \in [Drives -> Seq(Stored)] /\ disk'[d] = q
      /\ \A e \in Drives \ {d} : disk'[e] = disk[e]
  BY <1>2, <1>6 DEF q
<1>8. u \in Table /\ u.parts = t.parts /\ u.flags = t.flags \ {"DIRTY", "NONINIT"}
  BY <1>4 DEF Table
<1> HIDE DEF u
<1>9. /\ mem' \in [Drives -> Table \cup {NoTable}] /\ mem'[d] = u
      /\ \A e \in Drives \ {d} : mem'[e] = mem[e]
  BY <1>2, <1>5, <1>8
<1> HIDE DEF t
<1>10. TypeOK'
  BY <1>1, <1>7 DEF TypeOK
<1>11. ASSUME NEW n \in 1..Len(list), list[n].sure
       PROVE  /\ list[n].part[2] \in 2..Len(disk'[list[n].part[1]])
              /\ disk'[list[n].part[1]][list[n].part[2]].start = list[n].start
              /\ disk'[list[n].part[1]][list[n].part[2]].sectors = list[n].sectors
              /\ disk'[list[n].part[1]][list[n].part[2]].type = "data"
  <2> DEFINE k == list[n].part[2]
             e == list[n].part[1]
  <2>1. e \in Drives
    BY <1>2, UsedByFacts
  <2>2. CASE e = d
    <3>1. n \in SureOn(d)
      BY <1>11, <2>2 DEF SureOn
    <3>2. /\ k \in 2..Len(t.parts) /\ t.parts[k].start = list[n].start
          /\ t.parts[k].sectors = list[n].sectors /\ t.parts[k].type = "data"
      BY <1>4, <3>1 DEF Holds
    <3> HIDE DEF k
    <3>3. k \in 1..Len(t.parts)
      BY <1>4, <3>2
    <3>4. /\ k \in 2..Len(q) /\ q[k].start = list[n].start
          /\ q[k].sectors = list[n].sectors /\ q[k].type = "data"
      BY <1>6, <3>2, <3>3
    <3> QED
      BY <1>7, <2>2, <3>4 DEF k
  <2>3. CASE e # d
    <3>1. /\ k \in 2..Len(disk[e]) /\ disk[e][k].start = list[n].start
          /\ disk[e][k].sectors = list[n].sectors
      BY <1>1, <1>11 DEF Stay
    <3>2. disk[e][k].type = "data"
      BY <1>1, <1>11 DEF Sure
    <3> QED
      BY <1>7, <2>1, <2>3, <3>1, <3>2
  <2> QED
    BY <2>2, <2>3
<1>12. Stay(list, disk)' /\ Sure(list, disk)'
  <2>1. list' = list
    OBVIOUS
  <2>2. \A n \in 1..Len(list) : list[n].sure => \A m \in 1..(n - 1) : list[m].sure => list[m].part # list[n].part
    BY <1>1 DEF Sure
  <2>3. Stay(list, disk)'
    BY <1>11, <2>1, Zenon DEF Stay
  <2>4. Sure(list, disk)'
    BY <1>11, <2>1, <2>2 DEF Sure
  <2> QED
    BY <2>3, <2>4
<1>13. (disk["A"] # <<>> /\ \A e \in Drives : RowOn(e, disk[e]))'
  BY <1>1, <1>6, <1>7 DEF Drives
<1>14. u # NoTable
  BY <1>8, NoTableApart
<1>15. (mem[d] # NoTable => TableInv(d, mem[d]))'
  <2>1. Good(d, mem[d])'
    BY <1>4, <1>8, <1>9 DEF Good
  <2>2. Agrees(d, mem[d])'
    <3> DEFINE r == mem'[d].parts
    <3>1. Len(q) = Len(r) /\ Len(q) \in Nat /\ disk'[d] = q
      BY <1>4, <1>6, <1>7, <1>8, <1>9
    <3>2. \A k \in 1..Len(q) : r[k].start = q[k].start /\ r[k].sectors = q[k].sectors /\ r[k].type = q[k].type
      BY <1>6, <1>8, <1>9, Zenon
    <3> HIDE DEF r
    <3>3. \A k \in (Len(q) + 1)..Len(r) : r[k].type = "free"
      BY <3>1
    <3>4. Len(q) <= Len(r)
      BY <3>1
    <3> QED
      BY <3>1, <3>2, <3>3, <3>4 DEF Agrees, r
  <2>3. Holds(d, mem[d])'
    <3>1. list' = list /\ mem'[d].parts = t.parts
      BY <1>8, <1>9
    <3>2. \A n \in 1..Len(list) : list[n].sure /\ list[n].part[1] = d => n \in SureOn(d)
      BY DEF SureOn
    <3>3. \A n \in SureOn(d) : /\ list[n].part[2] \in 2..Len(t.parts)
                               /\ t.parts[list[n].part[2]].start = list[n].start
                               /\ t.parts[list[n].part[2]].sectors = list[n].sectors
                               /\ t.parts[list[n].part[2]].type = "data"
      BY <1>4 DEF Holds
    <3>4. \A n \in 1..Len(list) : list[n].sure /\ list[n].part[1] = d =>
            /\ list[n].part[2] \in 2..Len(u.parts)
            /\ u.parts[list[n].part[2]].start = list[n].start
            /\ u.parts[list[n].part[2]].sectors = list[n].sectors
            /\ u.parts[list[n].part[2]].type = "data"
      BY <1>8, <3>2, <3>3
    <3>5. \A n \in 1..Len(list') : list'[n].sure /\ list'[n].part[1] = d =>
            /\ list'[n].part[2] \in 2..Len(u.parts)
            /\ u.parts[list'[n].part[2]].start = list'[n].start
            /\ u.parts[list'[n].part[2]].sectors = list'[n].sectors
            /\ u.parts[list'[n].part[2]].type = "data"
      BY <3>1, <3>4
    <3>6. mem'[d] = u
      BY <1>9
    <3>8. \A n \in SureOn(d)' : n \in 1..Len(list') /\ list'[n].sure /\ list'[n].part[1] = d
      BY DEF SureOn
    <3>9. \A n \in SureOn(d)' : /\ list'[n].part[2] \in 2..Len(mem'[d].parts)
                                /\ mem'[d].parts[list'[n].part[2]].start = list'[n].start
                                /\ mem'[d].parts[list'[n].part[2]].sectors = list'[n].sectors
                                /\ mem'[d].parts[list'[n].part[2]].type = "data"
      BY <3>5, <3>6, <3>8
    <3> QED
      BY <3>9 DEF Holds
  <2>4. "DIRTY" \notin mem'[d].flags
    BY <1>8, <1>9
  <2> QED
    BY <2>1, <2>2, <2>3, <2>4 DEF TableInv
<1>16. ASSUME NEW e \in Drives \ {d}, mem'[e] # NoTable PROVE TableInv(e, mem[e])'
  <2>1. TableInv(e, mem[e]) /\ mem'[e] = mem[e] /\ disk'[e] = disk[e]
    BY <1>7, <1>9, <1>16 DEF MInv
  <2>2. Good(e, mem[e])'
    BY <2>1 DEF TableInv
  <2>3. (Clean(mem[e]) => Agrees(e, mem[e]))'
    BY <2>1 DEF TableInv, Agrees
  <2>4. Holds(e, mem[e])'
    BY <2>1, Zenon DEF TableInv, Holds, SureOn
  <2>5. (UsedBy(e) # {} => Data(disk[e]) \subseteq Data(mem[e].parts)) <=>
        (UsedBy(e) # {} => Data(disk[e]) \subseteq Data(mem[e].parts))'
    BY <2>1 DEF UsedBy, InSet
  <2>6. ("DIRTY" \in mem[e].flags => ToWrite(e) /\ (UsedBy(e) # {} => Data(disk[e]) \subseteq Data(mem[e].parts)))'
    BY <2>1, <2>5 DEF TableInv
  <2> QED
    BY <2>2, <2>3, <2>4, <2>6 DEF TableInv
<1>17. TodoInv'
  <2>1. \A x : FoundIn(t, x) => FoundIn(u, x)
    <3>1. "DIRTY" \in t.flags
      BY DEF t
    <3> QED
      BY <1>8, <1>14, <3>1 DEF FoundIn, Reachable
  <2>2. ASSUME NEW x, x[1] \in Drives, Found(x) PROVE Found(x)'
    <3>1. FoundIn(mem'[x[1]], x)
      BY <1>9, <2>1, <2>2 DEF Found, t
    <3> QED
      BY <3>1 DEF Found, FoundIn
  <2>3. ASSUME NEW k \in 1..Len(todo)
        PROVE  todo[k].app[1] \in Drives /\ todo[k].media[1] \in Drives
    <3>1. todo[k] \in PairType
      BY <1>1 DEF TypeOK
    <3> QED
      BY <3>1 DEF PairType, Part
  <2>4. TodoInv /\ todo' = todo
    BY DEF MInv
  <2> QED
    BY <2>2, <2>3, <2>4 DEF TodoInv
<1> QED
  BY <1>9, <1>10, <1>12, <1>13, <1>14, <1>15, <1>16, <1>17 DEF VolumesSound

LEMMA WriteTableStep ==
  ASSUME MInv, NEW d \in Drives, WriteTable(d)
  PROVE  MInv'
<1>1. /\ stage = "tables" /\ d \in dirty /\ dirty' = dirty \ {d}
      /\ UNCHANGED <<list, todo, stage, runs>>
  BY DEF WriteTable
<1>2. /\ dirty \subseteq Drives /\ todo \in Seq(PairType) /\ mem[d] # NoTable
      /\ \A e \in dirty : mem[e] # NoTable
  BY <1>1 DEF MInv, VolumesSound, TypeOK, StageInv
<1>3. \A e \in Drives \ {d} : ToWrite(e) => ToWrite(e)'
  BY <1>1 DEF ToWrite
<1>4. CASE "DIRTY" \in mem[d].flags
  <2>1. /\ disk' = [disk EXCEPT ![d] = OnDisk(mem[d])]
        /\ mem' = [mem EXCEPT ![d].flags = @ \ {"DIRTY", "NONINIT"}]
    BY <1>4 DEF WriteTable
  <2>2. stage' \in {"idle", "tables", "volumes", "expand", "table", "volume"} /\ dirty' \subseteq Drives
    BY <1>1, <1>2
  <2>3. UNCHANGED <<list, todo>>
    BY <1>1
  <2>4. /\ VolumesSound' /\ (disk["A"] # <<>> /\ \A e \in Drives : RowOn(e, disk[e]))'
        /\ (mem \in [Drives -> Table \cup {NoTable}])'
        /\ (\A e \in Drives : mem[e] # NoTable => TableInv(e, mem[e]))'
        /\ TodoInv'
        /\ mem'[d] # NoTable /\ \A e \in Drives \ {d} : mem'[e] = mem[e]
    BY <1>2, <1>3, <1>4, <2>1, <2>2, <2>3, TableWritten
  <2>5. StageInv'
    <3>1. stage' = "tables"
      BY <1>1
    <3>2. \A e \in dirty' : mem'[e] # NoTable
      BY <1>1, <1>2, <2>4
    <3> QED
      BY <3>1, <3>2 DEF StageInv, Left
  <2> QED
    BY <2>4, <2>5 DEF MInv
<1>5. CASE "DIRTY" \notin mem[d].flags
  <2>1. UNCHANGED <<disk, list, mem, todo, stage>>
    BY <1>1, <1>5 DEF WriteTable
  <2>2. VolumesSound' /\ (disk["A"] # <<>> /\ \A e \in Drives : RowOn(e, disk[e]))'
    <3>1. stage' \in {"idle", "tables", "volumes", "expand", "table", "volume"} /\ dirty' \subseteq Drives
          /\ todo' \in Seq(PairType)
      BY <1>1, <1>2
    <3> QED
      BY <2>1, <3>1, SameDrives
  <2>3. \A e \in Drives : mem[e] # NoTable /\ "DIRTY" \in mem[e].flags => ToWrite(e)'
    <3> TAKE e \in Drives
    <3> HAVE mem[e] # NoTable /\ "DIRTY" \in mem[e].flags
    <3>1. ToWrite(e) /\ e # d
      BY <1>5 DEF MInv, TableInv
    <3> QED
      BY <1>3, <3>1
  <2>4. (\A e \in Drives : mem[e] # NoTable => TableInv(e, mem[e]))'
    BY <2>1, <2>3, SameMemory
  <2>5. TodoInv'
    BY <2>1, SameTodo
  <2>6. StageInv'
    <3>1. stage' = "tables"
      BY <1>1
    <3>2. \A e \in dirty' : mem'[e] # NoTable
      BY <1>1, <1>2, <2>1
    <3> QED
      BY <3>1, <3>2 DEF StageInv, Left
  <2>7. (mem \in [Drives -> Table \cup {NoTable}])'
    BY <2>1 DEF MInv
  <2> QED
    BY <2>2, <2>4, <2>5, <2>6, <2>7 DEF MInv
<1> QED
  BY <1>4, <1>5

LEMMA WriteExpandedStep ==
  ASSUME MInv, WriteExpanded
  PROVE  MInv'
<1> DEFINE d == todo[1].app[1]
<1>1. stage = "table" /\ stage' = "volume" /\ UNCHANGED <<list, todo, dirty>>
  BY DEF WriteExpanded
<1>2. /\ Len(todo) = 1 /\ todo[1].app[1] = todo[1].media[1] /\ mem[d] # NoTable
      /\ "DIRTY" \in mem[d].flags
      /\ \A e \in Left : mem[e] # NoTable /\ Clean(mem[e]) /\ Pins(e, mem[e])
  BY <1>1 DEF MInv, StageInv
<1>3. d \in Drives /\ dirty \subseteq Drives /\ Head(todo).app[1] = d
  <2>1. todo \in Seq(PairType) /\ dirty \subseteq Drives
    BY DEF MInv, VolumesSound, TypeOK
  <2>2. \A k \in 1..Len(todo) : todo[k] \in PairType
    BY <2>1
  <2>3. todo[1] \in PairType /\ Head(todo) = todo[1]
    BY <1>2, <2>1, <2>2
  <2> QED
    BY <2>1, <2>3 DEF PairType, Part
<1>4. /\ stage = "table" /\ stage' = "volume"
      /\ disk' = [disk EXCEPT ![d] = OnDisk(mem[d])]
      /\ mem' = [mem EXCEPT ![d].flags = @ \ {"DIRTY", "NONINIT"}]
      /\ UNCHANGED <<list, todo, dirty>>
  BY <1>1, <1>3 DEF WriteExpanded
<1>5. \A e \in Drives \ {d} : ToWrite(e) => ToWrite(e)'
  BY <1>4 DEF ToWrite
<1>6. stage' \in {"idle", "tables", "volumes", "expand", "table", "volume"} /\ dirty' \subseteq Drives
  BY <1>4, <1>3
<1>7. UNCHANGED <<list, todo>> /\ disk' = [disk EXCEPT ![d] = OnDisk(mem[d])]
      /\ mem' = [mem EXCEPT ![d].flags = @ \ {"DIRTY", "NONINIT"}]
  BY <1>4
<1>8. /\ VolumesSound' /\ (disk["A"] # <<>> /\ \A e \in Drives : RowOn(e, disk[e]))'
      /\ (mem \in [Drives -> Table \cup {NoTable}])'
      /\ (\A e \in Drives : mem[e] # NoTable => TableInv(e, mem[e]))'
      /\ TodoInv'
      /\ mem'[d] # NoTable /\ \A e \in Drives \ {d} : mem'[e] = mem[e]
  <2> HIDE DEF d
  <2> QED
    BY <1>2, <1>3, <1>5, <1>6, <1>7, TableWritten
<1>9. Left = dirty \ {d} /\ Left' = dirty \ {d}
  BY <1>4 DEF Left
<1>10. ASSUME NEW e \in dirty \ {d}
      PROVE  mem'[e] # NoTable /\ Clean(mem[e])' /\ Pins(e, mem[e])'
  <2>1. mem'[e] = mem[e] /\ list' = list
    BY <1>4, <1>3, <1>8, <1>10, Zenon
  <2>2. mem[e] # NoTable /\ Clean(mem[e]) /\ Pins(e, mem[e])
    BY <1>2, <1>9, <1>10
  <2> QED
    BY <2>1, <2>2 DEF Clean, Pins, SureOn
<1>11. StageInv'
  <2>1. \A e \in Left' : mem'[e] # NoTable /\ Clean(mem[e])' /\ Pins(e, mem[e])'
    BY <1>9, <1>10
  <2>2. (Len(todo) = 1 /\ todo[1].app[1] = todo[1].media[1] /\ mem[todo[1].app[1]] # NoTable)'
    BY <1>4, <1>2, <1>8, Zenon
  <2> HIDE DEF d
  <2> QED
    BY <1>4, <2>1, <2>2 DEF StageInv
<1> QED
  BY <1>8, <1>11 DEF MInv

\* The number of a partition that is opened leads to the one made for it, on the drive too.
LEMMA FoundOpen ==
  ASSUME MInv, NEW q \in Part, Opens(mem, q), "DIRTY" \notin mem[q[1]].flags
  PROVE  /\ [part |-> q, start |-> mem[q[1]].parts[q[2]].start,
             sectors |-> mem[q[1]].parts[q[2]].sectors, sure |-> TRUE] \in Volume
         /\ Found(q) =>
              /\ q[2] \in 2..Len(disk[q[1]])
              /\ disk[q[1]][q[2]].start = mem[q[1]].parts[q[2]].start
              /\ disk[q[1]][q[2]].sectors = mem[q[1]].parts[q[2]].sectors
              /\ disk[q[1]][q[2]].type = "data"
              /\ q[2] \in 2..Len(mem[q[1]].parts) /\ mem[q[1]].parts[q[2]].type = "data"
<1> DEFINE d == q[1]
           k == q[2]
           t == mem[d]
<1>1. d \in Drives /\ k \in Nat
  BY DEF Part
<1>2. t # NoTable /\ "NONINIT" \notin t.flags /\ k \in 1..Len(t.parts) /\ "DIRTY" \notin t.flags
  BY DEF Opens
<1>3. TableInv(d, t) /\ disk[d] \in Seq(Stored)
  BY <1>1, <1>2 DEF MInv, VolumesSound, TypeOK
<1> HIDE DEF d, k, t
<1>4. t.parts \in Seq(Entry) /\ Len(t.parts) \in Nat /\ Len(disk[d]) \in Nat
  BY <1>3 DEF TableInv, Good, Table
<1>5. Clean(t) /\ Reachable(t) /\ Agrees(d, t)
  BY <1>2, <1>3 DEF Clean, Reachable, TableInv
<1>6. t.parts[k] \in Entry
  BY <1>2, <1>4
<1>7. t.parts[k].start \in Nat /\ t.parts[k].sectors \in Nat
  BY <1>6 DEF Entry
<1>8. [part |-> q, start |-> t.parts[k].start, sectors |-> t.parts[k].sectors, sure |-> TRUE] \in Volume
  BY <1>7 DEF Volume
<1>9. ASSUME FoundIn(t, q)
      PROVE  /\ k \in 2..Len(disk[d])
             /\ disk[d][k].start = t.parts[k].start
             /\ disk[d][k].sectors = t.parts[k].sectors
             /\ disk[d][k].type = "data"
             /\ k \in 2..Len(t.parts) /\ t.parts[k].type = "data"
  <2>1. k \in 2..Len(t.parts) /\ t.parts[k].type = "data"
    BY <1>5, <1>9 DEF FoundIn, k
  <2>2. ~(k \in (Len(disk[d]) + 1)..Len(t.parts))
    BY <1>5, <2>1 DEF Agrees
  <2>3. k \in 2..Len(disk[d]) /\ k \in 1..Len(disk[d])
    BY <1>1, <1>4, <2>1, <2>2
  <2> QED
    BY <1>5, <2>1, <2>3 DEF Agrees
<1> QED
  BY <1>8, <1>9 DEF Found, d, k, t

\* What the list says of its sure volumes, asked after a step that leaves the drives alone.
LEMMA StayNext ==
  ASSUME disk' = disk,
         \A n \in 1..Len(list') : list'[n].sure =>
           /\ list'[n].part[2] \in 2..Len(disk[list'[n].part[1]])
           /\ disk[list'[n].part[1]][list'[n].part[2]].start = list'[n].start
           /\ disk[list'[n].part[1]][list'[n].part[2]].sectors = list'[n].sectors
  PROVE  Stay(list, disk)'
<1>1. \A n \in 1..Len(list') : list'[n].sure =>
        /\ list'[n].part[2] \in 2..Len(disk'[list'[n].part[1]])
        /\ disk'[list'[n].part[1]][list'[n].part[2]].start = list'[n].start
        /\ disk'[list'[n].part[1]][list'[n].part[2]].sectors = list'[n].sectors
  OBVIOUS
<1> QED
  BY <1>1 DEF Stay

LEMMA SureNext ==
  ASSUME disk' = disk,
         \A n \in 1..Len(list') : list'[n].sure =>
           disk[list'[n].part[1]][list'[n].part[2]].type = "data",
         \A n \in 1..Len(list') : list'[n].sure =>
           \A l \in 1..(n - 1) : list'[l].sure => list'[l].part # list'[n].part
  PROVE  Sure(list, disk)'
<1>1. \A n \in 1..Len(list') : list'[n].sure =>
        disk'[list'[n].part[1]][list'[n].part[2]].type = "data"
  OBVIOUS
<1> QED
  BY <1>1 DEF Sure

\* mfs_add_volume_pair: the first of the pairs joins the set.
Grows(p) == list' = list \o <<Added(p.app, p.sure), Added(p.media, p.sure)>>
FirstOfTodo == todo[1]

LEMMA ListGrows ==
  ASSUME MInv, todo # <<>>, PairFits(FirstOfTodo),
         \A d \in Drives : mem[d] # NoTable => "DIRTY" \notin mem[d].flags,
         Grows(FirstOfTodo),
         UNCHANGED <<disk, mem>>, todo' \in Seq(PairType), dirty' \subseteq Drives,
         stage' \in {"idle", "tables", "volumes", "expand", "table", "volume"}
  PROVE  /\ VolumesSound' /\ (disk["A"] # <<>> /\ \A e \in Drives : RowOn(e, disk[e]))'
         /\ (mem \in [Drives -> Table \cup {NoTable}])'
         /\ (\A e \in Drives : mem[e] # NoTable => TableInv(e, mem[e]))'
         /\ \A q : Found(q) /\ (FirstOfTodo.sure => q # FirstOfTodo.app /\ q # FirstOfTodo.media) => Found(q)'
         /\ \A e \in Drives \ {FirstOfTodo.app[1], FirstOfTodo.media[1]} : SureOn(e)' = SureOn(e)
         /\ Len(list') = Len(list) + 2 /\ \A n \in 1..Len(list) : list'[n] = list[n]
<1> DEFINE a == Added(FirstOfTodo.app, FirstOfTodo.sure)
           m == Added(FirstOfTodo.media, FirstOfTodo.sure)
           N == Len(list)
<1>1. /\ list \in Seq(Volume) /\ N \in Nat /\ todo \in Seq(PairType)
      /\ Stay(list, disk) /\ Sure(list, disk)
      /\ mem \in [Drives -> Table \cup {NoTable}]
  BY DEF MInv, VolumesSound, TypeOK
<1>2. FirstOfTodo \in PairType
  <2>1. 1 \in 1..Len(todo)
    BY <1>1
  <2> QED
    BY <1>1, <2>1 DEF FirstOfTodo
<1>3. FirstOfTodo.app \in Part /\ FirstOfTodo.media \in Part /\ FirstOfTodo.sure \in BOOLEAN
      /\ FirstOfTodo.app[1] \in Drives /\ FirstOfTodo.media[1] \in Drives
  BY <1>2 DEF PairType, Part
<1>4. Opens(mem, FirstOfTodo.app) /\ Opens(mem, FirstOfTodo.media)
  BY DEF PairFits, FitsWith
<1>5. "DIRTY" \notin mem[FirstOfTodo.app[1]].flags /\ "DIRTY" \notin mem[FirstOfTodo.media[1]].flags
  BY <1>3, <1>4 DEF Opens
<1>6. \A q \in {FirstOfTodo.app, FirstOfTodo.media} :
        LET d == q[1]  k == q[2]
        IN  /\ [part |-> q, start |-> mem[d].parts[k].start,
                sectors |-> mem[d].parts[k].sectors, sure |-> TRUE] \in Volume
            /\ Found(q) =>
                 /\ k \in 2..Len(disk[d])
                 /\ disk[d][k].start = mem[d].parts[k].start
                 /\ disk[d][k].sectors = mem[d].parts[k].sectors
                 /\ disk[d][k].type = "data"
                 /\ k \in 2..Len(mem[d].parts) /\ mem[d].parts[k].type = "data"
  BY <1>3, <1>4, <1>5, FoundOpen, Zenon
<1>7. \A q \in {FirstOfTodo.app, FirstOfTodo.media} :
        /\ Added(q, FirstOfTodo.sure) \in Volume /\ Added(q, FirstOfTodo.sure).part = q
        /\ Added(q, FirstOfTodo.sure).sure = FirstOfTodo.sure
        /\ Added(q, FirstOfTodo.sure).start = mem[q[1]].parts[q[2]].start
        /\ Added(q, FirstOfTodo.sure).sectors = mem[q[1]].parts[q[2]].sectors
  BY <1>3, <1>6, Zenon DEF Added, Volume
<1>8. /\ a \in Volume /\ a.part = FirstOfTodo.app /\ a.sure = FirstOfTodo.sure
      /\ m \in Volume /\ m.part = FirstOfTodo.media /\ m.sure = FirstOfTodo.sure
  BY <1>7
<1> HIDE DEF a, m
<1>9. list' = list \o <<a, m>>
  BY DEF a, m, Grows
<1>10. /\ list' \in Seq(Volume) /\ Len(list') = N + 2
       /\ list'[N + 1] = a /\ list'[N + 2] = m
       /\ \A n \in 1..N : list'[n] = list[n]
  BY <1>1, <1>8, <1>9
<1>11. TodoInv
  BY DEF MInv
<1>12. FirstOfTodo.sure => /\ Found(FirstOfTodo.app) /\ Found(FirstOfTodo.media)
                         /\ FirstOfTodo.app # FirstOfTodo.media
  <2>1. 1 \in 1..Len(todo)
    BY <1>1
  <2> QED
    BY <1>11, <2>1 DEF TodoInv, FirstOfTodo
<1> HIDE DEF N
<1>13. \A n \in 1..Len(list') : n \in 1..N \/ n = N + 1 \/ n = N + 2
  BY <1>1, <1>10 DEF N
<1>14. ASSUME FirstOfTodo.sure, NEW v \in {a, m}
       PROVE  LET d == v.part[1]  k == v.part[2]
              IN  /\ k \in 2..Len(disk[d]) /\ disk[d][k].start = v.start
                  /\ disk[d][k].sectors = v.sectors /\ disk[d][k].type = "data"
                  /\ k \in 2..Len(mem[d].parts) /\ mem[d].parts[k].start = v.start
                  /\ mem[d].parts[k].sectors = v.sectors /\ mem[d].parts[k].type = "data"
                  /\ \A n \in 1..N : list[n].sure => list[n].part # v.part
  <2>1. PICK q \in {FirstOfTodo.app, FirstOfTodo.media} : v = Added(q, FirstOfTodo.sure)
    BY <1>14 DEF a, m
  <2>2. /\ v.part = q /\ v.start = mem[q[1]].parts[q[2]].start
        /\ v.sectors = mem[q[1]].parts[q[2]].sectors
    BY <1>7, <2>1
  <2>3. Found(q)
    BY <1>12, <1>14
  <2>4. \A n \in 1..N : list[n].sure => list[n].part # q
    BY <2>3 DEF Found, FoundIn, N
  <2>5. LET d == q[1]  k == q[2]
        IN  /\ k \in 2..Len(disk[d])
            /\ disk[d][k].start = mem[d].parts[k].start
            /\ disk[d][k].sectors = mem[d].parts[k].sectors
            /\ disk[d][k].type = "data"
            /\ k \in 2..Len(mem[d].parts) /\ mem[d].parts[k].type = "data"
    BY <1>6, <2>3, Zenon
  <2> QED
    BY <2>2, <2>4, <2>5
<1>15. Stay(list, disk)'
  <2>1. ASSUME NEW n \in 1..Len(list'), list'[n].sure
        PROVE  /\ list'[n].part[2] \in 2..Len(disk[list'[n].part[1]])
               /\ disk[list'[n].part[1]][list'[n].part[2]].start = list'[n].start
               /\ disk[list'[n].part[1]][list'[n].part[2]].sectors = list'[n].sectors
    <3>1. CASE n \in 1..N
      <4>1. list'[n] = list[n] /\ n \in 1..Len(list)
        BY <1>10, <3>1 DEF N
      <4> QED
        BY <1>1, <2>1, <4>1, SMTT(30) DEF Stay
    <3>2. CASE n = N + 1 \/ n = N + 2
      <4>1. list'[n] \in {a, m} /\ FirstOfTodo.sure
        BY <1>8, <1>10, <2>1, <3>2
      <4> QED
        BY <1>14, <4>1
    <3> QED
      BY <1>13, <3>1, <3>2
  <2>2. disk' = disk
    OBVIOUS
  <2> QED
    BY <2>1, <2>2, StayNext
<1>16. Sure(list, disk)'
  <2>1. ASSUME NEW n \in 1..Len(list'), list'[n].sure
        PROVE  disk[list'[n].part[1]][list'[n].part[2]].type = "data"
    <3>1. CASE n \in 1..N
      <4>1. list'[n] = list[n] /\ n \in 1..Len(list)
        BY <1>10, <3>1 DEF N
      <4> QED
        BY <1>1, <2>1, <4>1 DEF Sure
    <3>2. CASE n = N + 1 \/ n = N + 2
      <4>1. list'[n] \in {a, m} /\ FirstOfTodo.sure
        BY <1>8, <1>10, <2>1, <3>2
      <4> QED
        BY <1>14, <4>1
    <3> QED
      BY <1>13, <3>1, <3>2
  <2>2. ASSUME NEW n \in 1..Len(list'), list'[n].sure, NEW l \in 1..(n - 1), list'[l].sure
        PROVE  list'[l].part # list'[n].part
    <3>1. CASE n \in 1..N
      <4>1. list'[n] = list[n] /\ n \in 1..Len(list) /\ l \in 1..N
        BY <1>1, <1>10, <3>1 DEF N
      <4>2. list'[l] = list[l]
        BY <1>10, <4>1
      <4> QED
        BY <1>1, <2>2, <4>1, <4>2 DEF Sure
    <3>2. CASE (n = N + 1 \/ n = N + 2) /\ l \in 1..N
      <4>1. list'[n] \in {a, m} /\ FirstOfTodo.sure /\ list'[l] = list[l]
        BY <1>8, <1>10, <2>2, <3>2
      <4> QED
        BY <1>14, <2>2, <3>2, <4>1, SMTT(30)
    <3>3. CASE n = N + 2 /\ l = N + 1
      <4>1. list'[n] = m /\ list'[l] = a /\ FirstOfTodo.sure
        BY <1>8, <1>10, <2>2, <3>3
      <4> QED
        BY <1>8, <1>12, <4>1
    <3> QED
      <4>1. N \in Nat
        BY <1>1 DEF N
      <4>2. l \in 1..N \/ (n = N + 2 /\ l = N + 1) \/ n \in 1..N
        BY <1>13, <4>1
      <4> QED
        BY <1>13, <3>1, <3>2, <3>3, <4>2
  <2>3. disk' = disk
    OBVIOUS
  <2> QED
    BY <2>1, <2>2, <2>3, SureNext
<1>17. VolumesSound'
  BY <1>10, <1>15, <1>16 DEF VolumesSound, TypeOK, MInv
<1>18. (disk["A"] # <<>> /\ \A e \in Drives : RowOn(e, disk[e]))'
  BY DEF MInv
<1>19. ASSUME NEW e \in Drives, mem'[e] # NoTable PROVE TableInv(e, mem[e])'
  <2>1. TableInv(e, mem[e]) /\ "DIRTY" \notin mem[e].flags
    BY <1>19 DEF MInv
  <2>2. Good(e, mem[e])'
    BY <2>1 DEF TableInv
  <2>3. (Clean(mem[e]) => Agrees(e, mem[e]))'
    BY <2>1 DEF TableInv, Agrees
  <2>4. Holds(e, mem[e])'
    <3> DEFINE u == mem[e]
    <3>1. ASSUME NEW n \in 1..Len(list'), list'[n].sure, list'[n].part[1] = e
          PROVE  /\ list'[n].part[2] \in 2..Len(u.parts)
                 /\ u.parts[list'[n].part[2]].start = list'[n].start
                 /\ u.parts[list'[n].part[2]].sectors = list'[n].sectors
                 /\ u.parts[list'[n].part[2]].type = "data"
      <4>1. CASE n \in 1..N
        <5>1. list'[n] = list[n] /\ n \in 1..Len(list)
          BY <1>10, <4>1 DEF N
        <5>2. n \in SureOn(e)
          BY <3>1, <5>1 DEF SureOn
        <5>3. Holds(e, u)
          BY <2>1 DEF TableInv
        <5> HIDE DEF u
        <5> QED
          BY <5>1, <5>2, <5>3 DEF Holds
      <4>2. CASE n = N + 1 \/ n = N + 2
        <5>1. list'[n] \in {a, m} /\ FirstOfTodo.sure
          BY <1>8, <1>10, <3>1, <4>2
        <5> QED
          BY <1>14, <3>1, <5>1, Zenon
      <4> QED
        BY <1>13, <3>1, <4>1, <4>2
    <3>2. mem'[e] = u
      OBVIOUS
    <3> HIDE DEF u
    <3>3. \A n \in 1..Len(list') : list'[n].sure /\ list'[n].part[1] = e =>
            /\ list'[n].part[2] \in 2..Len(u.parts)
            /\ u.parts[list'[n].part[2]].start = list'[n].start
            /\ u.parts[list'[n].part[2]].sectors = list'[n].sectors
            /\ u.parts[list'[n].part[2]].type = "data"
      BY <3>1
    <3>8. \A n \in SureOn(e)' : n \in 1..Len(list') /\ list'[n].sure /\ list'[n].part[1] = e
      BY DEF SureOn
    <3>9. \A n \in SureOn(e)' : /\ list'[n].part[2] \in 2..Len(mem'[e].parts)
                                /\ mem'[e].parts[list'[n].part[2]].start = list'[n].start
                                /\ mem'[e].parts[list'[n].part[2]].sectors = list'[n].sectors
                                /\ mem'[e].parts[list'[n].part[2]].type = "data"
      BY <3>2, <3>3, <3>8
    <3> QED
      BY <3>9 DEF Holds
  <2> QED
    BY <2>1, <2>2, <2>3, <2>4 DEF TableInv
<1>20. ASSUME NEW q, Found(q), FirstOfTodo.sure => q # FirstOfTodo.app /\ q # FirstOfTodo.media PROVE Found(q)'
  <2>1. \A n \in 1..Len(list') : list'[n].sure => list'[n].part # q
    <3> TAKE n \in 1..Len(list')
    <3> HAVE list'[n].sure
    <3>1. CASE n \in 1..N
      BY <1>10, <1>20, <3>1 DEF Found, FoundIn, N
    <3>2. CASE n = N + 1 \/ n = N + 2
      BY <1>8, <1>10, <1>20, <3>2
    <3> QED
      BY <1>13, <3>1, <3>2
  <2> QED
    BY <1>20, <2>1 DEF Found, FoundIn
<1>21. ASSUME NEW e \in Drives \ {FirstOfTodo.app[1], FirstOfTodo.media[1]} PROVE SureOn(e)' = SureOn(e)
  <2>1. list'[N + 1].part[1] # e /\ list'[N + 2].part[1] # e
    BY <1>8, <1>10
  <2>2. N \in Nat /\ \A n \in 1..N : n \in 1..Len(list')
    BY <1>1, <1>10 DEF N
  <2> QED
    BY <1>10, <1>13, <2>1, <2>2 DEF SureOn, N
<1> QED
  BY <1>1, <1>10, <1>17, <1>18, <1>19, <1>20, <1>21 DEF N

LEMMA FirstPair ==
  ASSUME MInv, todo # <<>>
  PROVE  /\ todo \in Seq(PairType) /\ Len(todo) \in Nat /\ Len(todo) >= 1
         /\ Head(todo) = todo[1] /\ todo[1] \in PairType /\ todo[1].app[1] \in Drives
         /\ dirty \subseteq Drives
<1>1. todo \in Seq(PairType) /\ dirty \subseteq Drives
  BY DEF MInv, VolumesSound, TypeOK
<1>2. Len(todo) \in Nat /\ Len(todo) >= 1 /\ Head(todo) = todo[1]
  BY <1>1
<1>3. \A k \in 1..Len(todo) : todo[k] \in PairType
  BY <1>1
<1>4. todo[1] \in PairType
  BY <1>2, <1>3
<1> QED
  BY <1>1, <1>2, <1>4 DEF PairType, Part

LEMMA AddPairStep ==
  ASSUME MInv, AddPair
  PROVE  MInv'
<1> DEFINE p == FirstOfTodo
<1>1. stage = "volumes" /\ todo # <<>> /\ UNCHANGED <<disk, mem, dirty, stage>> /\ todo' = Tail(todo)
  BY DEF AddPair
<1>2. /\ todo \in Seq(PairType) /\ Len(todo) \in Nat /\ Len(todo) >= 1
      /\ Head(todo) = p /\ dirty \subseteq Drives
  BY <1>1, FirstPair DEF FirstOfTodo
<1>3. PairFits(p) /\ Grows(p)
  BY <1>2 DEF AddPair, Grows
<1>4. \A d \in Drives : mem[d] # NoTable => "DIRTY" \notin mem[d].flags
  BY <1>1 DEF MInv, TableInv, ToWrite
<1>5. /\ todo' \in Seq(PairType) /\ Len(todo') = Len(todo) - 1
      /\ \A k \in 1..Len(todo') : todo'[k] = todo[k + 1] /\ k + 1 \in 1..Len(todo) /\ k + 1 # 1
  BY <1>1, <1>2
<1>6. stage' \in {"idle", "tables", "volumes", "expand", "table", "volume"} /\ dirty' \subseteq Drives
  BY <1>1, <1>2
<1>7. /\ VolumesSound' /\ (disk["A"] # <<>> /\ \A e \in Drives : RowOn(e, disk[e]))'
      /\ (mem \in [Drives -> Table \cup {NoTable}])'
      /\ (\A e \in Drives : mem[e] # NoTable => TableInv(e, mem[e]))'
      /\ \A q : Found(q) /\ (p.sure => q # p.app /\ q # p.media) => Found(q)'
  BY <1>1, <1>3, <1>4, <1>5, <1>6, ListGrows, Zenon
<1>8. TodoInv'
  <2>1. /\ \A k \in 1..Len(todo) : todo[k].sure =>
             Found(todo[k].app) /\ Found(todo[k].media) /\ todo[k].app # todo[k].media
        /\ \A k, l \in 1..Len(todo) : todo[k].sure /\ todo[l].sure /\ k # l =>
             {todo[k].app, todo[k].media} \cap {todo[l].app, todo[l].media} = {}
    BY DEF MInv, TodoInv
  <2>2. 1 \in 1..Len(todo)
    BY <1>2
  <2>3. ASSUME NEW k \in 1..Len(todo'), todo'[k].sure
        PROVE  Found(todo[k].app)' /\ Found(todo[k].media)' /\ todo'[k].app # todo'[k].media
    <3> DEFINE q == todo[k + 1]
    <3>1. todo'[k] = q /\ q.sure /\ k + 1 \in 1..Len(todo) /\ k + 1 # 1
      BY <1>5, <2>3
    <3>2. Found(q.app) /\ Found(q.media) /\ q.app # q.media
      BY <2>1, <3>1
    <3>3. p.sure => {q.app, q.media} \cap {p.app, p.media} = {}
      BY <2>1, <2>2, <3>1
    <3> HIDE DEF q, p
    <3>4. PICK x, y : x = q.app /\ y = q.media
      OBVIOUS
    <3>5. p.sure => x # p.app /\ x # p.media /\ y # p.app /\ y # p.media
      BY <3>3, <3>4
    <3>6. Found(x) /\ Found(y)
      BY <3>2, <3>4
    <3>7. Found(x)' /\ Found(y)'
      BY <1>7, <3>5, <3>6
    <3>8. todo'[k].app = x /\ todo'[k].media = y
      BY <3>1, <3>4
    <3> QED
      BY <3>2, <3>4, <3>7, <3>8
  <2>4. ASSUME NEW k \in 1..Len(todo'), NEW l \in 1..Len(todo'), todo'[k].sure, todo'[l].sure, k # l
        PROVE  {todo'[k].app, todo'[k].media} \cap {todo'[l].app, todo'[l].media} = {}
    <3>1. /\ todo'[k] = todo[k + 1] /\ todo'[l] = todo[l + 1] /\ k + 1 # l + 1
          /\ k + 1 \in 1..Len(todo) /\ l + 1 \in 1..Len(todo)
      BY <1>5, <2>4
    <3> QED
      BY <2>1, <2>4, <3>1
  <2> QED
    BY <2>3, <2>4 DEF TodoInv
<1>9. StageInv'
  BY <1>1 DEF StageInv, Left
<1> QED
  BY <1>7, <1>8, <1>9 DEF MInv

LEMMA AddExpandedStep ==
  ASSUME MInv, AddExpanded
  PROVE  MInv'
<1> DEFINE p == FirstOfTodo
           d == p.app[1]
<1>1. stage = "volume" /\ UNCHANGED <<disk, mem>> /\ todo' = <<>> /\ stage' = "expand"
  BY DEF AddExpanded
<1>2. /\ Len(todo) = 1 /\ p.media[1] = d /\ mem[d] # NoTable
      /\ \A e \in Left : mem[e] # NoTable /\ Clean(mem[e]) /\ Pins(e, mem[e])
  BY <1>1 DEF MInv, StageInv, FirstOfTodo
<1>3. todo # <<>>
  BY <1>2
<1>4. Head(todo) = p /\ d \in Drives /\ dirty \subseteq Drives
  BY <1>3, FirstPair DEF FirstOfTodo
<1>5. PairFits(p) /\ Grows(p) /\ dirty' = dirty \ {d}
  BY <1>4 DEF AddExpanded, Grows
<1>6. \A e \in Drives : mem[e] # NoTable => "DIRTY" \notin mem[e].flags
  BY <1>1 DEF MInv, TableInv, ToWrite
<1>7. /\ stage' \in {"idle", "tables", "volumes", "expand", "table", "volume"} /\ dirty' \subseteq Drives
      /\ todo' \in Seq(PairType)
  BY <1>1, <1>4, <1>5
<1>8. /\ VolumesSound' /\ (disk["A"] # <<>> /\ \A e \in Drives : RowOn(e, disk[e]))'
      /\ (mem \in [Drives -> Table \cup {NoTable}])'
      /\ (\A e \in Drives : mem[e] # NoTable => TableInv(e, mem[e]))'
      /\ \A e \in Drives \ {p.app[1], p.media[1]} : SureOn(e)' = SureOn(e)
      /\ Len(list') = Len(list) + 2 /\ \A n \in 1..Len(list) : list'[n] = list[n]
  BY <1>1, <1>3, <1>5, <1>6, <1>7, ListGrows, Zenon
<1>9. TodoInv'
  BY <1>1, EmptyTodo
<1>10. Left = dirty \ {d} /\ Left' = dirty \ {d}
  BY <1>1, <1>5 DEF Left, FirstOfTodo
<1>11. ASSUME NEW e \in dirty \ {d}
       PROVE  mem'[e] # NoTable /\ Clean(mem[e])' /\ Pins(e, mem[e])'
  <2>1. mem[e] # NoTable /\ Clean(mem[e]) /\ Pins(e, mem[e])
    BY <1>2, <1>10, <1>11
  <2>2. SureOn(e)' = SureOn(e)
    BY <1>2, <1>4, <1>8, <1>11
  <2>3. \A n \in SureOn(e) : list'[n] = list[n]
    BY <1>8 DEF SureOn
  <2> QED
    BY <1>1, <2>1, <2>2, <2>3 DEF Clean, Pins
<1>12. StageInv'
  BY <1>1, <1>10, <1>11 DEF StageInv
<1> QED
  BY <1>8, <1>9, <1>12 DEF MInv

\* The pair that is made on a drive to be expanded.
LEMMA CarvedFacts ==
  ASSUME NEW d \in Drives, mem \in [Drives -> Table \cup {NoTable}], Good(d, mem[d]),
         NEW s, s = Carved(d, Validated(d, mem[d])), s.ok
  PROVE  \E r, p : s.mem = [mem EXCEPT ![d] = r] /\ s.pairs = <<p>> /\ PairIn(d, mem[d], r, p)
<1> DEFINE v == Validated(d, mem[d])
           w == v.table
           m == [mem EXCEPT ![d] = w]
           s0 == [ok |-> TRUE, mem |-> m, pairs |-> <<>>]
<1>1. Stretched(d, mem[d], w) /\ (v.ok => CoveredOn(d, w.parts))
  BY ValidOne DEF Stretched
<1>2. s = Carve(s0, d, TotalFree(v), LargestFree(v))
  BY DEF Carved
<1>3. LargestFree(v) \in 0..DevSize[d]
  BY <1>1, LargestFreeFits DEF Stretched
<1> HIDE DEF v, w
<1>4. m[d] = w /\ \A r : [m EXCEPT ![d] = r] = [mem EXCEPT ![d] = r]
  OBVIOUS
<1> HIDE DEF m
<1>5. s0.mem = m /\ s0.pairs = <<>>
  OBVIOUS
<1> HIDE DEF s0
<1>6. Good(d, s0.mem[d])
  BY <1>1, <1>4, <1>5 DEF Stretched
<1>7. PICK r, p : WithPair(s0, d, s, r, p)
  BY <1>2, <1>3, <1>6, CarveFacts
<1>8. s.mem = [mem EXCEPT ![d] = r] /\ s.pairs = Append(<<>>, p) /\ PairIn(d, w, r, p)
  BY <1>4, <1>5, <1>7 DEF WithPair
<1>9. Append(<<>>, p) = <<p>>
  OBVIOUS
<1>10. PairIn(d, mem[d], r, p)
  BY <1>1, <1>8, StretchedPair
<1> QED
  BY <1>8, <1>9, <1>10

LEMMA ExpandDriveStep ==
  ASSUME MInv, NEW d \in Drives, ExpandDrive(d)
  PROVE  MInv'
<1>1. stage = "expand" /\ d \in dirty /\ UNCHANGED <<disk, list>>
  BY DEF ExpandDrive
<1>2. /\ todo = <<>> /\ Left = dirty
      /\ \A e \in dirty : mem[e] # NoTable /\ Clean(mem[e]) /\ Pins(e, mem[e])
  BY <1>1 DEF MInv, StageInv, Left
<1>3. /\ dirty \subseteq Drives /\ todo \in Seq(PairType) /\ list \in Seq(Volume)
      /\ disk \in [Drives -> Seq(Stored)] /\ mem \in [Drives -> Table \cup {NoTable}]
      /\ \A e \in Drives : mem[e] # NoTable => TableInv(e, mem[e])
  BY DEF MInv, VolumesSound, TypeOK
<1>4. \A e \in Drives : mem[e] # NoTable => "DIRTY" \notin mem[e].flags
  BY <1>1, <1>3 DEF TableInv, ToWrite
<1>5. CASE Worthwhile(d)
  <2>1. PICK s \in {Carved(d, Validated(d, mem[d]))} :
          s.ok /\ mem' = s.mem /\ todo' = s.pairs /\ stage' = "table" /\ dirty' = dirty
    BY <1>5 DEF ExpandDrive
  <2>2. mem[d] # NoTable /\ Clean(mem[d]) /\ Pins(d, mem[d]) /\ TableInv(d, mem[d])
    BY <1>1, <1>2, <1>3
  <2>3. Good(d, mem[d]) /\ Holds(d, mem[d]) /\ Agrees(d, mem[d]) /\ mem[d] \in Table
    BY <2>2 DEF TableInv, Good
  <2>4. Data(disk[d]) = Data(mem[d].parts)
    BY <1>3, <2>3, AgreesData
  <2>5. Base(d, mem[d])
    BY <1>4, <2>2, <2>3, <2>4 DEF Base
  <2>6. PICK r, p : s.mem = [mem EXCEPT ![d] = r] /\ s.pairs = <<p>> /\ PairIn(d, mem[d], r, p)
    BY <1>3, <2>1, <2>3, CarvedFacts
  <2>7. p \in PairType /\ p.app[1] = d /\ p.media[1] = d
    BY <2>6 DEF PairIn
  <2>8. /\ Good(d, r) /\ "DIRTY" \in r.flags /\ Holds(d, r)
        /\ UsedBy(d) # {} => Data(disk[d]) \subseteq Data(r.parts)
        /\ p.sure => FoundIn(r, p.app) /\ FoundIn(r, p.media) /\ p.app # p.media
    BY <1>3, <2>5, <2>6, PairBase
  <2>9. r \in Table /\ r # NoTable
    BY <2>8, NoTableApart DEF Good
  <2>10. /\ mem' \in [Drives -> Table \cup {NoTable}] /\ mem'[d] = r
         /\ \A e \in Drives \ {d} : mem'[e] = mem[e]
    BY <1>3, <2>1, <2>6, <2>9
  <2>11. todo' = <<p>> /\ todo' \in Seq(PairType) /\ Len(todo') = 1 /\ todo'[1] = p
    BY <2>1, <2>6, <2>7
  <2>12. VolumesSound' /\ (disk["A"] # <<>> /\ \A e \in Drives : RowOn(e, disk[e]))'
    BY <1>1, <1>3, <2>1, <2>11, SameDrives
  <2>13. TableInv(d, mem[d])'
    <3>1. Good(d, mem[d])' /\ Holds(d, mem[d])' /\ ~Clean(mem[d])'
      BY <1>1, <2>8, <2>10 DEF Holds, SureOn, Clean
    <3>2. ToWrite(d)'
      BY <2>1, <2>7, <2>11 DEF ToWrite
    <3>3. (UsedBy(d) # {} => Data(disk[d]) \subseteq Data(mem[d].parts))'
      <4>1. UsedBy(d)' = UsedBy(d)
        BY <1>1 DEF UsedBy, InSet
      <4> QED
        BY <1>1, <2>8, <2>10, <4>1
    <3> QED
      BY <3>1, <3>2, <3>3 DEF TableInv
  <2>14. ASSUME NEW e \in Drives \ {d}, mem'[e] # NoTable PROVE TableInv(e, mem[e])'
    <3>1. mem'[e] = mem[e] /\ TableInv(e, mem[e]) /\ "DIRTY" \notin mem[e].flags
      BY <1>3, <1>4, <2>10, <2>14
    <3>2. Good(e, mem[e])'
      BY <3>1 DEF TableInv
    <3>3. (Clean(mem[e]) => Agrees(e, mem[e]))'
      BY <1>1, <3>1 DEF TableInv, Agrees
    <3>4. Holds(e, mem[e])'
      BY <1>1, <3>1, Zenon DEF TableInv, Holds, SureOn
    <3> QED
      BY <3>1, <3>2, <3>3, <3>4 DEF TableInv
  <2>15. TodoInv'
    <3>1. \A t, q : FoundIn(t, q)' <=> FoundIn(t, q)
      BY <1>1 DEF FoundIn
    <3>2. p.sure => Found(p.app)' /\ Found(p.media)'
      BY <2>7, <2>8, <2>10, <3>1 DEF Found
    <3>3. \A k \in 1..Len(todo') : k = 1
      BY <2>11
    <3> QED
      BY <2>8, <2>11, <3>2, <3>3 DEF TodoInv
  <2>16. StageInv'
    <3>1. Left' = dirty \ {d}
      BY <2>1, <2>7, <2>11 DEF Left
    <3>2. ASSUME NEW e \in dirty \ {d}
          PROVE  mem'[e] # NoTable /\ Clean(mem[e])' /\ Pins(e, mem[e])'
      <4>1. mem'[e] = mem[e] /\ mem[e] # NoTable /\ Clean(mem[e]) /\ Pins(e, mem[e])
        BY <1>2, <1>3, <2>10, <3>2
      <4> QED
        BY <1>1, <4>1 DEF Clean, Pins, SureOn
    <3> QED
      BY <2>1, <2>7, <2>8, <2>9, <2>10, <2>11, <3>1, <3>2 DEF StageInv
  <2> QED
    BY <2>10, <2>12, <2>13, <2>14, <2>15, <2>16 DEF MInv
<1>6. CASE ~Worthwhile(d)
  <2>1. dirty' = dirty \ {d} /\ UNCHANGED <<disk, list, mem, todo, stage>>
    BY <1>6 DEF ExpandDrive
  <2>2. stage' \in {"idle", "tables", "volumes", "expand", "table", "volume"} /\ dirty' \subseteq Drives
        /\ todo' \in Seq(PairType)
    BY <1>1, <1>3, <2>1
  <2>3. VolumesSound' /\ (disk["A"] # <<>> /\ \A e \in Drives : RowOn(e, disk[e]))'
    BY <2>1, <2>2, SameDrives
  <2>4. (\A e \in Drives : mem[e] # NoTable => TableInv(e, mem[e]))'
    BY <1>4, <2>1, SameMemory
  <2>5. TodoInv'
    BY <2>1, SameTodo
  <2>6. StageInv'
    <3>1. Left' = dirty \ {d}
      BY <1>1, <2>1 DEF Left
    <3>2. ASSUME NEW e \in dirty \ {d}
          PROVE  mem'[e] # NoTable /\ Clean(mem[e])' /\ Pins(e, mem[e])'
      BY <1>2, <2>1, <3>2 DEF Clean, Pins, SureOn
    <3> QED
      BY <1>1, <1>2, <2>1, <3>1, <3>2 DEF StageInv
  <2>7. (mem \in [Drives -> Table \cup {NoTable}])'
    BY <1>3, <2>1
  <2> QED
    BY <2>3, <2>4, <2>5, <2>6, <2>7 DEF MInv
<1> QED
  BY <1>5, <1>6

-----------------------------------------------------------------------------
(* The theorems.                                                             *)

\* The tables the first run finds tile their drives, as those of a TiVo do.
ProperMaps == \A d \in Drives : RowOn(d, disk[d])

LEMMA InitInv ==
  ASSUME Init, ProperMaps
  PROVE  MInv
<1>1. PICK w \in Worlds : disk = w.disk /\ list = w.list
  BY DEF Init
<1>2. /\ disk \in [Drives -> Seq(Stored)] /\ disk["A"] # <<>> /\ list \in Seq(Volume)
      /\ Stay(list, disk) /\ Sure(list, disk)
  BY <1>1, WorldsAssumption
<1>3. /\ mem = [d \in Drives |-> NoTable] /\ todo = <<>> /\ dirty = {} /\ stage = "idle"
  BY DEF Init
<1>4. todo \in Seq(PairType)
  BY <1>3
<1>5. VolumesSound
  BY <1>2, <1>3, <1>4 DEF VolumesSound, TypeOK
<1>6. mem \in [Drives -> Table \cup {NoTable}] /\ \A d \in Drives : mem[d] = NoTable
  BY <1>3
<1>7. TodoInv
  BY <1>3 DEF TodoInv
<1>8. StageInv
  BY <1>3, <1>6 DEF StageInv, Left
<1> QED
  BY <1>2, <1>5, <1>6, <1>7, <1>8 DEF MInv, ProperMaps

LEMMA StepInv ==
  ASSUME MInv, [Next]_vars
  PROVE  MInv'
<1>1. CASE \E o \in Options : Run(o)
  BY <1>1, RunStep
<1>2. CASE \E d \in Drives : WriteTable(d)
  BY <1>2, WriteTableStep
<1>3. CASE TablesWritten
  BY <1>3, TablesWrittenStep
<1>4. CASE AddPair
  BY <1>4, AddPairStep
<1>5. CASE \E b \in BOOLEAN : StartExpand(b)
  BY <1>5, StartExpandStep
<1>6. CASE \E d \in Drives : ExpandDrive(d)
  BY <1>6, ExpandDriveStep
<1>7. CASE WriteExpanded
  BY <1>7, WriteExpandedStep
<1>8. CASE AddExpanded
  BY <1>8, AddExpandedStep
<1>9. CASE ToolEnds
  BY <1>9, ToolEndsStep
<1>10. CASE UNCHANGED vars
  <2>1. UNCHANGED <<disk, list, mem, todo, dirty, stage>>
    BY <1>10 DEF vars
  <2>2. VolumesSound' /\ (disk["A"] # <<>> /\ \A d \in Drives : RowOn(d, disk[d]))'
    BY <2>1, SameDrives DEF MInv, VolumesSound, TypeOK
  <2>3. \A d \in Drives : mem[d] # NoTable /\ "DIRTY" \in mem[d].flags => ToWrite(d)'
    BY <2>1 DEF MInv, TableInv, ToWrite
  <2>4. (\A d \in Drives : mem[d] # NoTable => TableInv(d, mem[d]))'
    BY <2>1, <2>3, SameMemory
  <2>5. TodoInv'
    BY <2>1, SameTodo
  <2>6. StageInv'
    BY <2>1 DEF MInv, StageInv, Left, Clean, Pins, SureOn
  <2>7. (mem \in [Drives -> Table \cup {NoTable}])'
    BY <2>1 DEF MInv
  <2> QED
    BY <2>2, <2>4, <2>5, <2>6, <2>7 DEF MInv
<1> QED
  BY <1>1, <1>2, <1>3, <1>4, <1>5, <1>6, <1>7, <1>8, <1>9, <1>10 DEF Next

\* From drives whose tables tile them, and however often and wherever the runs are
\* stopped: the number of a volume, as long as it was sure, leads to the sectors it was
\* added with, a partition of type MFS that no other volume has.
THEOREM VolumesTheorem == Spec /\ ProperMaps => []VolumesSound
<1>1. Init /\ ProperMaps => MInv
  BY InitInv
<1>2. MInv /\ [Next]_vars => MInv'
  BY StepInv
<1>3. MInv => VolumesSound
  BY DEF MInv
<1> QED
  BY <1>1, <1>2, <1>3, PTL DEF Spec

\* The data on a drive is still in the table that is written to it.
LEMMA WrittenKeeps ==
  ASSUME MInv, NEW d \in Drives, mem[d] # NoTable, "DIRTY" \in mem[d].flags, UsedBy(d) # {},
         NEW e \in ToSet(disk[d]), e.type # "free"
  PROVE  e \in ToSet(OnDisk(mem[d]))
<1> DEFINE t == mem[d]
           q == OnDisk(t)
           r == disk[d]
<1>1. TableInv(d, t) /\ r \in Seq(Stored)
  BY DEF MInv, VolumesSound, TypeOK
<1>2. Good(d, t) /\ Data(r) \subseteq Data(t.parts)
  BY <1>1 DEF TableInv
<1> HIDE DEF q, t
<1>3. /\ q \in Seq(Stored) /\ Len(q) = Len(t.parts)
      /\ \A k \in 1..Len(t.parts) :
           q[k] = [start |-> t.parts[k].start, sectors |-> t.parts[k].sectors, type |-> t.parts[k].type]
  BY <1>2, OnDiskFacts DEF q
<1> HIDE DEF r
<1>4. PICK i \in 1..Len(r) : r[i] = e
  BY <1>1 DEF ToSet, r
<1>5. e \in Stored
  BY <1>1, <1>4
<1>6. e = [start |-> e.start, sectors |-> e.sectors, type |-> e.type]
  BY <1>5 DEF Stored
<1>7. e \in Data(r)
  BY <1>4, <1>6 DEF Data
<1>8. e \in Data(t.parts)
  BY <1>2, <1>7
<1>9. PICK k \in 1..Len(t.parts) :
        e = [start |-> t.parts[k].start, sectors |-> t.parts[k].sectors, type |-> t.parts[k].type]
  BY <1>8 DEF Data
<1>10. q[k] = e /\ k \in 1..Len(q)
  BY <1>3, <1>9
<1> QED
  BY <1>3, <1>10 DEF ToSet, q, t

\* Each partition with data on a drive the set uses is still there after every step.
THEOREM OthersTheorem == Spec /\ ProperMaps => OthersKept
<1> DEFINE keeps == \A d \in Drives : UsedBy(d) # {} =>
             {e \in ToSet(disk[d]) : e.type # "free"} \subseteq ToSet(disk'[d])
<1>1. MInv /\ [Next]_vars => [keeps]_vars
  <2> SUFFICES ASSUME MInv, [Next]_vars, NEW d \in Drives, UsedBy(d) # {},
                      NEW e \in ToSet(disk[d]), e.type # "free"
               PROVE  e \in ToSet(disk'[d])
    OBVIOUS
  <2>1. disk \in [Drives -> Seq(Stored)] /\ mem \in [Drives -> Table \cup {NoTable}]
    BY DEF MInv, VolumesSound, TypeOK
  <2>2. ASSUME NEW c \in Drives, mem[c] # NoTable, "DIRTY" \in mem[c].flags,
               disk' = [disk EXCEPT ![c] = OnDisk(mem[c])]
        PROVE  e \in ToSet(disk'[d])
    <3>1. CASE c = d
      <4>1. disk'[d] = OnDisk(mem[d])
        BY <2>1, <2>2, <3>1
      <4> QED
        BY <2>2, <3>1, <4>1, WrittenKeeps
    <3>2. CASE c # d
      BY <2>1, <2>2, <3>2
    <3> QED
      BY <3>1, <3>2
  <2>3. CASE \E c \in Drives : WriteTable(c)
    <3>1. PICK c \in Drives : WriteTable(c)
      BY <2>3
    <3>2. mem[c] # NoTable
      BY <3>1 DEF WriteTable, MInv, StageInv
    <3>3. CASE "DIRTY" \in mem[c].flags
      BY <2>2, <3>1, <3>2, <3>3 DEF WriteTable
    <3>4. CASE "DIRTY" \notin mem[c].flags
      BY <3>1, <3>4 DEF WriteTable
    <3> QED
      BY <3>3, <3>4
  <2>4. CASE WriteExpanded
    <3> DEFINE c == todo[1].app[1]
    <3>1. Len(todo) = 1 /\ mem[c] # NoTable /\ "DIRTY" \in mem[c].flags
      BY <2>4 DEF WriteExpanded, MInv, StageInv
    <3>2. todo # <<>>
      BY <3>1
    <3>3. c \in Drives /\ Head(todo).app[1] = c
      BY <3>2, FirstPair
    <3>4. disk' = [disk EXCEPT ![c] = OnDisk(mem[c])]
      BY <2>4, <3>3 DEF WriteExpanded
    <3> HIDE DEF c
    <3> QED
      BY <2>2, <3>1, <3>3, <3>4
  <2>5. CASE disk' = disk
    BY <2>5
  <2>6. disk' = disk \/ (\E c \in Drives : WriteTable(c)) \/ WriteExpanded
    BY DEF Next, vars, Run, TablesWritten, AddPair, StartExpand, ExpandDrive, AddExpanded, ToolEnds
  <2> QED
    BY <2>3, <2>4, <2>5, <2>6
<1>2. Init /\ ProperMaps => MInv
  BY InitInv
<1>3. MInv /\ [Next]_vars => MInv'
  BY StepInv
<1> QED
  BY <1>1, <1>2, <1>3, PTL DEF Spec, OthersKept
=============================================================================
