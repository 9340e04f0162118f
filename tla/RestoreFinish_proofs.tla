------------------------ MODULE RestoreFinish_proofs ------------------------
(***************************************************************************)
(* For every disk set, every selection of streams and every size of swap   *)
(* space: what a backup leaves out when it shrinks holds nothing that is   *)
(* needed, and what a restore has finished refers to nothing that is gone. *)
(***************************************************************************)
EXTENDS RestoreFinish, FiniteSetTheorems, SequenceTheorems, WellFoundedInduction, TLAPS

-----------------------------------------------------------------------------
(* What a disk set is.                                                      *)

\* Where a pair of volumes may begin or the last one ends.
Boundaries == {Start[v] : v \in {v \in 1..(set.there + 1) : v % 2 = 1}}

\* Volumes come in pairs, a zone and its map in one of them, the zones of a pair
\* behind those of the pairs before, and a run in one zone.  The first zone is the
\* one of the inodes.
WellFormed ==
  ~Damaged =>
    /\ set.there % 2 = 0
    /\ Len(set.zones) > 0 /\ ~set.zones[1].media
    /\ \A z \in Range(set.zones) :
         /\ z.length > 0 /\ z.sector < SetEnd
         /\ \A b \in Boundaries : z.sector < b => z.last < b /\ z.sector + z.length <= b
    /\ \A y, z \in DOMAIN set.zones : \A b \in Boundaries :
         y < z /\ set.zones[z].sector < b => set.zones[y].sector < b
    /\ \A i \in Range(set.inodes) : \A run \in Range(i.runs) :
         /\ run.sector + run.count <= SetEnd
         /\ \A b \in Boundaries : run.sector < b => run.sector + run.count <= b

-----------------------------------------------------------------------------
(* Numbers.                                                                 *)

(* A set of numbers has a least one.                                        *)
LEMMA LeastOf ==
  ASSUME NEW T, T \subseteq Nat, T # {}
  PROVE  Min(T) \in T /\ \A y \in T : Min(T) <= y
<1>1. IsWellFoundedOn(OpToRel(<, Nat), Nat)
  BY NatLessThanWellFounded
<1>2. PICK x \in T : \A y \in T : <<y, x>> \notin OpToRel(<, Nat)
  BY <1>1, WFMin
<1>3. \A y \in T : ~(y < x)
  BY <1>2 DEF OpToRel
<1>4. \A y \in T : x <= y
  <2> TAKE y \in T
  <2>1. x \in Nat /\ y \in Nat /\ ~(y < x)
    BY <1>3
  <2> QED
    BY <2>1
<1> QED
  BY <1>4 DEF Min

(* So has a finite set a largest one: the sets of what is not below a       *)
(* member are well-founded.                                                 *)
LEMMA LargestOf ==
  ASSUME NEW T, T \subseteq Nat, T # {}, IsFiniteSet(T)
  PROVE  Max(T) \in T /\ \A y \in T : y <= Max(T)
<1> DEFINE From(x) == {y \in T : x <= y}
           U == {From(x) : x \in T}
           R == StrictSubsetOrdering(T)
<1>1. IsWellFoundedOn(R, SUBSET T)
  BY FS_StrictSubsetOrderingWellFounded, FS_FiniteSubsetsOfFinite
<1>2. U \subseteq SUBSET T /\ U # {}
  OBVIOUS
<1> HIDE DEF U, R
<1>3. PICK u \in U : \A w \in U : <<w, u>> \notin R
  BY <1>1, <1>2, WFMin, Zenon
<1>4. PICK x \in T : u = From(x)
  BY <1>3 DEF U
<1>5. ASSUME NEW y \in T, x < y PROVE FALSE
  <2>1. From(y) \in U
    BY <1>5 DEF U
  <2>2. From(y) \subseteq From(x) /\ x \in From(x) /\ x \notin From(y)
    <3>1. \A z \in T : z \in Nat
      OBVIOUS
    <3>2. \A z \in T : y <= z => x <= z
      BY <1>5, <3>1
    <3>3. x <= x /\ ~(y <= x)
      BY <1>5, <3>1
    <3> QED
      BY <3>2, <3>3
  <2>3. <<From(y), From(x)>> \in R
    <3>1. From(y) \in SUBSET T /\ From(x) \in SUBSET T
      OBVIOUS
    <3> HIDE DEF From
    <3> QED
      BY <2>2, <3>1 DEF R, StrictSubsetOrdering
  <2> QED
    BY <1>3, <1>4, <2>1, <2>3
<1>6. \A y \in T : x >= y
  BY <1>5
<1> QED
  BY <1>6 DEF Max

-----------------------------------------------------------------------------
(* Folds: of all of them, one that is given by a name.                      *)

FoldOp(o, y, x) ==
  CASE o = "sum" -> y + x
    [] o = "run" -> AddRun(y, x)
    [] o = "up"  -> MoveUp(y, x)

\* h folds the members of s at every set of places up to n, the last first.
Folding(h, n, o, b, s) ==
  h = [t \in SUBSET (1..n) |-> IF t = {} THEN b ELSE FoldOp(o, h[t \ {Max(t)}], s[Max(t)])]

LEMMA LastPlace ==
  ASSUME NEW k \in Nat, NEW t \in SUBSET (1..k), k \in t
  PROVE  Max(t) = k
<1>1. \A x \in t : (\A y \in t : x >= y) => x = k
  OBVIOUS
<1>2. \A y \in t : k >= y
  OBVIOUS
<1> QED
  BY <1>1, <1>2 DEF Max

LEMMA LastPlaceIn ==
  ASSUME NEW k \in Nat, NEW t \in SUBSET (1..k), t # {}
  PROVE  Max(t) \in t
<1>1. IsFiniteSet(1..k)
  BY FS_Interval
<1>2. IsFiniteSet(t)
  BY <1>1, FS_Subset
<1>3. t \subseteq Nat
  OBVIOUS
<1> QED
  BY <1>2, <1>3, LargestOf

LEMMA FoldingExists ==
  ASSUME NEW o, NEW b, NEW s, NEW n \in Nat
  PROVE  \E h : Folding(h, n, o, b, s)
<1> DEFINE P(k) == \E h : Folding(h, k, o, b, s)
           T == {k \in Nat : ~P(k)}
<1>1. SUFFICES ASSUME T # {} PROVE FALSE
  OBVIOUS
<1>2. PICK k \in T : \A j \in T : k <= j
  BY <1>1, LeastOf
<1>3. k # 0
  <2> SUFFICES P(0)
    OBVIOUS
  <2> DEFINE h == [t \in SUBSET (1..0) |-> b]
  <2>1. \A t \in SUBSET (1..0) : t = {}
    OBVIOUS
  <2>2. Folding(h, 0, o, b, s)
    BY <2>1 DEF Folding
  <2> QED
    BY <2>2
<1>4. PICK g : Folding(g, k - 1, o, b, s)
  <2>1. k - 1 \in Nat /\ k - 1 \notin T
    BY <1>2, <1>3
  <2> QED
    BY <2>1
<1> DEFINE h == [t \in SUBSET (1..k) |-> IF k \in t THEN FoldOp(o, g[t \ {k}], s[k]) ELSE g[t]]
<1>5. ASSUME NEW t \in SUBSET (1..k)
      PROVE  h[t] = IF t = {} THEN b ELSE FoldOp(o, h[t \ {Max(t)}], s[Max(t)])
  <2>1. CASE k \in t
    <3>1. Max(t) = k
      BY <2>1, LastPlace
    <3>2. t \ {k} \in SUBSET (1..k) /\ k \notin t \ {k} /\ t # {}
      BY <2>1
    <3>3. h[t \ {k}] = g[t \ {k}] /\ h[t] = FoldOp(o, g[t \ {k}], s[k])
      BY <2>1, <3>2
    <3> QED
      BY <3>1, <3>2, <3>3
  <2>2. CASE k \notin t
    <3>1. t \in SUBSET (1..(k - 1)) /\ k - 1 \in Nat
      BY <2>2, <1>3
    <3>2. g[t] = IF t = {} THEN b ELSE FoldOp(o, g[t \ {Max(t)}], s[Max(t)])
      <4> HIDE DEF P, T, h
      <4> QED
        BY <3>1, <1>4 DEF Folding
    <3>3. h[t] = g[t] /\ h[t \ {Max(t)}] = g[t \ {Max(t)}]
      BY <2>2
    <3> QED
      BY <3>2, <3>3
  <2> QED
    BY <2>1, <2>2
<1>6. Folding(h, k, o, b, s)
  <2>1. h = [t \in SUBSET (1..k) |-> h[t]]
    OBVIOUS
  <2> HIDE DEF h
  <2> QED
    BY <1>5, <2>1 DEF Folding
<1> QED
  BY <1>6, <1>2

\* f is the fold of the first n members of s from b on, step by step.
Steps(f, n, o, b, s) ==
  /\ DOMAIN f = 0..n /\ f[0] = b
  /\ \A k \in 1..n : f[k] = FoldOp(o, f[k - 1], s[k])

(* Along the prefixes it is the fold step by step.                          *)
LEMMA FoldingSteps ==
  ASSUME NEW o, NEW b, NEW s, NEW n \in Nat, NEW h, Folding(h, n, o, b, s)
  PROVE  \E f : Steps(f, n, o, b, s) /\ f[n] = h[1..n]
<1> DEFINE f == [k \in 0..n |-> h[1..k]]
<1>1. f[0] = b
  <2>1. 1..0 = {} /\ 1..0 \in SUBSET (1..n) /\ 0 \in 0..n
    OBVIOUS
  <2> QED
    BY <2>1 DEF Folding
<1>2. ASSUME NEW k \in 1..n PROVE f[k] = FoldOp(o, f[k - 1], s[k])
  <2>1. 1..k \in SUBSET (1..n) /\ k \in 1..k /\ 1..k # {} /\ k \in 0..n /\ k - 1 \in 0..n
    OBVIOUS
  <2>2. Max(1..k) = k
    BY <2>1, LastPlace
  <2>3. (1..k) \ {k} = 1..(k - 1)
    OBVIOUS
  <2>4. h[1..k] = FoldOp(o, h[1..(k - 1)], s[k])
    BY <2>1, <2>2, <2>3 DEF Folding
  <2> QED
    BY <2>1, <2>4
<1>3. f[n] = h[1..n] /\ DOMAIN f = 0..n
  OBVIOUS
<1> HIDE DEF f
<1>4. Steps(f, n, o, b, s)
  BY <1>1, <1>2, <1>3 DEF Steps
<1> QED
  BY <1>3, <1>4

LEMMA FoldsRuns ==
  ASSUME NEW S, NEW s \in Seq(S), NEW b
  PROVE  \E f : Steps(f, Len(s), "run", b, s) /\ FoldLeft(AddRun, b, s) = f[Len(s)]
<1> DEFINE Is(h) == h = [t \in SUBSET DOMAIN s |-> IF t = {} THEN b ELSE AddRun(h[t \ {Max(t)}], s[Max(t)])]
           h == CHOOSE h : Is(h)
<1>1. Len(s) \in Nat /\ DOMAIN s = 1..Len(s)
  OBVIOUS
<1>2. \A g : Folding(g, Len(s), "run", b, s) <=> Is(g)
  BY <1>1 DEF Folding, FoldOp
<1>3. Is(h)
  BY <1>1, <1>2, FoldingExists
<1>4. FoldLeft(AddRun, b, s) = h[DOMAIN s]
  BY DEF FoldLeft, MapThenFoldSet
<1>5. Folding(h, Len(s), "run", b, s)
  BY <1>2, <1>3
<1> HIDE DEF h, Is
<1>6. PICK f : Steps(f, Len(s), "run", b, s) /\ f[Len(s)] = h[1..Len(s)]
  BY <1>1, <1>5, FoldingSteps
<1> QED
  BY <1>1, <1>4, <1>6

LEMMA FoldsUp ==
  ASSUME NEW S, NEW s \in Seq(S), NEW b
  PROVE  \E f : Steps(f, Len(s), "up", b, s) /\ FoldLeft(MoveUp, b, s) = f[Len(s)]
<1> DEFINE Is(h) == h = [t \in SUBSET DOMAIN s |-> IF t = {} THEN b ELSE MoveUp(h[t \ {Max(t)}], s[Max(t)])]
           h == CHOOSE h : Is(h)
<1>1. Len(s) \in Nat /\ DOMAIN s = 1..Len(s)
  OBVIOUS
<1>2. \A g : Folding(g, Len(s), "up", b, s) <=> Is(g)
  BY <1>1 DEF Folding, FoldOp
<1>3. Is(h)
  BY <1>1, <1>2, FoldingExists
<1>4. FoldLeft(MoveUp, b, s) = h[DOMAIN s]
  BY DEF FoldLeft, MapThenFoldSet
<1>5. Folding(h, Len(s), "up", b, s)
  BY <1>2, <1>3
<1> HIDE DEF h, Is
<1>6. PICK f : Steps(f, Len(s), "up", b, s) /\ f[Len(s)] = h[1..Len(s)]
  BY <1>1, <1>5, FoldingSteps
<1> QED
  BY <1>1, <1>4, <1>6

LEMMA FoldsSum ==
  ASSUME NEW S, NEW s \in Seq(S), NEW b
  PROVE  \E f : Steps(f, Len(s), "sum", b, s) /\ FoldLeft(LAMBDA n, x : n + x, b, s) = f[Len(s)]
<1> DEFINE Is(h) == h = [t \in SUBSET DOMAIN s |-> IF t = {} THEN b ELSE h[t \ {Max(t)}] + s[Max(t)]]
           h == CHOOSE h : Is(h)
<1>1. Len(s) \in Nat /\ DOMAIN s = 1..Len(s)
  OBVIOUS
<1>2. \A g : Folding(g, Len(s), "sum", b, s) <=> Is(g)
  BY <1>1 DEF Folding, FoldOp
<1>3. Is(h)
  BY <1>1, <1>2, FoldingExists
<1>4. FoldLeft(LAMBDA n, x : n + x, b, s) = h[DOMAIN s]
  BY DEF FoldLeft, MapThenFoldSet
<1>5. Folding(h, Len(s), "sum", b, s)
  BY <1>2, <1>3
<1> HIDE DEF h, Is
<1>6. PICK f : Steps(f, Len(s), "sum", b, s) /\ f[Len(s)] = h[1..Len(s)]
  BY <1>1, <1>5, FoldingSteps
<1> QED
  BY <1>1, <1>4, <1>6

(* A sum of numbers is one.                                                 *)
LEMMA SumIsNumber ==
  ASSUME NEW s \in Seq(Nat)
  PROVE  FoldLeft(LAMBDA n, x : n + x, 0, s) \in Nat
<1>1. PICK f : Steps(f, Len(s), "sum", 0, s) /\ FoldLeft(LAMBDA n, x : n + x, 0, s) = f[Len(s)]
  BY FoldsSum
<1> DEFINE T == {k \in 0..Len(s) : f[k] \notin Nat}
<1>2. Len(s) \in Nat /\ Len(s) \in 0..Len(s) /\ T \subseteq Nat
  OBVIOUS
<1>3. SUFFICES ASSUME T # {} PROVE FALSE
  <2>1. T = {} => f[Len(s)] \in Nat
    BY <1>2
  <2> QED
    BY <1>1, <2>1
<1>4. PICK k \in T : \A j \in T : k <= j
  <2> HIDE DEF T
  <2> QED
    BY <1>3, <1>2, LeastOf
<1>5. k # 0
  <2>1. f[0] = 0
    BY <1>1 DEF Steps
  <2> QED
    BY <2>1, <1>4
<1>6. k - 1 \in 0..Len(s) /\ k - 1 \notin T /\ k \in 1..Len(s)
  BY <1>4, <1>5
<1>7. f[k - 1] \in Nat /\ s[k] \in Nat
  BY <1>6
<1>8. f[k] = f[k - 1] + s[k]
  BY <1>1, <1>6 DEF Steps, FoldOp
<1> QED
  BY <1>4, <1>7, <1>8

(* Volumes begin at sectors.                                                *)
LEMMA StartFacts ==
  ASSUME set \in Sets
  PROVE  /\ set.there \in Nat /\ set.there > 0 /\ set.there <= Len(set.volumes)
         /\ \A v \in 1..(set.there + 1) : Start[v] \in Nat
         /\ SetEnd = Start[set.there + 1]
<1>1. set.there \in 1..Len(set.volumes) /\ set.volumes \in Seq(Nat \ {0})
  BY SetsAssumption
<1>2. ASSUME NEW v \in 1..(set.there + 1) PROVE Start[v] \in Nat
  <2>1. SubSeq(set.volumes, 1, v - 1) \in Seq(Nat)
    BY <1>1
  <2>2. FoldLeft(LAMBDA n, s : n + s, 0, SubSeq(set.volumes, 1, v - 1)) \in Nat
    BY <2>1, SumIsNumber
  <2> QED
    BY <2>2 DEF Start
<1> QED
  BY <1>1, <1>2 DEF SetEnd

(* The scan of a stream never takes the end of what is needed back.         *)
LEMMA ScanRaises ==
  ASSUME NEW s \in Seq(Run), NEW w, w.left \in Int, w.highest \in Nat
  PROVE  FoldLeft(AddRun, w, s).highest \in Nat /\ FoldLeft(AddRun, w, s).highest >= w.highest
<1>1. PICK f : Steps(f, Len(s), "run", w, s) /\ FoldLeft(AddRun, w, s) = f[Len(s)]
  BY FoldsRuns
<1> DEFINE P(x) == x.left \in Int /\ x.highest \in Nat /\ x.highest >= w.highest
           T == {k \in 0..Len(s) : ~P(f[k])}
<1>2. SUFFICES ASSUME T # {} PROVE FALSE
  BY <1>1
<1>3. PICK k \in T : \A j \in T : k <= j
  <2>1. T \subseteq Nat
    OBVIOUS
  <2> HIDE DEF T
  <2> QED
    BY <1>2, <2>1, LeastOf
<1>4. k # 0
  <2>1. f[0] = w
    BY <1>1 DEF Steps
  <2> QED
    BY <2>1, <1>3
<1>5. k - 1 \in 0..Len(s) /\ k - 1 \notin T /\ k \in 1..Len(s)
  BY <1>3, <1>4
<1>6. P(f[k - 1]) /\ s[k] \in Run
  BY <1>5
<1>7. f[k] = AddRun(f[k - 1], s[k])
  BY <1>1, <1>5 DEF Steps, FoldOp
<1>8. ASSUME NEW x, P(x), NEW run \in Run PROVE P(AddRun(x, run))
  BY <1>8 DEF AddRun, Run, Larger, Smaller
<1> QED
  BY <1>3, <1>6, <1>7, <1>8

-----------------------------------------------------------------------------
(* What a backup keeps.                                                     *)

\* The files among the first inodes lie before sector x; so do the zones, with their maps,
\* that are no media zones.
FilesBefore(n, x) ==
  \A i \in 1..Len(set.inodes) : i < n /\ ~set.inodes[i].stream => \A e \in Ends(set.inodes[i].runs) : e <= x
ZonesBefore(x) == \A z \in Range(set.zones) : ~z.media => z.sector + z.length <= x

\* The volumes behind v, whole pairs of them, hold nothing that is needed.
SafeCut(v) ==
  /\ v % 2 = 0
  /\ FilesBefore(Len(set.inodes) + 1, Start[v + 1])
  /\ ZonesBefore(Start[v + 1])

\* The inductive invariant of the backup: what was scanned lies before the end of what
\* is needed, and what is cut off behind it.
KeptInv ==
  /\ set \in Sets /\ highest \in Nat /\ kept \in Nat /\ at \in Nat \ {0}
  /\ stage \in {"open", "parts", "scan", "volumes"} => kept = 0 /\ FilesBefore(at, highest)
  /\ stage = "volumes" => at > Len(set.inodes) /\ (flags.shrink => ZonesBefore(highest))
  /\ stage = "lists" /\ ~error =>
       kept = 0 \/ (flags.shrink /\ kept \in 1..set.there /\ (kept = set.there \/ SafeCut(kept)))
  /\ stage = "started" /\ ~error =>
       kept \in 1..set.there /\ (kept = set.there \/ (flags.shrink /\ SafeCut(kept)))

LEMMA ValuesFinite ==
  ASSUME NEW f, NEW T, f = [x \in T |-> f[x]], IsFiniteSet(T)
  PROVE  IsFiniteSet({f[x] : x \in T})
<1>1. f \in Surjection(T, {f[x] : x \in T})
  BY DEF Surjection
<1> QED
  BY <1>1, FS_Surjection

LEMMA RangeFinite ==
  ASSUME NEW S, NEW s \in Seq(S)
  PROVE  IsFiniteSet(Range(s)) /\ \A x \in Range(s) : x \in S
<1>1. DOMAIN s = 1..Len(s) /\ Len(s) \in Nat /\ s = [k \in 1..Len(s) |-> s[k]]
  OBVIOUS
<1>2. IsFiniteSet(1..Len(s))
  <2>1. 1 \in Int /\ Len(s) \in Int
    BY <1>1
  <2> QED
    BY ONLY <2>1, FS_Interval
<1>3. IsFiniteSet({s[k] : k \in 1..Len(s)})
  BY <1>1, <1>2, ValuesFinite
<1> QED
  BY <1>1, <1>3 DEF Range

LEMMA RunFacts ==
  ASSUME set \in Sets, NEW i \in 1..Len(set.inodes)
  PROVE  /\ set.inodes[i] \in Inode
         /\ Ends(set.inodes[i].runs) \subseteq Nat /\ IsFiniteSet(Ends(set.inodes[i].runs))
<1>1. set.inodes[i] \in Inode
  BY SetsAssumption
<1>2. set.inodes[i].runs \in Seq(Run)
  BY <1>1 DEF Inode
<1> DEFINE runs == set.inodes[i].runs
           f == [run \in Range(runs) |-> run.sector + run.count]
<1>3. IsFiniteSet(Range(runs)) /\ \A run \in Range(runs) : run \in Run
  BY <1>2, RangeFinite
<1>4. IsFiniteSet({f[run] : run \in Range(runs)})
  BY <1>3, ValuesFinite
<1>5. Ends(runs) = {f[run] : run \in Range(runs)}
  BY DEF Ends
<1>6. Ends(runs) \subseteq Nat
  BY <1>3 DEF Ends, Run
<1> QED
  BY <1>1, <1>4, <1>5, <1>6

LEMMA MaxWith ==
  ASSUME NEW a \in Nat, NEW T, T \subseteq Nat, IsFiniteSet(T)
  PROVE  Max({a} \cup T) \in Nat /\ Max({a} \cup T) >= a /\ \A e \in T : e <= Max({a} \cup T)
<1>1. IsFiniteSet({a} \cup T)
  BY FS_AddElement
<1>2. {a} \cup T \subseteq Nat /\ {a} \cup T # {}
  OBVIOUS
<1>3. Max({a} \cup T) \in {a} \cup T /\ \A y \in {a} \cup T : y <= Max({a} \cup T)
  BY <1>1, <1>2, LargestOf
<1> QED
  BY <1>2, <1>3

LEMMA NeededFacts ==
  ASSUME set \in Sets, highest \in Nat
  PROVE  /\ NeededEnd \in Nat /\ NeededEnd >= highest
         /\ flags.shrink => ZonesBefore(NeededEnd)
<1> DEFINE Of(z) == {z.sector + z.length, z.last}
           Z == {z \in Range(set.zones) : ~z.media}
           T == UNION {Of(z) : z \in Z}
<1>1. set.zones \in Seq(Zone)
  BY SetsAssumption
<1> DEFINE f == [z \in Z |-> z.sector + z.length]
           g == [z \in Z |-> z.last]
<1>2. IsFiniteSet(Range(set.zones)) /\ \A z \in Range(set.zones) : z \in Zone
  BY <1>1, RangeFinite
<1>3. IsFiniteSet(Z)
  BY <1>2, FS_Subset
<1>4. IsFiniteSet({f[z] : z \in Z}) /\ IsFiniteSet({g[z] : z \in Z})
  BY <1>3, ValuesFinite
<1>5. T = {f[z] : z \in Z} \cup {g[z] : z \in Z}
  <2>1. \A x : x \in T <=> \E z \in Z : x = z.sector + z.length \/ x = z.last
    OBVIOUS
  <2>2. \A x : x \in {f[z] : z \in Z} <=> \E z \in Z : x = z.sector + z.length
    OBVIOUS
  <2>3. \A x : x \in {g[z] : z \in Z} <=> \E z \in Z : x = z.last
    OBVIOUS
  <2> HIDE DEF T, f, g, Z
  <2> QED
    BY <2>1, <2>2, <2>3
<1>6. IsFiniteSet(T)
  <2> HIDE DEF T, f, g, Z
  <2> QED
    BY <1>4, <1>5, FS_Union
<1>7. T \subseteq Nat
  BY <1>2 DEF Zone
<1>8. Max({highest} \cup T) \in Nat /\ Max({highest} \cup T) >= highest /\ \A e \in T : e <= Max({highest} \cup T)
  <2> HIDE DEF T
  <2> QED
    BY <1>6, <1>7, MaxWith
<1>9. NeededEnd = IF ~flags.shrink THEN highest ELSE Max({highest} \cup T)
  BY DEF NeededEnd
<1>10. \A z \in Range(set.zones) : ~z.media => z.sector + z.length \in T
  OBVIOUS
<1> HIDE DEF T
<1> QED
  BY <1>8, <1>9, <1>10 DEF ZonesBefore

LEMMA KeptVolumesFacts ==
  ASSUME set \in Sets, highest \in Nat
  PROVE  /\ KeptVolumes \in 0..set.there
         /\ KeptVolumes = set.there \/ (flags.shrink /\ KeptVolumes % 2 = 0 /\ Start[KeptVolumes + 1] >= highest)
<1>1. set.there \in Nat /\ set.there > 0
  BY StartFacts
<1>2. CASE flags.shrink /\ Cut # {}
  <2>1. Cut \subseteq Nat
    BY <1>1 DEF Cut
  <2>2. Min(Cut) \in Cut
    BY <1>2, <2>1, LeastOf
  <2>3. Min(Cut) \in 1..set.there /\ Min(Cut) % 2 = 1 /\ Start[Min(Cut)] >= highest
    BY <2>2 DEF Cut
  <2>4. KeptVolumes = Min(Cut) - 1
    BY <1>2 DEF KeptVolumes
  <2> QED
    BY <1>1, <1>2, <2>3, <2>4
<1>3. CASE ~(flags.shrink /\ Cut # {})
  BY <1>1, <1>3 DEF KeptVolumes
<1> QED
  BY <1>2, <1>3

LEMMA FilesHigher ==
  ASSUME set \in Sets, NEW n \in Nat, NEW x \in Nat, NEW y \in Nat, x <= y, FilesBefore(n, x)
  PROVE  FilesBefore(n, y)
<1>1. \A i \in 1..Len(set.inodes) : \A e \in Ends(set.inodes[i].runs) : e \in Nat
  BY RunFacts
<1> QED
  BY <1>1 DEF FilesBefore

LEMMA ZonesHigher ==
  ASSUME set \in Sets, NEW x \in Nat, NEW y \in Nat, x <= y, ZonesBefore(x)
  PROVE  ZonesBefore(y)
<1>1. set.zones \in Seq(Zone)
  BY SetsAssumption
<1>2. \A z \in Range(set.zones) : z \in Zone
  BY <1>1, RangeFinite
<1> QED
  BY <1>2 DEF ZonesBefore, Zone

(* Where volumes begin depends on the disk set alone.                       *)
StartOf(s) == [v \in 1..(s.there + 1) |-> FoldLeft(LAMBDA n, x : n + x, 0, SubSeq(s.volumes, 1, v - 1))]

LEMMA StartIs == Start = StartOf(set)
BY DEF Start, StartOf

LEMMA StartIsNext == Start' = StartOf(set')
<1>1. Start = StartOf(set)
  BY StartIs
<1>2. (Start = StartOf(set))'
  BY <1>1, PTL
<1> QED
  BY <1>2

LEMMA SameStart ==
  ASSUME set' = set
  PROVE  Start' = Start
BY StartIs, StartIsNext

LEMMA KeptInit ==
  ASSUME Init
  PROVE  KeptInv
<1>1. set \in Sets /\ at = 1 /\ highest = 0 /\ kept = 0 /\ stage = "open"
  BY DEF Init, BackupInit
<1>2. FilesBefore(1, 0)
  BY DEF FilesBefore
<1> QED
  BY <1>1, <1>2 DEF KeptInv

LEMMA KeptOpen ==
  ASSUME KeptInv, Open
  PROVE  KeptInv'
<1>1. /\ stage' \in {"refused", "parts"} /\ stage = "open"
      /\ UNCHANGED <<set, at, highest, kept>>
  BY DEF Open
<1>2. FilesBefore(at, highest)' <=> FilesBefore(at, highest)
  BY <1>1 DEF FilesBefore
<1> QED
  BY <1>1, <1>2 DEF KeptInv

LEMMA KeptAddPartitions ==
  ASSUME KeptInv, AddPartitions
  PROVE  KeptInv'
<1>1. /\ stage' \in {"refused", "scan"} /\ stage = "parts"
      /\ UNCHANGED <<set, at, highest, kept>>
  BY DEF AddPartitions
<1>2. FilesBefore(at, highest)' <=> FilesBefore(at, highest)
  BY <1>1 DEF FilesBefore
<1> QED
  BY <1>1, <1>2 DEF KeptInv

LEMMA KeptScanInode ==
  ASSUME KeptInv, ScanInode
  PROVE  KeptInv'
<1> DEFINE inode == set.inodes[at]
           w0 == [lists |-> lists, left |-> CopiedOf(inode), highest |-> highest, stop |-> FALSE]
           w == FoldLeft(AddRun, w0, inode.runs)
<1>1. /\ set \in Sets /\ highest \in Nat /\ kept = 0 /\ at \in 1..Len(set.inodes)
      /\ FilesBefore(at, highest)
      /\ stage = "scan" /\ UNCHANGED <<set, kept>> /\ at' = at + 1
  <2>1. at \in Nat \ {0} /\ at <= Len(set.inodes) /\ set \in Sets
    BY DEF KeptInv, ScanInode
  <2>2. set.inodes \in Seq(Inode)
    BY <2>1, SetsAssumption
  <2>3. at \in 1..Len(set.inodes)
    BY <2>1, <2>2
  <2> QED
    BY <2>3 DEF KeptInv, ScanInode
<1>2. \/ /\ inode.stream /\ highest' = w.highest
         /\ error' => stage' = "lists"
         /\ ~error' => stage' = stage
      \/ /\ highest' = IF inode.stream THEN highest ELSE Max({highest} \cup Ends(inode.runs))
         /\ stage' = stage
  BY DEF ScanInode
<1>3. inode \in Inode /\ Ends(inode.runs) \subseteq Nat /\ IsFiniteSet(Ends(inode.runs))
  BY <1>1, RunFacts
<1>4. highest' \in Nat /\ highest' >= highest
      /\ (~inode.stream => \A e \in Ends(inode.runs) : e <= highest')
  <2>1. CopiedOf(inode) \in Int /\ inode.runs \in Seq(Run)
    BY <1>3 DEF CopiedOf, JudgedBy, Inode
  <2>2. w0.left \in Int /\ w0.highest = highest
    BY <2>1
  <2>3. w.highest \in Nat /\ w.highest >= highest
    <3> HIDE DEF w0
    <3> QED
      BY <1>1, <2>1, <2>2, ScanRaises
  <2>4. LET m == Max({highest} \cup Ends(inode.runs))
        IN  m \in Nat /\ m >= highest /\ \A e \in Ends(inode.runs) : e <= m
    BY <1>1, <1>3, MaxWith
  <2> HIDE DEF w, w0, inode
  <2>5. \/ highest' = w.highest /\ inode.stream
        \/ highest' = highest /\ inode.stream
        \/ highest' = Max({highest} \cup Ends(inode.runs))
    BY <1>2
  <2>6. CASE highest' = w.highest /\ inode.stream
    BY <2>3, <2>6
  <2>7. CASE highest' = highest /\ inode.stream
    BY <1>1, <2>7
  <2>8. CASE highest' = Max({highest} \cup Ends(inode.runs))
    BY <2>4, <2>8
  <2> QED
    BY <2>5, <2>6, <2>7, <2>8
<1>5. FilesBefore(at + 1, highest')
  <2>1. FilesBefore(at, highest')
    BY <1>1, <1>4, FilesHigher
  <2>2. \A i \in 1..Len(set.inodes) : i < at + 1 => i < at \/ i = at
    BY <1>1
  <2> QED
    BY <1>4, <2>1, <2>2 DEF FilesBefore
<1>6. FilesBefore(at, highest)' <=> FilesBefore(at + 1, highest')
  BY <1>1 DEF FilesBefore
<1>7. at' \in Nat \ {0}
  BY <1>1
<1>8. stage' = "scan" \/ (stage' = "lists" /\ error')
  BY <1>1, <1>2
<1> HIDE DEF w, w0, inode
<1> QED
  BY <1>1, <1>4, <1>5, <1>6, <1>7, <1>8 DEF KeptInv

LEMMA KeptEndScan ==
  ASSUME KeptInv, EndScan
  PROVE  KeptInv'
<1>1. /\ set \in Sets /\ highest \in Nat /\ kept = 0 /\ at \in Nat \ {0} /\ FilesBefore(at, highest)
      /\ at > Len(set.inodes) /\ UNCHANGED <<set, kept, at, flags>>
      /\ highest' = IF error' THEN highest ELSE NeededEnd
      /\ stage' = IF error' THEN "lists" ELSE "volumes"
  BY DEF KeptInv, EndScan
<1>2. NeededEnd \in Nat /\ NeededEnd >= highest /\ (flags.shrink => ZonesBefore(NeededEnd))
  BY <1>1, NeededFacts
<1>3. FilesBefore(at, NeededEnd)
  BY <1>1, <1>2, FilesHigher
<1>4. ~error' => FilesBefore(at, highest)' /\ (flags'.shrink => ZonesBefore(highest)')
  BY <1>1, <1>2, <1>3 DEF FilesBefore, ZonesBefore
<1> QED
  BY <1>1, <1>2, <1>4 DEF KeptInv

LEMMA KeptAddVolumes ==
  ASSUME KeptInv, AddVolumes
  PROVE  KeptInv'
<1>1. /\ set \in Sets /\ highest \in Nat /\ FilesBefore(at, highest) /\ at \in Nat \ {0}
      /\ at > Len(set.inodes) /\ (flags.shrink => ZonesBefore(highest))
      /\ UNCHANGED <<set, highest, at, flags>> /\ stage' = "lists"
      /\ kept' = IF flags.shrink THEN KeptVolumes ELSE 0
  BY DEF KeptInv, AddVolumes
<1>2. set.there \in Nat /\ \A v \in 1..(set.there + 1) : Start[v] \in Nat
  BY <1>1, StartFacts
<1>3. /\ KeptVolumes \in 0..set.there
      /\ KeptVolumes = set.there \/ (flags.shrink /\ KeptVolumes % 2 = 0 /\ Start[KeptVolumes + 1] >= highest)
  BY <1>1, KeptVolumesFacts
<1>4. KeptVolumes = set.there \/ SafeCut(KeptVolumes)
  <2> SUFFICES ASSUME KeptVolumes # set.there PROVE SafeCut(KeptVolumes)
    OBVIOUS
  <2>1. Start[KeptVolumes + 1] \in Nat /\ highest <= Start[KeptVolumes + 1]
    BY <1>1, <1>2, <1>3
  <2>2. FilesBefore(at, Start[KeptVolumes + 1])
    BY <1>1, <2>1, FilesHigher
  <2>3. FilesBefore(Len(set.inodes) + 1, Start[KeptVolumes + 1])
    BY <1>1, <2>2 DEF FilesBefore
  <2>4. ZonesBefore(Start[KeptVolumes + 1])
    BY <1>1, <1>3, <2>1, ZonesHigher
  <2> QED
    BY <1>3, <2>3, <2>4 DEF SafeCut
<1>5. SafeCut(kept)' <=> SafeCut(kept')
  BY <1>1, SameStart DEF SafeCut, FilesBefore, ZonesBefore
<1>6. kept' \in Nat /\ (kept' = 0 \/ (flags'.shrink /\ kept' \in 1..set'.there /\ (kept' = set'.there \/ SafeCut(kept'))))
  BY <1>1, <1>2, <1>3, <1>4
<1> QED
  BY <1>1, <1>5, <1>6 DEF KeptInv

LEMMA KeptLists ==
  ASSUME KeptInv, Lists
  PROVE  KeptInv'
<1>1. /\ set \in Sets /\ highest \in Nat /\ kept \in Nat /\ at \in Nat \ {0} /\ stage = "lists"
      /\ UNCHANGED <<set, highest, at, flags>>
      /\ kept' = IF kept = 0 THEN Len(set.volumes) ELSE kept
      /\ stage' = IF kept' > set.there THEN "refused" ELSE "started"
      /\ error' = (error \/ kept' > set.there)
  BY DEF KeptInv, Lists
<1>2. set.there \in Nat /\ set.there > 0 /\ set.there <= Len(set.volumes) /\ Len(set.volumes) \in Nat
  BY <1>1, StartFacts, SetsAssumption
<1>3. kept' \in Nat
  BY <1>1, <1>2
<1>4. SafeCut(kept)' <=> SafeCut(kept')
  BY <1>1, SameStart DEF SafeCut, FilesBefore, ZonesBefore
<1>5. ASSUME stage' = "started", ~error'
      PROVE  kept' \in 1..set.there /\ (kept' = set.there \/ (flags.shrink /\ SafeCut(kept')))
  <2>1. ~error /\ ~(kept' > set.there)
    BY <1>1, <1>5
  <2>2. kept = 0 \/ (flags.shrink /\ kept \in 1..set.there /\ (kept = set.there \/ SafeCut(kept)))
    BY <1>1, <2>1 DEF KeptInv
  <2> QED
    BY <1>1, <1>2, <1>3, <2>1, <2>2
<1> QED
  BY <1>1, <1>3, <1>4, <1>5 DEF KeptInv

LEMMA KeptUnchanged ==
  ASSUME KeptInv, UNCHANGED backupVars
  PROVE  KeptInv'
<1>1. UNCHANGED backupVars
  OBVIOUS
<1>2. UNCHANGED <<set, highest, kept, at, flags, stage, error>>
  BY <1>1 DEF backupVars
<1>3. SafeCut(kept)' <=> SafeCut(kept)
  BY <1>2, SameStart DEF SafeCut, FilesBefore, ZonesBefore
<1>4. (FilesBefore(at, highest)' <=> FilesBefore(at, highest)) /\ (ZonesBefore(highest)' <=> ZonesBefore(highest))
  BY <1>2 DEF FilesBefore, ZonesBefore
<1> QED
  BY <1>2, <1>3, <1>4 DEF KeptInv

LEMMA KeptNext ==
  ASSUME KeptInv, [Next]_vars
  PROVE  KeptInv'
<1>1. CASE Backup
  BY <1>1, KeptOpen, KeptAddPartitions, KeptScanInode, KeptEndScan, KeptAddVolumes, KeptLists
     DEF Backup, BackupNext
<1>2. ~Backup => UNCHANGED backupVars
  BY DEF Next, vars, RestoreData, MakeSwap, FixupVolList, FixupZoneMaps, FudgeInodes, FudgeSector, EndLog, backupVars
<1> QED
  BY <1>1, <1>2, KeptUnchanged

(* What is restored of a well-formed set ends where a pair of volumes does. *)
LEMMA EndIsBoundary ==
  ASSUME KeptInv, WellFormed, Started, ~Damaged
  PROVE  /\ set \in Sets /\ kept \in 1..set.there
         /\ kept = set.there \/ (flags.shrink /\ SafeCut(kept))
         /\ Start[kept + 1] \in Nat /\ Start[kept + 1] \in Boundaries
         /\ kept = set.there => Start[kept + 1] = SetEnd
<1>1. /\ set \in Sets /\ kept \in 1..set.there
      /\ kept = set.there \/ (flags.shrink /\ SafeCut(kept))
  BY DEF KeptInv, Started
<1>2. /\ set.there \in Nat /\ \A v \in 1..(set.there + 1) : Start[v] \in Nat
      /\ SetEnd = Start[set.there + 1]
  BY <1>1, StartFacts
<1>3. kept % 2 = 0
  BY <1>1 DEF WellFormed, SafeCut
<1>4. (kept + 1) % 2 = 1 /\ kept + 1 \in 1..(set.there + 1)
  BY <1>1, <1>2, <1>3
<1> QED
  BY <1>1, <1>2, <1>4 DEF Boundaries

(* A set that is well-formed loses nothing it needs.                        *)
LEMMA KeptRight ==
  ASSUME KeptInv, WellFormed
  PROVE  KeepsFiles
<1> SUFFICES ASSUME Started, ~Damaged
             PROVE  /\ \A i \in Range(set.inodes) : ~i.stream => \A e \in Ends(i.runs) : e <= Start[kept + 1]
                    /\ \A z \in Range(set.zones) : ~z.media => z.sector + z.length <= Start[kept + 1] /\ z.last < Start[kept + 1]
  BY DEF KeepsFiles
<1>1. /\ set \in Sets /\ kept \in 1..set.there
      /\ kept = set.there \/ (flags.shrink /\ SafeCut(kept))
  BY EndIsBoundary
<1>2. /\ set.there \in Nat /\ \A v \in 1..(set.there + 1) : Start[v] \in Nat
      /\ SetEnd = Start[set.there + 1]
  BY <1>1, StartFacts
<1>3. set.zones \in Seq(Zone) /\ set.inodes \in Seq(Inode)
  BY <1>1, SetsAssumption
<1>4. \A z \in Range(set.zones) : z \in Zone
  BY <1>3, RangeFinite
<1>5. Start[kept + 1] \in Boundaries
  BY EndIsBoundary
<1>6. \A z \in Range(set.zones) : z.sector < Start[kept + 1] => z.last < Start[kept + 1] /\ z.sector + z.length <= Start[kept + 1]
  BY <1>5 DEF WellFormed
<1>7. ASSUME NEW z \in Range(set.zones), ~z.media PROVE z.sector < Start[kept + 1]
  <2>1. CASE kept = set.there
    BY <1>2, <1>7, <2>1 DEF WellFormed
  <2>2. CASE SafeCut(kept)
    <3>1. z.length > 0 /\ z.sector + z.length <= Start[kept + 1]
      BY <1>7, <2>2 DEF WellFormed, SafeCut, ZonesBefore
    <3>2. z.sector \in Nat /\ z.length \in Nat /\ Start[kept + 1] \in Nat
      BY <1>1, <1>2, <1>4 DEF Zone
    <3> QED
      BY <3>1, <3>2
  <2> QED
    BY <1>1, <2>1, <2>2
<1>8. ASSUME NEW i \in Range(set.inodes), ~i.stream, NEW e \in Ends(i.runs) PROVE e <= Start[kept + 1]
  <2>1. CASE kept = set.there
    <3>1. PICK run \in Range(i.runs) : e = run.sector + run.count
      BY <1>8 DEF Ends
    <3> QED
      BY <1>2, <2>1, <3>1 DEF WellFormed
  <2>2. CASE SafeCut(kept)
    <3>1. PICK n \in 1..Len(set.inodes) : i = set.inodes[n]
      BY <1>3 DEF Range
    <3>2. n < Len(set.inodes) + 1
      OBVIOUS
    <3> QED
      BY <1>8, <2>2, <3>1, <3>2 DEF SafeCut, FilesBefore
  <2> QED
    BY <1>1, <2>1, <2>2
<1> QED
  BY <1>6, <1>7, <1>8

LEMMA SetStays ==
  ASSUME WellFormed, [Next]_vars
  PROVE  WellFormed'
<1>1. UNCHANGED set
  BY DEF Next, vars, Backup, BackupNext, Open, AddPartitions, ScanInode, EndScan, AddVolumes, Lists,
         RestoreData, MakeSwap, FixupVolList, FixupZoneMaps, FudgeInodes, FudgeSector, EndLog, backupVars
<1>2. Start' = Start
  BY <1>1, SameStart
<1> QED
  BY <1>1, <1>2 DEF WellFormed, Damaged, SetEnd, Boundaries

(* For every disk set that is well-formed, every choice of streams and      *)
(* every order of inodes: shrinking never cuts off a file, an inode zone or *)
(* an application zone (scan_inodes).                                       *)
THEOREM KeepsTheorem == Spec /\ WellFormed => []KeepsFiles
<1>1. Init => KeptInv
  BY KeptInit
<1>2. KeptInv /\ [Next]_vars => KeptInv'
  BY KeptNext
<1>3. WellFormed /\ [Next]_vars => WellFormed'
  BY SetStays
<1>4. KeptInv /\ WellFormed => KeepsFiles
  BY KeptRight
<1> QED
  BY <1>1, <1>2, <1>3, <1>4, PTL DEF Spec

-----------------------------------------------------------------------------
(* What a restore leaves.                                                   *)

LEMMA MarkedFacts ==
  ASSUME NEW pages \in Nat, WordPages \in Nat \ {0}, MaxWords \in Nat
  PROVE  Marked(pages) = 1..(Smaller(pages, (MaxWords + 1) * WordPages) - 1)
BY DEF Marked, Smaller, FullWords, LastBits

(* For every size of the swap space and every width of the words of its     *)
(* bitmap (restore_make_swap).                                              *)
THEOREM SwapTheorem == Spec => []SwapWhole
<1> DEFINE Inv == done \notin {"nothing", "data", "failed"} => swap.pages \in SwapSizes /\ swap.marked = Marked(swap.pages)
<1>1. Init => Inv
  BY DEF Init
<1>2. Inv /\ [Next]_vars => Inv'
  BY DEF Next, vars, Backup, finishVars, RestoreData, MakeSwap, FixupVolList, FixupZoneMaps, FudgeInodes, FudgeSector, EndLog,
         Marked, FullWords, LastBits, Smaller
<1>3. Inv => SwapWhole
  <2>1. WordPages \in Nat \ {0}
    BY LengthsAssumption
  <2>2. (MaxWords + 1) * WordPages \in Nat
    BY <2>1, SwapAssumption
  <2>3. ASSUME swap.pages \in SwapSizes
        PROVE  /\ Marked(swap.pages) \subseteq 1..(swap.pages - 1)
               /\ swap.pages <= (MaxWords + 1) * WordPages => Marked(swap.pages) = 1..(swap.pages - 1)
    <3>1. swap.pages \in Nat /\ Marked(swap.pages) = 1..(Smaller(swap.pages, (MaxWords + 1) * WordPages) - 1)
      BY <2>1, <2>3, MarkedFacts, SwapAssumption
    <3> QED
      BY <2>2, <3>1 DEF Smaller
  <2> QED
    BY <2>3 DEF SwapWhole
<1> QED
  BY <1>1, <1>2, <1>3, PTL DEF Spec

(* The runs that stay are those that lie before the end.                    *)
LEMMA WithinFacts ==
  ASSUME NEW s \in Seq(Run)
  PROVE  \A run : run \in Range(Within(s)) <=> run \in Range(s) /\ run.sector < Total
<1>1. PICK f : Steps(f, Len(s), "up", <<>>, s) /\ Within(s) = f[Len(s)]
  BY FoldsUp DEF Within
<1> DEFINE P(k) == /\ f[k] \in Seq(Run)
                   /\ \A run : run \in Range(f[k]) <=> (\E j \in 1..k : run = s[j]) /\ run.sector < Total
           T == {k \in 0..Len(s) : ~P(k)}
<1>2. Len(s) \in Nat /\ T \subseteq Nat
  OBVIOUS
<1>3. P(0)
  <2>1. f[0] = <<>> /\ 1..0 = {}
    BY <1>1 DEF Steps
  <2> QED
    BY <2>1 DEF Range
<1>4. ASSUME NEW k \in 1..Len(s), P(k - 1) PROVE P(k)
  <2>1. f[k] = MoveUp(f[k - 1], s[k])
    BY <1>1 DEF Steps, FoldOp
  <2>2. s[k] \in Run /\ k - 1 \in Nat /\ k \in Nat
    OBVIOUS
  <2>3. \A run : (\E j \in 1..k : run = s[j]) <=> (\E j \in 1..(k - 1) : run = s[j]) \/ run = s[k]
    <3>1. \A j : j \in 1..k <=> j \in 1..(k - 1) \/ j = k
      OBVIOUS
    <3> QED
      BY <3>1
  <2>4. CASE s[k].sector < Total
    <3>1. f[k] = Append(f[k - 1], s[k])
      BY <2>1, <2>4 DEF MoveUp
    <3>2. f[k] \in Seq(Run)
      BY <1>4, <2>2, <3>1
    <3>3. \A run : run \in Range(f[k]) <=> run \in Range(f[k - 1]) \/ run = s[k]
      <4> DEFINE q == f[k - 1]
      <4>1. q \in Seq(Run) /\ f[k] = Append(q, s[k])
        BY <1>4, <3>1
      <4> HIDE DEF q
      <4>2. /\ DOMAIN Append(q, s[k]) = 1..(Len(q) + 1) /\ DOMAIN q = 1..Len(q) /\ Len(q) \in Nat
            /\ Append(q, s[k])[Len(q) + 1] = s[k]
            /\ \A j \in 1..Len(q) : Append(q, s[k])[j] = q[j]
        BY <4>1, <2>2
      <4>3. \A j : j \in 1..(Len(q) + 1) <=> j \in 1..Len(q) \/ j = Len(q) + 1
        BY <4>2
      <4>4. \A run : run \in Range(Append(q, s[k])) <=> run \in Range(q) \/ run = s[k]
        BY <4>2, <4>3 DEF Range
      <4> QED
        BY <4>1, <4>4 DEF q
    <3> QED
      BY <1>4, <2>3, <2>4, <3>2, <3>3
  <2>5. CASE ~(s[k].sector < Total)
    <3>1. f[k] = f[k - 1]
      BY <2>1, <2>5 DEF MoveUp
    <3> QED
      BY <1>4, <2>3, <2>5, <3>1
  <2> QED
    BY <2>4, <2>5
<1>5. T = {}
  <2> SUFFICES ASSUME T # {} PROVE FALSE
    OBVIOUS
  <2>1. PICK k \in T : \A j \in T : k <= j
    <3> HIDE DEF T
    <3> QED
      BY <1>2, LeastOf
  <2> HIDE DEF P
  <2>2. k # 0 /\ k \in 0..Len(s)
    BY <1>3, <2>1
  <2>3. k \in 1..Len(s) /\ k - 1 \in 0..Len(s) /\ k - 1 \notin T
    BY <1>2, <2>1, <2>2
  <2>4. P(k - 1)
    BY <2>3
  <2> QED
    BY <1>4, <2>1, <2>3, <2>4
<1>6. P(Len(s))
  <2> HIDE DEF P
  <2> QED
    BY <1>2, <1>5
<1>7. \A run : run \in Range(s) <=> \E j \in 1..Len(s) : run = s[j]
  BY DEF Range
<1> QED
  BY <1>1, <1>6, <1>7

\* The chain of zones as it was found, and one that ends with zone n.
FirstChain  == [z \in DOMAIN set.zones |-> IF z = Len(set.zones) THEN 0 ELSE z + 1]
ChainEnds(n) == next = [FirstChain EXCEPT ![n] = 0]

\* Of the zones, the first n have their maps before the end of what is restored.
FirstZones(n) ==
  /\ n \in 1..Len(set.zones)
  /\ \A z \in 1..Len(set.zones) : set.zones[z].sector < Total <=> z <= n

LEMMA LastZoneFacts ==
  ASSUME set \in Sets, NEW n, FirstZones(n), next = FirstChain, Total \in Nat
  PROVE  LastZone = n
<1> DEFINE N == Len(set.zones)
           Is(f) == f = [z \in DOMAIN next |->
                           IF next[z] # 0 /\ set.zones[next[z]].sector < Total THEN f[next[z]] ELSE z]
           f == CHOOSE f : Is(f)
           g == [z \in 1..N |-> IF z <= n THEN n ELSE z]
<1>1. set.zones \in Seq(Zone)
  BY SetsAssumption
<1>2. N \in Nat /\ n \in 1..N /\ DOMAIN set.zones = 1..N
  BY <1>1 DEF FirstZones
<1>3. DOMAIN next = 1..N /\ \A z \in 1..N : next[z] = IF z = N THEN 0 ELSE z + 1
  BY <1>2 DEF FirstChain
<1>4. \A z \in 1..N : next[z] # 0 /\ set.zones[next[z]].sector < Total <=> z < n
  <2> TAKE z \in 1..N
  <2>1. CASE z = N
    BY <1>2, <1>3, <2>1
  <2>2. CASE z # N
    <3>1. next[z] = z + 1 /\ z + 1 \in 1..N /\ z + 1 # 0
      BY <1>2, <1>3, <2>2
    <3>2. set.zones[z + 1].sector < Total <=> z + 1 <= n
      BY <3>1 DEF FirstZones
    <3> QED
      BY <1>2, <3>1, <3>2
  <2> QED
    BY <2>1, <2>2
<1>5. Is(g)
  <2>1. ASSUME NEW z \in 1..N
        PROVE  g[z] = IF next[z] # 0 /\ set.zones[next[z]].sector < Total THEN g[next[z]] ELSE z
    <3>1. CASE z < n
      <4>1. next[z] = z + 1 /\ z + 1 \in 1..N /\ z + 1 <= n /\ z <= n
        BY <1>2, <1>3, <3>1
      <4> QED
        BY <1>4, <3>1, <4>1
    <3>2. CASE ~(z < n)
      <4>1. g[z] = z
        BY <1>2, <3>2
      <4> QED
        BY <1>4, <3>2, <4>1
    <3> QED
      BY <3>1, <3>2
  <2>2. g = [z \in 1..N |-> g[z]]
    OBVIOUS
  <2> HIDE DEF g
  <2> QED
    BY <1>3, <2>1, <2>2
<1>6. Is(f)
  BY <1>5
<1>7. LastZone = f[1]
  BY DEF LastZone
<1> HIDE DEF f
<1>8. \A z \in 1..N : f[z] = IF z < n THEN f[z + 1] ELSE z
  BY <1>2, <1>3, <1>4, <1>6
<1> DEFINE T == {k \in 0..(n - 1) : f[n - k] # n}
<1>9. T = {}
  <2> SUFFICES ASSUME T # {} PROVE FALSE
    OBVIOUS
  <2>1. PICK k \in T : \A j \in T : k <= j
    <3>1. T \subseteq Nat
      BY <1>2
    <3> HIDE DEF T
    <3> QED
      BY <3>1, LeastOf
  <2>2. f[n] = n
    BY <1>2, <1>8
  <2>3. k # 0 /\ k \in 0..(n - 1) /\ f[n - k] # n
    BY <1>2, <2>1, <2>2
  <2>4. k - 1 \in 0..(n - 1) /\ k - 1 \notin T
    BY <1>2, <2>1, <2>3
  <2>5. f[n - (k - 1)] = n
    BY <2>4
  <2>6. n - k \in 1..N /\ n - k < n /\ (n - k) + 1 = n - (k - 1)
    BY <1>2, <2>3
  <2> QED
    BY <1>8, <2>3, <2>5, <2>6
<1>10. n - 1 \in 0..(n - 1) /\ n - (n - 1) = 1
  BY <1>2
<1> QED
  BY <1>7, <1>9, <1>10

LEMMA ChainFacts ==
  ASSUME set \in Sets, NEW n \in 1..Len(set.zones), ChainEnds(n)
  PROVE  Chain = 1..n
<1> DEFINE N == Len(set.zones)
           Is(f) == f = [z \in DOMAIN next |-> {z} \cup (IF next[z] = 0 THEN {} ELSE f[next[z]])]
           f == CHOOSE f : Is(f)
           g == [z \in 1..N |-> z..(IF z <= n THEN n ELSE N)]
<1>1. set.zones \in Seq(Zone)
  BY SetsAssumption
<1>2. N \in Nat /\ n \in 1..N /\ DOMAIN set.zones = 1..N
  BY <1>1
<1>3. DOMAIN next = 1..N /\ \A z \in 1..N : next[z] = IF z = N \/ z = n THEN 0 ELSE z + 1
  BY <1>2 DEF ChainEnds, FirstChain
<1>4. Is(g)
  <2>1. ASSUME NEW z \in 1..N
        PROVE  g[z] = {z} \cup (IF next[z] = 0 THEN {} ELSE g[next[z]])
    <3>1. CASE z = N \/ z = n
      <4>1. g[z] = z..z
        BY <1>2, <3>1
      <4>2. z..z = {z}
        OBVIOUS
      <4> QED
        BY <1>3, <3>1, <4>1, <4>2
    <3>2. CASE ~(z = N \/ z = n)
      <4>1. next[z] = z + 1 /\ z + 1 \in 1..N /\ z + 1 # 0
        BY <1>2, <1>3, <3>2
      <4>2. (z <= n <=> z + 1 <= n) /\ z <= N /\ n \in Int /\ N \in Int
        BY <1>2, <3>2
      <4>3. \A m \in Int : z <= m => z..m = {z} \cup ((z + 1)..m)
        OBVIOUS
      <4>4. g[z + 1] = (z + 1)..(IF z <= n THEN n ELSE N)
        BY <4>1, <4>2
      <4> QED
        BY <4>1, <4>2, <4>3, <4>4
    <3> QED
      BY <3>1, <3>2
  <2>2. g = [z \in 1..N |-> g[z]]
    OBVIOUS
  <2> HIDE DEF g
  <2> QED
    BY <1>3, <2>1, <2>2
<1>5. Is(f)
  BY <1>4
<1>6. Chain = f[1]
  BY DEF Chain
<1> HIDE DEF f
<1>7. \A z \in 1..N : f[z] = {z} \cup (IF z = N \/ z = n THEN {} ELSE f[z + 1])
  BY <1>2, <1>3, <1>5
<1> DEFINE T == {k \in 0..(n - 1) : f[n - k] # (n - k)..n}
<1>8. T = {}
  <2> SUFFICES ASSUME T # {} PROVE FALSE
    OBVIOUS
  <2>1. PICK k \in T : \A j \in T : k <= j
    <3>1. T \subseteq Nat
      BY <1>2
    <3> HIDE DEF T
    <3> QED
      BY <3>1, LeastOf
  <2>2. f[n] = n..n
    <3>1. f[n] = {n}
      BY <1>2, <1>7
    <3>2. n..n = {n}
      BY <1>2
    <3> QED
      BY <3>1, <3>2
  <2>3. k # 0 /\ k \in 0..(n - 1) /\ f[n - k] # (n - k)..n
    <3>1. k \in 0..(n - 1) /\ f[n - k] # (n - k)..n
      BY <2>1
    <3>2. n - 0 = n
      BY <1>2
    <3>3. k # 0
      BY <2>2, <3>1, <3>2
    <3> QED
      BY <3>1, <3>3
  <2>4. k - 1 \in 0..(n - 1) /\ k - 1 \notin T
    BY <1>2, <2>1, <2>3
  <2>5. f[n - (k - 1)] = (n - (k - 1))..n
    BY <2>4
  <2>6. n - k \in 1..N /\ n - k # N /\ n - k # n /\ (n - k) + 1 = n - (k - 1)
    BY <1>2, <2>3
  <2>7. f[n - k] = {n - k} \cup ((n - (k - 1))..n)
    BY <1>7, <2>5, <2>6
  <2>8. (n - k)..n = {n - k} \cup ((n - (k - 1))..n)
    BY <1>2, <2>3
  <2> QED
    BY <2>3, <2>7, <2>8
<1>9. n - 1 \in 0..(n - 1) /\ n - (n - 1) = 1
  BY <1>2
<1> QED
  BY <1>6, <1>8, <1>9

\* The inode table without the runs that are gone.
RunsWithin ==
  /\ DOMAIN inodes = DOMAIN set.inodes
  /\ \A i \in DOMAIN set.inodes :
       IF flags.shrink /\ set.inodes[i].stream
       THEN \A run : run \in Range(inodes[i].runs) <=> run \in Range(set.inodes[i].runs) /\ run.sector < Total
       ELSE inodes[i] = set.inodes[i]

\* The inductive invariant of the restore: what each step has put right stays so.
RestoreInv ==
  /\ done \in {"nothing", "failed"} \/ (Started /\ ~Damaged)
  /\ done \in {"nothing", "data", "swap", "list"} => next = FirstChain
  /\ done \in {"zones", "log", "finished"} => \E n : FirstZones(n) /\ ChainEnds(n)
  /\ done \in {"list", "zones", "log", "finished"} => header.sectors = Total
  /\ done \in {"nothing", "data", "swap", "list", "zones"} => inodes = set.inodes
  /\ done \in {"log", "finished"} => RunsWithin

LEMMA RestoreInit ==
  ASSUME Init
  PROVE  RestoreInv
BY DEF Init, RestoreInv, FirstChain

LEMMA RestoreStays ==
  ASSUME UNCHANGED backupVars
  PROVE  /\ UNCHANGED <<set, kept, stage, error, flags>>
         /\ Start' = Start /\ Total' = Total /\ (Started' <=> Started) /\ (Damaged' <=> Damaged) /\ FirstChain' = FirstChain
         /\ \A n : FirstZones(n)' <=> FirstZones(n)
<1>1. UNCHANGED <<set, kept, stage, error, flags>>
  BY DEF backupVars
<1>2. Start' = Start
  BY <1>1, SameStart
<1> QED
  BY <1>1, <1>2 DEF Total, Started, Damaged, SetEnd, FirstChain, FirstZones

LEMMA RestoreBackup ==
  ASSUME RestoreInv, Backup
  PROVE  RestoreInv'
<1>1. stage # "started" /\ UNCHANGED <<set, header, next, inodes, done>>
  BY DEF Backup, BackupNext, Open, AddPartitions, ScanInode, EndScan, AddVolumes, Lists, finishVars
<1>2. done \in {"nothing", "failed"}
  BY <1>1 DEF RestoreInv, Started
<1> QED
  BY <1>1, <1>2 DEF RestoreInv, FirstChain

\* Nothing of what is put right changes.
Apart == UNCHANGED backupVars /\ UNCHANGED <<header, next, inodes>>

LEMMA RestoreApart ==
  ASSUME RestoreInv, Apart,
         \/ done' = done
         \/ done = "nothing" /\ done' = "failed"
         \/ done = "nothing" /\ done' = "data" /\ Started /\ ~Damaged
         \/ done = "data" /\ done' = "swap"
         \/ done = "log" /\ done' = "finished"
  PROVE  RestoreInv'
<1>1. UNCHANGED backupVars /\ UNCHANGED <<header, next, inodes>>
  BY DEF Apart
<1>2. /\ UNCHANGED <<set, kept, stage, error, flags>>
      /\ Start' = Start /\ Total' = Total /\ (Started' <=> Started) /\ (Damaged' <=> Damaged) /\ FirstChain' = FirstChain
      /\ \A n : FirstZones(n)' <=> FirstZones(n)
  BY <1>1, RestoreStays
<1>3. RunsWithin' <=> RunsWithin
  BY <1>1, <1>2 DEF RunsWithin
<1>4. \A n : ChainEnds(n)' <=> ChainEnds(n)
  BY <1>1, <1>2 DEF ChainEnds
<1> QED
  BY <1>1, <1>2, <1>3, <1>4 DEF RestoreInv

LEMMA RestoreVolList ==
  ASSUME RestoreInv, FixupVolList
  PROVE  RestoreInv'
<1>1. /\ done = "swap" /\ done' = "list" /\ header' = [volumes |-> kept, sectors |-> Total]
      /\ UNCHANGED backupVars /\ UNCHANGED <<next, inodes>>
  BY DEF FixupVolList
<1>2. /\ UNCHANGED <<set, kept, stage, error, flags>>
      /\ Total' = Total /\ (Started' <=> Started) /\ (Damaged' <=> Damaged) /\ FirstChain' = FirstChain
  BY <1>1, RestoreStays
<1> QED
  BY <1>1, <1>2 DEF RestoreInv

LEMMA ZonesAreFirst ==
  ASSUME KeptInv, WellFormed, Started, ~Damaged
  PROVE  /\ Len(set.zones) \in Nat /\ Total \in Nat
         /\ \E n : FirstZones(n)
         /\ kept = set.there => FirstZones(Len(set.zones))
<1>1. /\ set \in Sets /\ Total \in Nat /\ Total \in Boundaries
      /\ kept = set.there => Total = SetEnd
  BY EndIsBoundary DEF Total
<1>2. set.zones \in Seq(Zone)
  BY <1>1, SetsAssumption
<1> DEFINE N == Len(set.zones)
           T == {z \in 1..N : set.zones[z].sector < Total}
<1>3. N \in Nat /\ DOMAIN set.zones = 1..N /\ N > 0 /\ ~set.zones[1].media
  BY <1>2 DEF WellFormed
<1>4. \A z \in 1..N : set.zones[z] \in Zone /\ set.zones[z] \in Range(set.zones)
  BY <1>2, <1>3 DEF Range
<1>5. 1 \in T
  <2>1. KeepsFiles
    BY KeptRight
  <2>2. 1 \in 1..N
    BY <1>3
  <2>3. set.zones[1].sector + set.zones[1].length <= Total
    BY <1>3, <1>4, <2>1, <2>2 DEF KeepsFiles, Total
  <2>4. set.zones[1].length > 0
    BY <1>4, <2>2 DEF WellFormed
  <2>5. set.zones[1].sector \in Nat /\ set.zones[1].length \in Nat
    BY <1>4, <2>2 DEF Zone
  <2> QED
    BY <1>1, <2>2, <2>3, <2>4, <2>5
<1>6. IsFiniteSet(T) /\ T \subseteq Nat
  <2>1. IsFiniteSet(1..N)
    BY <1>3, FS_Interval
  <2> QED
    BY <2>1, FS_Subset
<1>7. \A y, z \in 1..N : y < z /\ z \in T => y \in T
  BY <1>1, <1>3 DEF WellFormed
<1>8. FirstZones(Max(T))
  <2> HIDE DEF T
  <2>1. Max(T) \in T /\ \A z \in T : z <= Max(T)
    BY <1>5, <1>6, LargestOf
  <2>2. Max(T) \in 1..N
    BY <2>1 DEF T
  <2>3. \A z \in 1..N : z \in T <=> z <= Max(T)
    <3> TAKE z \in 1..N
    <3>1. z <= Max(T) => z = Max(T) \/ z < Max(T)
      BY <2>2
    <3> QED
      BY <1>7, <2>1, <2>2, <3>1
  <2> QED
    BY <2>2, <2>3 DEF FirstZones, T
<1>9. ASSUME kept = set.there PROVE FirstZones(N)
  <2>1. \A z \in 1..N : set.zones[z].sector < Total
    BY <1>1, <1>4, <1>9 DEF WellFormed
  <2> QED
    BY <1>3, <2>1 DEF FirstZones
<1> QED
  BY <1>1, <1>3, <1>8, <1>9

LEMMA RestoreZoneMaps ==
  ASSUME RestoreInv, FixupZoneMaps, KeptInv, WellFormed
  PROVE  RestoreInv'
<1>1. /\ done = "list" /\ done' = "zones"
      /\ next' = IF flags.shrink THEN [next EXCEPT ![LastZone] = 0] ELSE next
      /\ UNCHANGED backupVars /\ UNCHANGED <<header, inodes>>
  BY DEF FixupZoneMaps
<1>2. /\ UNCHANGED <<set, kept, stage, error, flags>>
      /\ Total' = Total /\ (Started' <=> Started) /\ (Damaged' <=> Damaged) /\ FirstChain' = FirstChain
      /\ \A n : FirstZones(n)' <=> FirstZones(n)
  BY <1>1, RestoreStays
<1>3. Started /\ ~Damaged /\ next = FirstChain /\ inodes = set.inodes /\ header.sectors = Total
  BY <1>1 DEF RestoreInv
<1>4. set \in Sets /\ (kept = set.there \/ flags.shrink)
  BY <1>3, EndIsBoundary
<1>5. /\ Len(set.zones) \in Nat /\ Total \in Nat
      /\ \E n : FirstZones(n)
      /\ kept = set.there => FirstZones(Len(set.zones))
  BY <1>3, ZonesAreFirst
<1>6. \E n : FirstZones(n) /\ next' = [FirstChain EXCEPT ![n] = 0]
  <2>1. CASE flags.shrink
    <3>1. PICK n : FirstZones(n)
      BY <1>5
    <3>2. LastZone = n
      BY <1>3, <1>4, <1>5, <3>1, LastZoneFacts
    <3> QED
      BY <1>1, <1>3, <2>1, <3>1, <3>2
  <2>2. CASE ~flags.shrink
    <3>1. FirstZones(Len(set.zones)) /\ next' = FirstChain
      BY <1>1, <1>3, <1>4, <1>5, <2>2
    <3>2. FirstChain = [FirstChain EXCEPT ![Len(set.zones)] = 0]
      BY DEF FirstChain
    <3> QED
      BY <3>1, <3>2
  <2> QED
    BY <2>1, <2>2
<1>7. PICK n : FirstZones(n)' /\ ChainEnds(n)'
  BY <1>2, <1>6 DEF ChainEnds
<1>8. (\E m : FirstZones(m) /\ ChainEnds(m))'
  BY <1>7
<1> QED
  BY <1>1, <1>2, <1>3, <1>8 DEF RestoreInv

LEMMA RestoreInodes ==
  ASSUME RestoreInv, FudgeInodes, KeptInv
  PROVE  RestoreInv'
<1>1. /\ done = "zones" /\ done' = "log"
      /\ inodes' = IF flags.shrink THEN [i \in DOMAIN inodes |-> FudgedInode(inodes[i])] ELSE inodes
      /\ UNCHANGED backupVars /\ UNCHANGED <<header, next>>
  BY DEF FudgeInodes
<1>2. /\ UNCHANGED <<set, kept, stage, error, flags>>
      /\ Total' = Total /\ (Started' <=> Started) /\ (Damaged' <=> Damaged) /\ FirstChain' = FirstChain
      /\ \A n : FirstZones(n)' <=> FirstZones(n)
  BY <1>1, RestoreStays
<1>3. inodes = set.inodes /\ set \in Sets
  BY <1>1 DEF RestoreInv, KeptInv
<1>4. set.inodes \in Seq(Inode)
  BY <1>3, SetsAssumption
<1>5. ASSUME NEW i \in DOMAIN set.inodes, set.inodes[i].stream
      PROVE  \A run : run \in Range(FudgedInode(set.inodes[i]).runs) <=> run \in Range(set.inodes[i].runs) /\ run.sector < Total
  <2>1. set.inodes[i] \in Inode
    BY <1>4
  <2>2. set.inodes[i].runs \in Seq(Run)
    BY <2>1 DEF Inode
  <2>3. FudgedInode(set.inodes[i]).runs = Within(set.inodes[i].runs)
    BY <1>5, <2>1 DEF FudgedInode, Inode
  <2> QED
    BY <2>2, <2>3, WithinFacts
<1>6. ASSUME NEW i \in DOMAIN set.inodes, ~set.inodes[i].stream
      PROVE  FudgedInode(set.inodes[i]) = set.inodes[i]
  BY <1>6 DEF FudgedInode
<1>7. RunsWithin'
  <2>1. DOMAIN inodes' = DOMAIN set.inodes
    BY <1>1, <1>3
  <2>2. ASSUME NEW i \in DOMAIN set.inodes, flags.shrink
        PROVE  inodes'[i] = FudgedInode(set.inodes[i])
    BY <1>1, <1>3, <2>2
  <2>3. ~flags.shrink => inodes' = set.inodes
    BY <1>1, <1>3
  <2> QED
    BY <1>2, <1>5, <1>6, <2>1, <2>2, <2>3 DEF RunsWithin
<1>8. \A n : ChainEnds(n)' <=> ChainEnds(n)
  BY <1>1, <1>2 DEF ChainEnds
<1> QED
  BY <1>1, <1>2, <1>7, <1>8 DEF RestoreInv

LEMMA RestoreNext ==
  ASSUME RestoreInv, [Next]_vars, KeptInv, WellFormed
  PROVE  RestoreInv'
<1>1. CASE Backup
  BY <1>1, RestoreBackup
<1>2. CASE RestoreData
  BY <1>2, RestoreApart DEF RestoreData, Apart
<1>3. CASE MakeSwap
  BY <1>3, RestoreApart DEF MakeSwap, Apart
<1>4. CASE FixupVolList
  BY <1>4, RestoreVolList
<1>5. CASE FixupZoneMaps
  BY <1>5, RestoreZoneMaps
<1>6. CASE FudgeInodes
  BY <1>6, RestoreInodes
<1>7. CASE FudgeSector
  BY <1>7, RestoreApart DEF FudgeSector, Apart
<1>8. CASE EndLog
  BY <1>8, RestoreApart DEF EndLog, Apart
<1>9. CASE UNCHANGED vars
  BY <1>9, RestoreApart DEF vars, finishVars, Apart
<1> QED
  BY <1>1, <1>2, <1>3, <1>4, <1>5, <1>6, <1>7, <1>8, <1>9 DEF Next

LEMMA RestoreRight ==
  ASSUME RestoreInv, KeptInv, WellFormed
  PROVE  NothingDangles
<1> SUFFICES ASSUME Finished
             PROVE  /\ Chain = {z \in DOMAIN set.zones : set.zones[z].sector < header.sectors}
                    /\ \A z \in Chain : set.zones[z].last < header.sectors
                    /\ \A i \in DOMAIN inodes : \A e \in Ends(inodes[i].runs) : e <= header.sectors
                    /\ \A i \in DOMAIN inodes : \A run \in Range(set.inodes[i].runs) :
                         run.sector < header.sectors => run \in Range(inodes[i].runs)
  BY DEF NothingDangles
<1>1. /\ Started /\ ~Damaged /\ header.sectors = Total /\ RunsWithin
      /\ \E n : FirstZones(n) /\ ChainEnds(n)
  BY DEF RestoreInv, Finished
<1>2. /\ set \in Sets /\ Total \in Nat /\ Total \in Boundaries
      /\ kept = set.there \/ flags.shrink
      /\ kept = set.there => Total = SetEnd
  BY <1>1, EndIsBoundary DEF Total
<1>3. set.zones \in Seq(Zone) /\ set.inodes \in Seq(Inode)
  BY <1>2, SetsAssumption
<1>4. Chain = {z \in DOMAIN set.zones : set.zones[z].sector < Total}
  <2>1. PICK n : FirstZones(n) /\ ChainEnds(n)
    BY <1>1
  <2>2. n \in 1..Len(set.zones) /\ DOMAIN set.zones = 1..Len(set.zones) /\ Len(set.zones) \in Nat
    BY <1>3, <2>1 DEF FirstZones
  <2>3. Chain = 1..n
    BY <1>2, <2>1, <2>2, ChainFacts
  <2>4. \A z \in 1..Len(set.zones) : set.zones[z].sector < Total <=> z <= n
    BY <2>1 DEF FirstZones
  <2>5. \A z : z \in 1..n <=> z \in 1..Len(set.zones) /\ z <= n
    BY <2>2
  <2> QED
    BY <2>2, <2>3, <2>4, <2>5
<1>5. ASSUME NEW z \in Chain PROVE set.zones[z].last < Total
  <2>1. z \in DOMAIN set.zones /\ set.zones[z].sector < Total
    BY <1>4
  <2>2. set.zones[z] \in Range(set.zones)
    BY <2>1 DEF Range
  <2> QED
    BY <1>1, <1>2, <2>1, <2>2 DEF WellFormed
<1>6. DOMAIN inodes = DOMAIN set.inodes
  BY <1>1 DEF RunsWithin
<1>7. ASSUME NEW i \in DOMAIN inodes, NEW e \in Ends(inodes[i].runs) PROVE e <= Total
  <2>1. i \in DOMAIN set.inodes /\ set.inodes[i] \in Range(set.inodes)
    BY <1>6 DEF Range
  <2>2. PICK run \in Range(inodes[i].runs) : e = run.sector + run.count
    BY <1>7 DEF Ends
  <2>3. CASE flags.shrink /\ set.inodes[i].stream
    <3>1. run \in Range(set.inodes[i].runs) /\ run.sector < Total
      BY <1>1, <2>1, <2>2, <2>3 DEF RunsWithin
    <3> QED
      BY <1>1, <1>2, <2>1, <2>2, <3>1 DEF WellFormed
  <2>4. CASE ~(flags.shrink /\ set.inodes[i].stream)
    <3>1. inodes[i] = set.inodes[i]
      BY <1>1, <2>1, <2>4 DEF RunsWithin
    <3>2. CASE ~set.inodes[i].stream
      <4>1. KeepsFiles
        BY KeptRight
      <4> QED
        BY <1>1, <1>7, <2>1, <3>1, <3>2, <4>1 DEF KeepsFiles, Total
    <3>3. CASE ~flags.shrink
      <4>1. Total = SetEnd
        BY <1>2, <3>3
      <4> QED
        BY <1>1, <2>1, <2>2, <3>1, <4>1 DEF WellFormed
    <3> QED
      BY <2>4, <3>2, <3>3
  <2> QED
    BY <2>3, <2>4
<1>8. ASSUME NEW i \in DOMAIN inodes, NEW run \in Range(set.inodes[i].runs), run.sector < Total
      PROVE  run \in Range(inodes[i].runs)
  <2>1. i \in DOMAIN set.inodes
    BY <1>6
  <2> QED
    BY <1>1, <1>8, <2>1 DEF RunsWithin
<1> QED
  BY <1>1, <1>4, <1>5, <1>7, <1>8

(* For every disk set that is well-formed and every backup of it: a         *)
(* restored set refers to nothing behind its end, the chain of zones is the *)
(* zones before it, and no run before it is lost (restore_fixup_vol_list,   *)
(* restore_fixup_zone_maps, restore_fudge_inodes).                          *)
THEOREM DanglesTheorem == Spec /\ WellFormed => []NothingDangles
<1>1. Init => KeptInv /\ RestoreInv
  BY KeptInit, RestoreInit
<1>2. KeptInv /\ [Next]_vars => KeptInv'
  BY KeptNext
<1>3. WellFormed /\ [Next]_vars => WellFormed'
  BY SetStays
<1>4. RestoreInv /\ KeptInv /\ WellFormed /\ [Next]_vars => RestoreInv'
  BY RestoreNext
<1>5. RestoreInv /\ KeptInv /\ WellFormed => NothingDangles
  BY RestoreRight
<1> QED
  BY <1>1, <1>2, <1>3, <1>4, <1>5, PTL DEF Spec
=============================================================================
