---------------------------- MODULE VolumeSet_proofs ----------------------------
(***************************************************************************)
(* A set of volumes grows a pair at a time, wherever the machine stops:    *)
(* the sector writes of mfs_add_volume_pair implement the two steps of     *)
(* GrowingSet, for any set, any pairs and any sizes, as long as no write   *)
(* fails; nothing overlaps, and memory and drives agree.                   *)
(***************************************************************************)
EXTENDS VolumeSet, FiniteSetTheorems, SequenceTheorems, WellFoundedInduction, TLAPS

-----------------------------------------------------------------------------
(* Induction over numbers, from the well-foundedness of finite sets.        *)

LEMMA LeastNumber ==
  ASSUME NEW T, T \subseteq Nat, T # {}
  PROVE  \E x \in T : \A y \in T : x <= y
<1>1. PICK n \in T : TRUE
  OBVIOUS
<1> DEFINE S == 1..n
           R == StrictSubsetOrdering(S)
           U == {1..k : k \in {j \in T : j <= n}}
<1>2. IsWellFoundedOn(R, FiniteSubsetsOf(S))
  BY FS_StrictSubsetOrderingWellFounded
<1>3. IsFiniteSet(S)
  BY FS_Interval
<1>4. FiniteSubsetsOf(S) = SUBSET S
  BY <1>3, FS_FiniteSubsetsOfFinite
<1>5. U \subseteq SUBSET S /\ U # {}
  OBVIOUS
<1> HIDE DEF U, R
<1>6. PICK x \in U : \A y \in U : <<y, x>> \notin R
  <2>1. IsWellFoundedOn(R, SUBSET S)
    BY <1>2, <1>4
  <2> HIDE DEF S
  <2> QED
    BY <2>1, <1>5, WFMin, Zenon
<1>7. PICK k \in T : k <= n /\ x = 1..k
  BY <1>6 DEF U
<1>8. ASSUME NEW y \in T, y < k PROVE FALSE
  <2>1. 1..y \in U
    BY <1>7, <1>8 DEF U
  <2>2. <<1..y, 1..k>> \in R
    <3>1. 1..y \subseteq 1..k /\ k \in 1..k /\ k \notin 1..y
      BY <1>8
    <3>2. 1..k \in SUBSET S /\ 1..y \in SUBSET S
      BY <1>7, <1>8
    <3> QED
      BY <3>1, <3>2 DEF R, StrictSubsetOrdering
  <2> QED
    BY <2>1, <2>2, <1>6, <1>7
<1> QED
  BY <1>7, <1>8

(* What holds of 0 and goes on from n to n + 1 holds up to N.               *)
LEMMA Upwards ==
  ASSUME NEW N \in Nat, NEW T, 0 \in T, \A n \in 0..(N - 1) : n \in T => n + 1 \in T
  PROVE  \A n \in 0..N : n \in T
<1> DEFINE Bad == {n \in 0..N : n \notin T}
<1>1. SUFFICES ASSUME Bad # {} PROVE FALSE
  OBVIOUS
<1>2. Bad \subseteq Nat
  OBVIOUS
<1>3. PICK n \in Bad : \A y \in Bad : n <= y
  <2> HIDE DEF Bad
  <2> QED
    BY <1>1, <1>2, LeastNumber
<1>4. n \in 0..N /\ n \notin T /\ n # 0
  OBVIOUS
<1>5. n - 1 \in 0..(N - 1) /\ (n - 1) + 1 = n /\ n - 1 \in 0..N /\ ~(n <= n - 1)
  BY <1>4
<1>6. n - 1 \in T
  BY <1>3, <1>5
<1> QED
  BY <1>4, <1>5, <1>6

-----------------------------------------------------------------------------
(* Volumes one after another.                                               *)

LEMMA RoundedNat ==
  ASSUME NEW p \in Parts
  PROVE  Rounded(p) \in Nat /\ Rounded(p) <= Size[p]
<1>1. Size[p] \in Nat /\ Round \in Nat \ {0}
  BY SizeAssumption
<1> QED
  BY <1>1 DEF Rounded

StartsFrom(s, list) ==
  /\ s[1] = 0
  /\ \A k \in 1..Len(list) : s[k + 1] = s[k] + Rounded(list[k])
  /\ \A k \in 1..(Len(list) + 1) : s[k] \in Nat

(* The sums of the sizes exist.                                             *)
LEMMA StartsIs ==
  ASSUME NEW list \in Seq(Parts)
  PROVE  StartsFrom(Starts(list), list)
<1> DEFINE N == Len(list)
           T(s, k) == IF k = 1 THEN 0 ELSE s[k - 1] + Rounded(list[k - 1])
           Upto(n) == \E s \in [1..(n + 1) -> Nat] : \A k \in 1..(n + 1) : s[k] = T(s, k)
           U == {n \in Nat : Upto(n)}
<1>0. N \in Nat /\ \A k \in 1..N : Rounded(list[k]) \in Nat
  BY RoundedNat
<1>1. 0 \in U
  <2> DEFINE s == [k \in 1..1 |-> 0]
  <2>1. s \in [1..(0 + 1) -> Nat] /\ \A k \in 1..(0 + 1) : s[k] = T(s, k)
    OBVIOUS
  <2> QED
    BY <2>1
<1>2. ASSUME NEW n \in 0..(N - 1), n \in U
      PROVE  n + 1 \in U
  <2>0. n \in Nat /\ n + 1 \in Nat /\ n + 1 \in 1..N
    BY <1>0
  <2>1. PICK s \in [1..(n + 1) -> Nat] : \A k \in 1..(n + 1) : s[k] = T(s, k)
    BY <1>2
  <2> DEFINE h == [k \in 1..((n + 1) + 1) |-> IF k = n + 2 THEN s[n + 1] + Rounded(list[n + 1]) ELSE s[k]]
  <2>2. h \in [1..((n + 1) + 1) -> Nat]
    <3>1. s[n + 1] \in Nat /\ Rounded(list[n + 1]) \in Nat
      BY <1>0, <2>0
    <3>2. \A k \in 1..((n + 1) + 1) : k # n + 2 => k \in 1..(n + 1)
      BY <2>0
    <3> QED
      BY <3>1, <3>2
  <2>3. ASSUME NEW k \in 1..((n + 1) + 1)
        PROVE  h[k] = T(h, k)
    <3>1. CASE k = n + 2
      <4>1. h[k] = s[n + 1] + Rounded(list[n + 1]) /\ k - 1 = n + 1 /\ k # 1
        BY <3>1, <2>0
      <4>2. h[n + 1] = s[n + 1]
        BY <2>0
      <4> HIDE DEF h
      <4> QED
        BY <4>1, <4>2
    <3>2. CASE k # n + 2
      <4>1. k \in 1..(n + 1) /\ h[k] = s[k]
        BY <3>2, <2>0
      <4>2. k # 1 => h[k - 1] = s[k - 1]
        BY <4>1, <2>0
      <4>3. s[k] = T(s, k)
        BY <2>1, <4>1
      <4> HIDE DEF h
      <4> QED
        BY <4>1, <4>2, <4>3
    <3> QED
      BY <3>1, <3>2
  <2> HIDE DEF h
  <2> QED
    BY <2>0, <2>2, <2>3
<1>3. N \in U
  <2> HIDE DEF U, N
  <2>1. \A n \in 0..(N - 1) : n \in U => n + 1 \in U
    BY <1>2
  <2>2. N \in Nat
    BY <1>0
  <2>3. \A n \in 0..N : n \in U
    BY <1>1, <2>1, <2>2, Upwards, Zenon
  <2> QED
    BY <2>2, <2>3
<1>4. PICK f \in [1..(N + 1) -> Nat] : \A k \in 1..(N + 1) : f[k] = T(f, k)
  BY <1>3
<1> DEFINE G(s) == [k \in 1..(N + 1) |-> IF k = 1 THEN 0 ELSE s[k - 1] + Rounded(list[k - 1])]
           c == CHOOSE s : s = G(s)
<1>5. f = G(f)
  BY <1>4
<1>6. c = G(c)
  <2> HIDE DEF G
  <2> QED
    BY <1>5
<1>7. Starts(list) = c
  BY DEF Starts
<1> HIDE DEF c
<1>8. \A k \in 1..(N + 1) : c[k] = T(c, k)
  BY <1>6
<1>9. c[1] = 0
  BY <1>0, <1>8
<1>10. \A k \in 1..N : c[k + 1] = c[k] + Rounded(list[k])
  <2> TAKE k \in 1..N
  <2>1. k + 1 \in 1..(N + 1) /\ k + 1 # 1 /\ (k + 1) - 1 = k
    BY <1>0
  <2> QED
    BY <2>1, <1>8
<1> DEFINE V == {n \in Nat : c[n + 1] \in Nat}
<1>11. 0 \in V
  BY <1>9
<1>12. ASSUME NEW n \in 0..(N - 1), n \in V
       PROVE  n + 1 \in V
  <2>1. n + 1 \in 1..N /\ n + 1 \in Nat
    BY <1>0
  <2>2. c[(n + 1) + 1] = c[n + 1] + Rounded(list[n + 1])
    BY <2>1, <1>10
  <2>3. c[n + 1] \in Nat /\ Rounded(list[n + 1]) \in Nat
    BY <1>12, <1>0, <2>1
  <2> QED
    BY <2>1, <2>2, <2>3
<1>13. \A n \in 0..N : n \in V
  <2> HIDE DEF V
  <2> QED
    BY <1>0, <1>11, <1>12, Upwards
<1>14. \A k \in 1..(N + 1) : c[k] \in Nat
  <2> TAKE k \in 1..(N + 1)
  <2>1. k - 1 \in 0..N /\ (k - 1) + 1 = k
    BY <1>0
  <2> QED
    BY <2>1, <1>13
<1> QED
  BY <1>7, <1>9, <1>10, <1>14 DEF StartsFrom

LEMMA StartsGrow ==
  ASSUME NEW list \in Seq(Parts), NEW i \in 1..(Len(list) + 1), NEW j \in 1..(Len(list) + 1), i <= j
  PROVE  Starts(list)[i] <= Starts(list)[j]
<1> DEFINE s == Starts(list)
           N == Len(list)
           U == {n \in Nat : i + n <= N + 1 => s[i] <= s[i + n]}
<1>0. N \in Nat /\ i \in Nat /\ j \in Nat /\ \A k \in 1..N : Rounded(list[k]) \in Nat
  BY RoundedNat
<1>1. StartsFrom(s, list)
  BY StartsIs
<1> HIDE DEF s
<1>2. 0 \in U
  BY <1>0, <1>1 DEF StartsFrom
<1>3. ASSUME NEW n \in 0..(N - i), n \in U
      PROVE  n + 1 \in U
  <2> SUFFICES ASSUME i + (n + 1) <= N + 1 PROVE s[i] <= s[i + (n + 1)]
    BY <1>0
  <2>1. i + n \in 1..N /\ i + n \in 1..(N + 1) /\ i + (n + 1) = (i + n) + 1
    BY <1>0
  <2>2. s[i] <= s[i + n]
    BY <1>3, <2>1
  <2>3. s[(i + n) + 1] = s[i + n] + Rounded(list[i + n]) /\ s[i + n] \in Nat /\ s[i] \in Nat
    BY <2>1, <1>1 DEF StartsFrom
  <2>4. Rounded(list[i + n]) \in Nat
    BY <1>0, <2>1
  <2> QED
    BY <2>1, <2>2, <2>3, <2>4
<1>4. (N + 1) - i \in Nat /\ j - i \in 0..((N + 1) - i) /\ i + (j - i) = j /\ i + (j - i) <= N + 1
  BY <1>0
<1>5. \A n \in 0..((N + 1) - i) : n \in U
  <2> HIDE DEF U, N
  <2>1. \A n \in 0..(((N + 1) - i) - 1) : n \in U => n + 1 \in U
    BY <1>0, <1>3
  <2> QED
    BY <1>2, <1>4, <2>1, Upwards, Zenon
<1> QED
  BY <1>4, <1>5 DEF s

(* What is added behind changes nothing before.                             *)
LEMMA StartsMore ==
  ASSUME NEW list \in Seq(Parts), NEW more \in Seq(Parts)
  PROVE  /\ list \o more \in Seq(Parts)
         /\ Len(list \o more) = Len(list) + Len(more)
         /\ \A k \in 1..Len(list) : (list \o more)[k] = list[k]
         /\ \A k \in 1..Len(more) : (list \o more)[Len(list) + k] = more[k]
         /\ \A k \in 1..(Len(list) + 1) : Starts(list \o more)[k] = Starts(list)[k]
<1> DEFINE both == list \o more
           N == Len(list)
           s == Starts(list)
           t == Starts(both)
           U == {n \in Nat : s[n + 1] = t[n + 1]}
<1>0. N \in Nat /\ Len(more) \in Nat
  OBVIOUS
<1>1. /\ both \in Seq(Parts)
      /\ Len(both) = N + Len(more)
      /\ \A k \in 1..N : both[k] = list[k]
      /\ \A k \in 1..Len(more) : both[N + k] = more[k]
  OBVIOUS
<1> HIDE DEF both
<1>2. StartsFrom(s, list) /\ StartsFrom(t, both)
  BY <1>1, StartsIs
<1> HIDE DEF s, t
<1>3. 0 \in U
  BY <1>2 DEF StartsFrom
<1>4. ASSUME NEW n \in 0..(N - 1), n \in U
      PROVE  n + 1 \in U
  <2>1. n + 1 \in 1..N /\ n + 1 \in 1..Len(both) /\ n + 1 \in Nat
    BY <1>0, <1>1
  <2>2. s[(n + 1) + 1] = s[n + 1] + Rounded(list[n + 1])
    BY <2>1, <1>2 DEF StartsFrom
  <2>3. t[(n + 1) + 1] = t[n + 1] + Rounded(both[n + 1])
    BY <2>1, <1>2 DEF StartsFrom
  <2> QED
    BY <2>1, <2>2, <2>3, <1>1, <1>4
<1>5. \A n \in 0..N : n \in U
  <2> HIDE DEF U, N
  <2>1. \A n \in 0..(N - 1) : n \in U => n + 1 \in U
    BY <1>4
  <2> QED
    BY <1>0, <1>3, <2>1, Upwards, Zenon
<1>6. ASSUME NEW k \in 1..(N + 1)
      PROVE  t[k] = s[k]
  <2>1. k - 1 \in 0..N /\ (k - 1) + 1 = k
    BY <1>0
  <2> QED
    BY <2>1, <1>5
<1> QED
  BY <1>1, <1>6 DEF s, t, both

(* Sector s lies in volume k.                                               *)
LiesIn(list, k, s) ==
  k \in 1..Len(list) /\ Starts(list)[k] <= s /\ s < Starts(list)[k + 1]

Lies(list, s) == \E k \in 1..Len(list) : LiesIn(list, k, s)

LEMMA SetSizeNat ==
  ASSUME NEW list \in Seq(Parts)
  PROVE  /\ SetSize(list) \in Nat
         /\ \A k, s : LiesIn(list, k, s) => s < SetSize(list) \/ s \notin Nat
<1> DEFINE N == Len(list)
<1>1. N \in Nat /\ StartsFrom(Starts(list), list)
  BY StartsIs
<1>2. SetSize(list) \in Nat /\ SetSize(list) = Starts(list)[N + 1]
  BY <1>1 DEF SetSize, StartsFrom
<1>3. ASSUME NEW k, NEW s, LiesIn(list, k, s), s \in Nat
      PROVE  s < SetSize(list)
  <2>1. k \in 1..N /\ k + 1 \in 1..(N + 1) /\ N + 1 \in 1..(N + 1) /\ k + 1 <= N + 1 /\ s < Starts(list)[k + 1]
    BY <1>1, <1>3 DEF LiesIn
  <2>2. Starts(list)[k + 1] <= Starts(list)[N + 1]
    BY <2>1, StartsGrow
  <2>3. Starts(list)[k + 1] \in Nat /\ Starts(list)[N + 1] \in Nat
    BY <2>1, <1>1 DEF StartsFrom
  <2> QED
    BY <2>1, <2>2, <2>3, <1>2, <1>3
<1> QED
  BY <1>2, <1>3

LEMMA LiesInOne ==
  ASSUME NEW list \in Seq(Parts), NEW s \in Nat, NEW k, NEW l, LiesIn(list, k, s), LiesIn(list, l, s)
  PROVE  k = l
<1>1. StartsFrom(Starts(list), list) /\ Len(list) \in Nat
  BY StartsIs
<1>2. ASSUME NEW i, NEW j, LiesIn(list, i, s), LiesIn(list, j, s), i < j
      PROVE  FALSE
  <2>1. /\ i \in 1..Len(list) /\ j \in 1..Len(list)
        /\ i + 1 \in 1..(Len(list) + 1) /\ j \in 1..(Len(list) + 1) /\ i + 1 <= j
        /\ s < Starts(list)[i + 1] /\ Starts(list)[j] <= s
    BY <1>1, <1>2 DEF LiesIn
  <2>2. Starts(list)[i + 1] <= Starts(list)[j]
    BY <2>1, StartsGrow
  <2>3. Starts(list)[i + 1] \in Nat /\ Starts(list)[j] \in Nat
    BY <2>1, <1>1 DEF StartsFrom
  <2> QED
    BY <2>1, <2>2, <2>3
<1>3. k < l \/ l < k \/ k = l
  BY DEF LiesIn
<1> QED
  BY ONLY <1>2, <1>3, LiesIn(list, k, s), LiesIn(list, l, s), Zenon

LEMMA PlaceIs ==
  ASSUME NEW list \in Seq(Parts), NEW s \in Nat, NEW k, LiesIn(list, k, s)
  PROVE  /\ Place(list, s) = <<list[k], s - Starts(list)[k]>>
         /\ list[k] \in Parts
         /\ s - Starts(list)[k] \in 0..(Rounded(list[k]) - 1)
         /\ s - Starts(list)[k] \in 0..(Size[list[k]] - 1)
<1> DEFINE at == Starts(list)
           P(j) == at[j] <= s /\ s < at[j + 1]
           c == CHOOSE j \in 1..Len(list) : P(j)
<1>1. k \in 1..Len(list) /\ P(k)
  BY DEF LiesIn
<1>2. c \in 1..Len(list) /\ P(c)
  BY <1>1
<1>3. Place(list, s) = <<list[c], s - at[c]>>
  BY DEF Place
<1> HIDE DEF c
<1>4. c = k
  BY <1>2, LiesInOne DEF LiesIn
<1>5. StartsFrom(at, list) /\ Len(list) \in Nat /\ list[k] \in Parts
  BY <1>1, StartsIs
<1>6. at[k] \in Nat /\ at[k + 1] = at[k] + Rounded(list[k])
  BY <1>1, <1>5 DEF StartsFrom
<1>7. Rounded(list[k]) \in Nat /\ Rounded(list[k]) <= Size[list[k]] /\ Size[list[k]] \in Nat
  BY <1>5, RoundedNat, SizeAssumption
<1> HIDE DEF at
<1>8. s - at[k] \in 0..(Rounded(list[k]) - 1) /\ s - at[k] \in 0..(Size[list[k]] - 1)
  BY <1>1, <1>6, <1>7
<1> QED
  BY <1>3, <1>4, <1>5, <1>8 DEF at

LEMMA PlacesDiffer ==
  ASSUME NEW list \in Seq(Parts), IsInjective(list),
         NEW s \in Nat, NEW t \in Nat, Lies(list, s), Lies(list, t),
         Place(list, s) = Place(list, t)
  PROVE  s = t
<1>1. PICK k \in 1..Len(list) : LiesIn(list, k, s)
  BY DEF Lies
<1>2. PICK l \in 1..Len(list) : LiesIn(list, l, t)
  BY DEF Lies
<1>3. Place(list, s) = <<list[k], s - Starts(list)[k]>>
  BY <1>1, PlaceIs
<1>4. Place(list, t) = <<list[l], t - Starts(list)[l]>>
  BY <1>2, PlaceIs
<1>5. list[k] = list[l] /\ s - Starts(list)[k] = t - Starts(list)[l]
  <2>1. <<list[k], s - Starts(list)[k]>> = <<list[l], t - Starts(list)[l]>>
    BY <1>3, <1>4
  <2> QED
    BY ONLY <2>1
<1>6. k = l
  BY <1>5 DEF IsInjective
<1>7. Starts(list)[k] \in Nat
  BY StartsIs DEF StartsFrom
<1> QED
  BY <1>5, <1>6, <1>7

(* A sector of a set is a cell of a partition.                              *)
Cells == {w \in Parts \X Nat : w[2] < Size[w[1]]}

LEMMA PlaceIsCell ==
  ASSUME NEW list \in Seq(Parts), NEW s \in Nat, Lies(list, s)
  PROVE  Place(list, s) \in Cells /\ Place(list, s)[1] \in Parts
<1>1. PICK k \in 1..Len(list) : LiesIn(list, k, s)
  BY DEF Lies
<1>2. /\ Place(list, s) = <<list[k], s - Starts(list)[k]>>
      /\ list[k] \in Parts
      /\ s - Starts(list)[k] \in 0..(Size[list[k]] - 1)
  BY <1>1, PlaceIs
<1>3. Size[list[k]] \in Nat
  BY <1>2, SizeAssumption
<1>4. s - Starts(list)[k] \in Nat /\ s - Starts(list)[k] < Size[list[k]]
  BY <1>2, <1>3
<1> QED
  BY <1>2, <1>4 DEF Cells

(* A run that fits is in one volume, all of it.                             *)
LEMMA FitsIn ==
  ASSUME NEW list \in Seq(Parts), NEW s \in Nat, NEW n \in Nat, Fits(list, s, n)
  PROVE  \E k \in 1..Len(list) :
           /\ LiesIn(list, k, s)
           /\ \A t \in s..(s + n - 1) : LiesIn(list, k, t)
<1>1. PICK k \in 1..Len(list) : /\ Starts(list)[k] <= s /\ s < Starts(list)[k + 1]
                                /\ s + n <= Starts(list)[k + 1]
  BY DEF Fits
<1>2. StartsFrom(Starts(list), list) /\ k + 1 \in 1..(Len(list) + 1) /\ k \in 1..(Len(list) + 1)
  BY StartsIs
<1>3. Starts(list)[k] \in Nat /\ Starts(list)[k + 1] \in Nat
  BY <1>2 DEF StartsFrom
<1>4. LiesIn(list, k, s)
  BY <1>1 DEF LiesIn
<1>5. ASSUME NEW t \in s..(s + n - 1) PROVE LiesIn(list, k, t)
  <2>1. Starts(list)[k] <= t /\ t < Starts(list)[k + 1]
    BY <1>1, <1>3
  <2> QED
    BY <2>1 DEF LiesIn
<1> QED
  BY <1>4, <1>5

LEMMA FitsLies ==
  ASSUME NEW list \in Seq(Parts), NEW s \in Nat, NEW n \in Nat, Fits(list, s, n)
  PROVE  /\ Lies(list, s) /\ s < SetSize(list)
         /\ \A t \in s..(s + n - 1) : Lies(list, t) /\ t < SetSize(list) /\ t \in Nat
         /\ \A t \in s..(s + n - 1) : Place(list, t)[1] = Place(list, s)[1]
<1>1. PICK k \in 1..Len(list) : LiesIn(list, k, s) /\ \A t \in s..(s + n - 1) : LiesIn(list, k, t)
  BY FitsIn
<1>2. Lies(list, s) /\ s < SetSize(list)
  BY <1>1, SetSizeNat DEF Lies
<1>3. ASSUME NEW t \in s..(s + n - 1)
      PROVE  /\ Lies(list, t) /\ t < SetSize(list) /\ t \in Nat
             /\ Place(list, t)[1] = Place(list, s)[1]
  <2>1. t \in Nat /\ LiesIn(list, k, t)
    BY <1>1
  <2>2. Lies(list, t) /\ t < SetSize(list)
    BY <2>1, SetSizeNat DEF Lies
  <2>3. Place(list, t) = <<list[k], t - Starts(list)[k]>>
    BY <2>1, PlaceIs
  <2>4. Place(list, s) = <<list[k], s - Starts(list)[k]>>
    BY <1>1, PlaceIs
  <2> QED
    BY <2>1, <2>2, <2>3, <2>4
<1> QED
  BY <1>2, <1>3

(* Volumes that are added behind leave the sectors before where they are.   *)
LEMMA SameBefore ==
  ASSUME NEW list \in Seq(Parts), NEW more \in Seq(Parts)
  PROVE  /\ \A s, n \in Nat : Fits(list, s, n) => Fits(list \o more, s, n)
         /\ \A s \in Nat : Lies(list, s) => /\ Lies(list \o more, s)
                                            /\ Place(list \o more, s) = Place(list, s)
<1> DEFINE both == list \o more
<1>1. /\ both \in Seq(Parts) /\ Len(both) = Len(list) + Len(more)
      /\ \A k \in 1..Len(list) : both[k] = list[k]
      /\ \A k \in 1..(Len(list) + 1) : Starts(both)[k] = Starts(list)[k]
      /\ Len(list) \in Nat /\ Len(more) \in Nat
  BY StartsMore
<1> HIDE DEF both
<1>2. \A k \in 1..Len(list) : /\ k \in 1..Len(both) /\ Starts(both)[k] = Starts(list)[k]
                              /\ Starts(both)[k + 1] = Starts(list)[k + 1]
  BY <1>1
<1>3. ASSUME NEW s \in Nat, NEW n \in Nat, Fits(list, s, n)
      PROVE  Fits(both, s, n)
  BY <1>2, <1>3 DEF Fits
<1>4. ASSUME NEW s \in Nat, Lies(list, s)
      PROVE  Lies(both, s) /\ Place(both, s) = Place(list, s)
  <2>1. PICK k \in 1..Len(list) : LiesIn(list, k, s)
    BY <1>4 DEF Lies
  <2>2. LiesIn(both, k, s)
    BY <2>1, <1>2 DEF LiesIn
  <2>3. Place(list, s) = <<list[k], s - Starts(list)[k]>>
    BY <2>1, PlaceIs
  <2>4. Place(both, s) = <<both[k], s - Starts(both)[k]>>
    BY <2>2, <1>1, PlaceIs
  <2> QED
    BY <2>2, <2>3, <2>4, <1>1, <1>2 DEF Lies
<1> QED
  BY <1>3, <1>4 DEF both

-----------------------------------------------------------------------------
(* Reading.                                                                 *)

(* The first copy of z is on the drives.                                    *)
MapOn(list, z) == \A k \in 1..z.len : Sector(list, z.at + k - 1) = ZoneSectors(z)[k]

LEMMA ReadIs ==
  ASSUME NEW list \in Seq(Parts), NEW z \in Zone, z.len > 0, Fits(list, z.at, z.len), MapOn(list, z)
  PROVE  ReadZone(list, PtrTo(z)) = z
<1>1. z.at \in Nat /\ z.len \in Nat /\ 1 \in 1..z.len /\ z.at + 1 - 1 = z.at
  BY DEF Zone
<1>2. Sector(list, z.at) = [kind |-> "zone", zone |-> z]
  BY <1>1 DEF MapOn, ZoneSectors
<1>3. ZoneSectors(z) = [k \in 1..z.len |-> Sector(list, z.at + k - 1)]
  BY DEF MapOn, ZoneSectors
<1>4. ReadCopy(list, z.at, z.len) = z
  <2> DEFINE head == Sector(list, z.at)
  <2>1. head.kind = "zone" /\ head.zone = z
    BY <1>2
  <2> QED
    BY <1>3, <2>1 DEF ReadCopy
<1>5. z # Nil
  BY NilAssumption
<1> QED
  BY <1>4, <1>5 DEF ReadZone, PtrTo

LEMMA ReadNothing ==
  ASSUME NEW list \in Seq(Parts), NEW p \in Ptr, p.at >= SetSize(list), p.backup >= SetSize(list)
  PROVE  ReadZone(list, p) = Nil
<1>1. p.at \in Nat /\ p.backup \in Nat /\ p.len \in Nat
  BY DEF Ptr
<1>2. SetSize(list) \in Nat
  BY SetSizeNat
<1>3. ASSUME NEW s \in Nat, s >= SetSize(list)
      PROVE  ReadCopy(list, s, p.len) = Nil
  <2>1. ~Fits(list, s, p.len)
    BY <1>1, <1>2, <1>3, FitsLies
  <2> QED
    BY <2>1 DEF ReadCopy
<1> QED
  BY <1>1, <1>3 DEF ReadZone

(* What is read link by link, from map to the end of the chain.             *)
Follows(list, map, so) ==
  /\ so[1] = ReadZone(list, map)
  /\ \A k \in 1..(Len(so) - 1) : /\ so[k] # Nil /\ so[k].next # Nil
                                 /\ so[k + 1] = ReadZone(list, so[k].next)
  /\ so[Len(so)] = Nil \/ so[Len(so)].next = Nil

LEMMA ChainIs ==
  ASSUME NEW list \in Seq(Parts), NEW map, NEW S, NEW so \in Seq(S), Follows(list, map, so),
         Len(so) >= 1, Len(so) <= SetSize(list) + 1
  PROVE  Chain(list, map) = so
<1> DEFINE N == SetSize(list)
           M == Len(so)
           E(c) == [n \in 0..N |->
                      IF n = 0 THEN {<<ReadZone(list, map)>>} ELSE {Followed(list, x) : x \in c[n - 1]}]
           Upto(n) == IF n < M THEN n + 1 ELSE M
           part(n) == SubSeq(so, 1, Upto(n))
           f == [n \in 0..N |-> {part(n)}]
           c == CHOOSE c : c = E(c)
<1>0. N \in Nat /\ M \in Nat /\ M >= 1 /\ M <= N + 1
  BY SetSizeNat
<1>1. \A n \in 0..N : /\ Upto(n) \in 1..M /\ part(n) \in Seq(S) /\ Len(part(n)) = Upto(n)
                      /\ \A k \in 1..Upto(n) : part(n)[k] = so[k]
  <2> TAKE n \in 0..N
  <2>1. Upto(n) \in 1..M
    BY <1>0
  <2> QED
    BY <2>1
<1>2. part(0) = <<ReadZone(list, map)>>
  <2>1. Upto(0) = 1
    BY <1>0
  <2>2. SubSeq(so, 1, 1) = <<so[1]>>
    <3>1. SubSeq(so, 1, 1) \in Seq(S) /\ Len(SubSeq(so, 1, 1)) = 1 /\ SubSeq(so, 1, 1)[1] = so[1]
      BY <1>0
    <3>2. \A q \in Seq(S) : Len(q) = 1 => q = <<q[1]>>
      OBVIOUS
    <3> QED
      BY ONLY <3>1, <3>2
  <2>3. part(0) = <<so[1]>>
    BY <2>1, <2>2
  <2> QED
    BY <2>3 DEF Follows
<1>3. ASSUME NEW n \in 1..N
      PROVE  part(n) = Followed(list, part(n - 1))
  <2>0. n - 1 \in 0..N /\ n \in 0..N
    BY <1>0
  <2>1. Last(part(n - 1)) = so[Upto(n - 1)]
    BY <1>1, <2>0 DEF Last
  <2>2. CASE n < M
    <3>1. Upto(n - 1) = n /\ Upto(n) = n + 1 /\ n \in 1..(M - 1)
      BY <1>0, <2>0, <2>2
    <3>2. so[n] # Nil /\ so[n].next # Nil /\ so[n + 1] = ReadZone(list, so[n].next)
      BY <3>1 DEF Follows
    <3>3. Followed(list, part(n - 1)) = Append(part(n - 1), so[n + 1])
      BY <2>1, <3>1, <3>2 DEF Followed
    <3>4. part(n) = Append(SubSeq(so, 1, n), so[n + 1])
      BY <3>1, <1>0
    <3> QED
      BY <3>1, <3>3, <3>4
  <2>3. CASE ~(n < M)
    <3>1. Upto(n - 1) = M /\ Upto(n) = M
      BY <1>0, <2>0, <2>3
    <3>2. so[M] = Nil \/ so[M].next = Nil
      BY DEF Follows
    <3>3. Followed(list, part(n - 1)) = part(n - 1)
      BY <2>1, <3>1, <3>2 DEF Followed
    <3> QED
      BY <3>1, <3>3
  <2> QED
    BY <2>2, <2>3
<1>4. f = E(f)
  <2> HIDE DEF part
  <2>1. ASSUME NEW n \in 0..N
        PROVE  f[n] = E(f)[n]
    <3>1. CASE n = 0
      BY <3>1, <1>2
    <3>2. CASE n # 0
      <4>1. n \in 1..N /\ n - 1 \in 0..N
        BY <1>0, <3>2
      <4>2. f[n - 1] = {part(n - 1)} /\ f[n] = {part(n)}
        BY <4>1
      <4>3. E(f)[n] = {Followed(list, x) : x \in f[n - 1]}
        BY <3>2
      <4> HIDE DEF f, E
      <4> QED
        BY <4>1, <4>2, <4>3, <1>3
    <3> QED
      BY <3>1, <3>2
  <2> QED
    BY <2>1
<1>5. c = E(c)
  <2> HIDE DEF E, f
  <2> QED
    BY <1>4
<1> HIDE DEF c, part
<1>6. c[0] = {part(0)}
  BY <1>0, <1>2, <1>5
<1> DEFINE U == {n \in Nat : c[n] = {part(n)}}
<1>7. ASSUME NEW n \in 0..(N - 1), n \in U
      PROVE  n + 1 \in U
  <2>1. n + 1 \in 1..N /\ n + 1 \in 0..N /\ (n + 1) - 1 = n /\ n + 1 # 0
    BY <1>0
  <2>2. c[n + 1] = {Followed(list, x) : x \in c[n]}
    BY <2>1, <1>5
  <2>3. c[n + 1] = {Followed(list, part(n))}
    BY <2>2, <1>7
  <2> QED
    BY <2>1, <2>3, <1>3
<1>8. N \in U
  <2> HIDE DEF U, N
  <2>1. \A n \in 0..(N - 1) : n \in U => n + 1 \in U
    BY <1>7
  <2>2. 0 \in U
    BY <1>6 DEF U
  <2>3. \A n \in 0..N : n \in U
    BY <1>0, <2>1, <2>2, Upwards, Zenon
  <2> QED
    BY <1>0, <2>3
<1>9. part(N) = so
  <2>1. Upto(N) = M
    BY <1>0
  <2>2. SubSeq(so, 1, M) = so
    OBVIOUS
  <2> QED
    BY <2>1, <2>2 DEF part
<1>10. Chain(list, map) = CHOOSE x \in c[N] : TRUE
  BY DEF Chain, c
<1> QED
  BY <1>8, <1>9, <1>10

-----------------------------------------------------------------------------
(* The invariant.  A set of volumes has areas: the two copies of the header *)
(* and, for each zone map, its two copies and its zone.                     *)

Spots(n) ==
  {<<"header", 0>>, <<"backup header", 0>>} \cup
  {<<"map", i>> : i \in 1..n} \cup {<<"backup map", i>> : i \in 1..n} \cup {<<"zone", i>> : i \in 1..n}

Lo(zs, x) ==
  IF x[1] = "header" THEN 0
  ELSE IF x[1] = "backup header" THEN Rounded(Root) - 1
  ELSE IF x[1] = "map" THEN zs[x[2]].at
  ELSE IF x[1] = "backup map" THEN zs[x[2]].backup
  ELSE zs[x[2]].first

Width(zs, x) ==
  IF x[1] \in {"header", "backup header"} THEN 1
  ELSE IF x[1] = "zone" THEN zs[x[2]].size
  ELSE zs[x[2]].len

\* Every area is in one volume, and no two of them meet.
Roomy(list, zs) ==
  /\ \A x \in Spots(Len(zs)) : Lo(zs, x) \in Nat /\ Fits(list, Lo(zs, x), Width(zs, x))
  /\ \A x, y \in Spots(Len(zs)) :
       x # y => \/ Lo(zs, x) + Width(zs, x) <= Lo(zs, y)
                \/ Lo(zs, y) + Width(zs, y) <= Lo(zs, x)

\* The volumes and the zone maps of a set, the maps but for the last linked to
\* the next one, and a pair of volumes for every map that was added.
Shape(list, zs) ==
  /\ list \in Seq(Parts) /\ Len(list) > 0 /\ list[1] = Root /\ IsInjective(list)
  /\ \A k \in 1..Len(list) : Rounded(list[k]) > 0
  /\ zs \in Seq(Zone) /\ Len(zs) > 0 /\ Len(zs) <= SetSize(list)
  /\ \A i \in 1..Len(zs) : zs[i].len > 0
  /\ \A i \in 1..(Len(zs) - 1) : zs[i].next = PtrTo(zs[i + 1])
  /\ Roomy(list, zs)
  /\ Len(Formatted[Root][0].list) = Len(list) - 2 * (Len(zs) - Maps)

\* The last map of zs linked to z, and z behind it.
Joined(zs, z) ==
  [i \in 1..(Len(zs) + 1) |->
     IF i < Len(zs) THEN zs[i]
     ELSE IF i = Len(zs) THEN [zs[i] EXCEPT !.next = PtrTo(z)]
     ELSE z]

\* The zone maps with the one for pair p.
Added(list, zs, p) == Joined(zs, NewZone(list, p[1], p[2]))

\* Pair p may be added.
May(list, p) ==
  /\ p \in Pairs /\ p[1] # p[2] /\ {p[1], p[2]} \cap ToSet(list) = {}
  /\ NotEmpty(p[1], p[2]) /\ MapFits(p[1], p[2])

\* A sector for each that there is.
SecOK == DOMAIN sec = Parts /\ \A p \in Parts : DOMAIN sec[p] = 0..(Size[p] - 1)

\* A set that is complete.
Whole(list, zs) ==
  /\ Shape(list, zs)
  /\ zs[Len(zs)].next = Nil
  /\ sec[Root][0] = Header(list, PtrTo(zs[1]))
  /\ \A i \in 1..Len(zs) : MapOn(list, zs[i])

\* A set whose last map is linked to that of a pair the header does not name.
Half(list, zs, p) ==
  /\ Shape(list, zs) /\ May(list, p)
  /\ sec[Root][0] = Header(list, PtrTo(zs[1]))
  /\ \A i \in 1..(Len(zs) + 1) : MapOn(list \o p, Added(list, zs, p)[i])

\* Where a write of a set with the volumes of list goes.
At(list, w) == CHOOSE s \in Nat : Lies(list, s) /\ Place(list, s) = w.place

Held ==
  {Header(l, m) : l \in Seq(Parts), m \in Ptr} \cup
  UNION {{ZoneSectors(z)[k] : k \in 1..z.len} : z \in Zone}

Writ == [place : Cells, v : Held]

\* The writes W that make the set list with the maps zs and the header hdr of a
\* set without the last map: the link is number J, the header number H.
Order(W, list, zs, hdr, J, H) ==
  /\ W \in Seq(Writ) /\ J \in Nat /\ H \in Nat /\ zs[Len(zs)].len < J /\ J < H /\ H <= Len(W)
  /\ \A i \in 1..Len(W) :
       /\ At(list, W[i]) \in Nat /\ Lies(list, At(list, W[i]))
       /\ W[i].place = Place(list, At(list, W[i]))
       /\ At(list, W[i]) = 0 => W[i].v = hdr
       /\ \A q \in 1..Len(zs) : \A k \in 1..zs[q].len :
            At(list, W[i]) = zs[q].at + k - 1 => W[i].v = ZoneSectors(zs[q])[k]
       /\ i < J => At(list, W[i]) # zs[Len(zs) - 1].at
       /\ i < H => At(list, W[i]) # 0
  /\ At(list, W[J]) = zs[Len(zs) - 1].at /\ At(list, W[H]) = 0
  /\ \A k \in 1..zs[Len(zs)].len : At(list, W[k]) = zs[Len(zs)].at + k - 1

\* What the drives hold when j of these writes are done, and before that the
\* header old and the sector head of the map the link will be in.
After(j, list, zs, hdr, J, H, old, head) ==
  /\ Sector(list, 0) = IF j < H THEN old ELSE hdr
  /\ Sector(list, zs[Len(zs) - 1].at) = IF j < J THEN head ELSE ZoneSectors(zs[Len(zs) - 1])[1]
  /\ \A q \in 1..Len(zs) : \A k \in 1..zs[q].len :
       (q = Len(zs) - 1 => k > 1) /\ (q = Len(zs) => k <= j)
         => Sector(list, zs[q].at + k - 1) = ZoneSectors(zs[q])[k]

\* The tool is j writes far with adding pair p.
Going(list, zs, p, W, J, H, j) ==
  /\ Shape(list, zs) /\ zs[Len(zs)].next = Nil /\ May(list, p)
  /\ mem # None /\ mem \in Handle /\ mem.busy /\ mem.ro \in ReadOnly
  /\ mem.list = list \o p /\ mem.map = PtrTo(zs[1])
  /\ mem.zones = zs
  /\ LET new == Added(list, zs, p)
         hdr == Header(list \o p, PtrTo(zs[1]))
     IN  /\ Order(W, list \o p, new, hdr, J, H)
         /\ After(j, list \o p, new, hdr, J, H,
                  Header(list, PtrTo(zs[1])), ZoneSectors(zs[Len(zs)])[1])
  /\ j \in 0..Len(W) /\ todo = SubSeq(W, j + 1, Len(W))

\* No tool runs.
AtRest ==
  /\ mem = None /\ todo = <<>>
  /\ \/ \E list, zs : Whole(list, zs)
     \/ \E list, zs, p : Half(list, zs, p)

\* A tool runs and adds nothing.
Waiting ==
  /\ mem # None /\ mem \in Handle /\ ~mem.busy /\ mem.ro \in ReadOnly /\ todo = <<>>
  /\ Whole(mem.list, mem.zones) /\ mem.map = PtrTo(mem.zones[1])

Adding == \E list, zs, p, W, J, H, j : Going(list, zs, p, W, J, H, j)

IInv ==
  /\ errs \in 0..MaxErrors
  /\ errs = 0 => SecOK /\ (AtRest \/ Waiting \/ Adding)

\* A freshly restored set is complete, and Maps is the number of its zone maps.
ProperSet ==
  /\ DOMAIN Formatted = Parts /\ \A p \in Parts : DOMAIN Formatted[p] = 0..(Size[p] - 1)
  /\ \E list, zs :
       /\ Shape(list, zs) /\ Len(zs) = Maps /\ zs[Len(zs)].next = Nil
       /\ Formatted[Root][0] = Header(list, PtrTo(zs[1]))
       /\ \A i \in 1..Len(zs) : \A k \in 1..zs[i].len :
            LET c == Place(list, zs[i].at + k - 1)
            IN  Formatted[c[1]][c[2]] = ZoneSectors(zs[i])[k]

-----------------------------------------------------------------------------
(* A pair that is added has room for its zone map, twice, and for its zone. *)

LEMMA PairParts ==
  ASSUME NEW list \in Seq(Parts), NEW p \in Pairs
  PROVE  /\ p = <<p[1], p[2]>> /\ p[1] \in Parts /\ p[2] \in Parts
         /\ p \in Seq(Parts) /\ Len(p) = 2
         /\ list \o p \in Seq(Parts) /\ Len(list \o p) = Len(list) + 2
         /\ \A k \in 1..Len(list) : (list \o p)[k] = list[k]
         /\ (list \o p)[Len(list) + 1] = p[1] /\ (list \o p)[Len(list) + 2] = p[2]
<1>1. p = <<p[1], p[2]>> /\ p[1] \in Parts /\ p[2] \in Parts
  BY PairsAssumption
<1>2. <<p[1], p[2]>> \in Seq(Parts) /\ Len(<<p[1], p[2]>>) = 2
  BY <1>1
<1>3. p \in Seq(Parts) /\ Len(p) = 2
  BY <1>1, <1>2
<1>4. /\ list \o p \in Seq(Parts) /\ Len(list \o p) = Len(list) + Len(p)
      /\ \A k \in 1..Len(list) : (list \o p)[k] = list[k]
      /\ \A k \in 1..Len(p) : (list \o p)[Len(list) + k] = p[k]
  BY <1>3, StartsMore
<1>5. 1 \in 1..Len(p) /\ 2 \in 1..Len(p)
  BY <1>3
<1> QED
  BY <1>1, <1>3, <1>4, <1>5

\* What the zone map z of a new pair p is.
IsNew(list, p, z) ==
  /\ z \in Zone /\ z.len > 0 /\ z.next = Nil
  /\ z.at = SetSize(list) + 1
  /\ z.at + z.len <= z.backup
  /\ z.backup + z.len <= SetSize(list) + Rounded(p[1])
  /\ z.first = SetSize(list) + Rounded(p[1])
  /\ z.size <= Rounded(p[2])

LEMMA NewZoneIs ==
  ASSUME NEW list \in Seq(Parts), NEW p, May(list, p)
  PROVE  IsNew(list, p, NewZone(list, p[1], p[2]))
<1> DEFINE S == SetSize(list)
           R == Rounded(p[1])
           Q == Rounded(p[2])
           b == Q \div MinAlloc
           n == MapLen[b]
           z == NewZone(list, p[1], p[2])
<1>1. p[1] \in Parts /\ p[2] \in Parts
  BY PairParts DEF May
<1>2. S \in Nat /\ R \in Nat /\ Q \in Nat /\ MinAlloc \in Nat \ {0}
  BY <1>1, SetSizeNat, RoundedNat, SizeAssumption
<1>3. n \in Nat \ {0}
  BY <1>1, MapLenAssumption
<1>4. n * 2 + 2 <= R
  BY DEF May, MapFits
<1> HIDE DEF S, R, Q
<1>5. b \in Nat /\ b * MinAlloc \in Nat /\ b * MinAlloc <= Q
  BY <1>2
<1>6. z = [at |-> S + 1, backup |-> S + R - n - 1, len |-> n, first |-> S + R,
           size |-> b * MinAlloc, next |-> Nil]
  BY DEF NewZone, S, R, Q
<1> HIDE DEF n, b, z
<1>7. S + 1 \in Nat /\ S + R - n - 1 \in Nat /\ S + R \in Nat /\ (S + 1) + n <= S + R - n - 1
      /\ (S + R - n - 1) + n <= S + R
  BY <1>2, <1>3, <1>4
<1>8. z \in Zone
  BY <1>3, <1>5, <1>6, <1>7 DEF Zone
<1> QED
  BY <1>3, <1>5, <1>6, <1>7, <1>8 DEF IsNew, S, R, Q, z

(* Where the pair begins.                                                   *)
LEMMA PairStarts ==
  ASSUME NEW list \in Seq(Parts), NEW p \in Pairs, Rounded(p[1]) > 0, Rounded(p[2]) > 0
  PROVE  /\ SetSize(list \o p) = SetSize(list) + Rounded(p[1]) + Rounded(p[2])
         /\ \A s, n \in Nat : SetSize(list) <= s /\ s < SetSize(list) + Rounded(p[1])
                              /\ s + n <= SetSize(list) + Rounded(p[1])
              => Fits(list \o p, s, n)
         /\ \A s, n \in Nat : s = SetSize(list) + Rounded(p[1]) /\ n <= Rounded(p[2])
              => Fits(list \o p, s, n)
<1> DEFINE N == list \o p
           c == Len(list)
           s1 == Starts(N)
<1>1. /\ N \in Seq(Parts) /\ Len(N) = c + 2 /\ c \in Nat /\ N[c + 1] = p[1] /\ N[c + 2] = p[2]
      /\ p \in Seq(Parts) /\ p[1] \in Parts /\ p[2] \in Parts
  BY PairParts
<1>2. StartsFrom(s1, N)
  BY <1>1, StartsIs
<1>3. s1[c + 1] = SetSize(list) /\ SetSize(list) \in Nat
  BY <1>1, StartsMore, SetSizeNat DEF SetSize
<1> HIDE DEF N
<1>4. Rounded(p[1]) \in Nat /\ Rounded(p[2]) \in Nat
  BY <1>1, RoundedNat
<1> HIDE DEF s1
<1>5. s1[(c + 1) + 1] = SetSize(list) + Rounded(p[1])
  <2>1. c + 1 \in 1..Len(N)
    BY <1>1
  <2> QED
    BY <2>1, <1>1, <1>2, <1>3 DEF StartsFrom
<1>6. s1[(c + 2) + 1] = SetSize(list) + Rounded(p[1]) + Rounded(p[2])
  <2>1. c + 2 \in 1..Len(N) /\ (c + 1) + 1 = c + 2
    BY <1>1
  <2> QED
    BY <2>1, <1>1, <1>2, <1>5 DEF StartsFrom
<1>7. SetSize(N) = SetSize(list) + Rounded(p[1]) + Rounded(p[2])
  <2>1. SetSize(N) = s1[(c + 2) + 1]
    BY <1>1 DEF SetSize, s1
  <2> QED
    BY <2>1, <1>6
<1>8. ASSUME NEW s \in Nat, NEW n \in Nat, SetSize(list) <= s, s < SetSize(list) + Rounded(p[1]),
             s + n <= SetSize(list) + Rounded(p[1])
      PROVE  Fits(N, s, n)
  <2>1. c + 1 \in 1..Len(N)
    BY <1>1
  <2>2. Starts(N)[c + 1] <= s /\ s < Starts(N)[(c + 1) + 1] /\ s + n <= Starts(N)[(c + 1) + 1]
    BY <1>3, <1>5, <1>8 DEF s1
  <2> QED
    BY <2>1, <2>2 DEF Fits
<1>9. ASSUME NEW s \in Nat, NEW n \in Nat, s = SetSize(list) + Rounded(p[1]), n <= Rounded(p[2])
      PROVE  Fits(N, s, n)
  <2>1. c + 2 \in 1..Len(N) /\ (c + 1) + 1 = c + 2
    BY <1>1
  <2>2. Starts(N)[c + 2] <= s /\ s < Starts(N)[(c + 2) + 1] /\ s + n <= Starts(N)[(c + 2) + 1]
    BY <2>1, <1>3, <1>4, <1>5, <1>6, <1>9 DEF s1
  <2> QED
    BY <2>1, <2>2 DEF Fits
<1> QED
  BY <1>7, <1>8, <1>9 DEF N

(* Two maps in the same place, apart from the link.                         *)
Alike(y, z) ==
  y.at = z.at /\ y.backup = z.backup /\ y.len = z.len /\ y.first = z.first /\ y.size = z.size

LEMMA JoinedIs ==
  ASSUME NEW zs \in Seq(Zone), Len(zs) > 0, NEW z \in Zone
  PROVE  /\ Joined(zs, z) \in Seq(Zone) /\ Len(Joined(zs, z)) = Len(zs) + 1
         /\ \A i \in 1..Len(zs) : i < Len(zs) => Joined(zs, z)[i] = zs[i]
         /\ \A i \in 1..Len(zs) : Alike(Joined(zs, z)[i], zs[i])
         /\ Joined(zs, z)[Len(zs)] = [zs[Len(zs)] EXCEPT !.next = PtrTo(z)]
         /\ Joined(zs, z)[Len(zs)].next = PtrTo(z)
         /\ Joined(zs, z)[Len(zs) + 1] = z
<1> DEFINE n == Len(zs)
           ms == Joined(zs, z)
           last == [zs[n] EXCEPT !.next = PtrTo(z)]
<1>1. n \in Nat /\ n \in 1..n
  OBVIOUS
<1>2. zs[n] \in Zone /\ \A i \in 1..n : zs[i] \in Zone
  BY <1>1
<1>3. PtrTo(z) \in Ptr
  BY DEF Zone, Ptr, PtrTo
<1>4. last \in Zone /\ Alike(last, zs[n]) /\ last.next = PtrTo(z)
  BY <1>2, <1>3 DEF Zone, Alike
<1>5. ms = [i \in 1..(n + 1) |-> IF i < n THEN zs[i] ELSE IF i = n THEN last ELSE z]
  BY DEF Joined
<1> HIDE DEF ms, last
<1>6. \A i \in 1..(n + 1) : ms[i] \in Zone
  BY <1>1, <1>2, <1>4, <1>5
<1>7. ms \in [1..(n + 1) -> Zone]
  BY <1>5, <1>6
<1>8. ms \in Seq(Zone) /\ Len(ms) = n + 1
  BY <1>1, <1>7
<1>9. ms[n] = last /\ ms[n + 1] = z
  BY <1>1, <1>5
<1>10. \A i \in 1..n : i < n => ms[i] = zs[i]
  BY <1>1, <1>5
<1>11. ASSUME NEW i \in 1..n PROVE Alike(ms[i], zs[i])
  <2>1. CASE i = n
    BY <2>1, <1>4, <1>9
  <2>2. CASE i < n
    BY <2>2, <1>10 DEF Alike
  <2> QED
    BY <2>1, <2>2, <1>1
<1> QED
  BY <1>4, <1>8, <1>9, <1>10, <1>11 DEF ms, last

LEMMA LoIs ==
  ASSUME NEW zs, NEW i
  PROVE  /\ Lo(zs, <<"header", i>>) = 0 /\ Width(zs, <<"header", i>>) = 1
         /\ Lo(zs, <<"backup header", i>>) = Rounded(Root) - 1 /\ Width(zs, <<"backup header", i>>) = 1
         /\ Lo(zs, <<"map", i>>) = zs[i].at /\ Width(zs, <<"map", i>>) = zs[i].len
         /\ Lo(zs, <<"backup map", i>>) = zs[i].backup /\ Width(zs, <<"backup map", i>>) = zs[i].len
         /\ Lo(zs, <<"zone", i>>) = zs[i].first /\ Width(zs, <<"zone", i>>) = zs[i].size
BY DEF Lo, Width

LEMMA SpotsAre ==
  ASSUME NEW n \in Nat, NEW x
  PROVE  /\ x \in Spots(n) <=>
              \/ x = <<"header", 0>> \/ x = <<"backup header", 0>>
              \/ \E i \in 1..n : x = <<"map", i>> \/ x = <<"backup map", i>> \/ x = <<"zone", i>>
         /\ x \in Spots(n + 1) <=>
              \/ x \in Spots(n)
              \/ x = <<"map", n + 1>> \/ x = <<"backup map", n + 1>> \/ x = <<"zone", n + 1>>
<1>1. \A m \in Nat : x \in Spots(m) <=>
        \/ x = <<"header", 0>> \/ x = <<"backup header", 0>>
        \/ \E i \in 1..m : x = <<"map", i>> \/ x = <<"backup map", i>> \/ x = <<"zone", i>>
  BY DEF Spots
<1>2. n + 1 \in Nat /\ \A i : i \in 1..(n + 1) <=> i \in 1..n \/ i = n + 1
  OBVIOUS
<1> QED
  BY <1>1, <1>2, Zenon

(* A link does not move an area.                                            *)
LEMMA SameSpots ==
  ASSUME NEW zs \in Seq(Zone), Len(zs) > 0, NEW z \in Zone, NEW x \in Spots(Len(zs))
  PROVE  Lo(Joined(zs, z), x) = Lo(zs, x) /\ Width(Joined(zs, z), x) = Width(zs, x)
<1> DEFINE ms == Joined(zs, z)
<1>1. \A i \in 1..Len(zs) : Alike(ms[i], zs[i])
  BY JoinedIs
<1> HIDE DEF ms
<1>2. CASE x = <<"header", 0>>
  <2>1. /\ Lo(ms, <<"header", 0>>) = 0 /\ Lo(zs, <<"header", 0>>) = 0
        /\ Width(ms, <<"header", 0>>) = 1 /\ Width(zs, <<"header", 0>>) = 1
    BY LoIs, ZenonT(30)
  <2> QED
    BY <1>2, <2>1 DEF ms
<1>3. CASE x = <<"backup header", 0>>
  <2> DEFINE r == Rounded(Root) - 1
  <2>1. /\ Lo(ms, <<"backup header", 0>>) = r /\ Lo(zs, <<"backup header", 0>>) = r
        /\ Width(ms, <<"backup header", 0>>) = 1 /\ Width(zs, <<"backup header", 0>>) = 1
    BY LoIs, ZenonT(30)
  <2> HIDE DEF r
  <2> QED
    BY <1>3, <2>1 DEF ms
<1>4. ASSUME NEW i \in 1..Len(zs), x = <<"map", i>> \/ x = <<"backup map", i>> \/ x = <<"zone", i>>
      PROVE  Lo(ms, x) = Lo(zs, x) /\ Width(ms, x) = Width(zs, x)
  <2>1. Alike(ms[i], zs[i])
    BY <1>1
  <2>2. /\ Lo(ms, <<"map", i>>) = Lo(zs, <<"map", i>>)
        /\ Width(ms, <<"map", i>>) = Width(zs, <<"map", i>>)
    BY <2>1 DEF Alike, Lo, Width
  <2>3. /\ Lo(ms, <<"backup map", i>>) = Lo(zs, <<"backup map", i>>)
        /\ Width(ms, <<"backup map", i>>) = Width(zs, <<"backup map", i>>)
    BY <2>1 DEF Alike, Lo, Width
  <2>4. /\ Lo(ms, <<"zone", i>>) = Lo(zs, <<"zone", i>>)
        /\ Width(ms, <<"zone", i>>) = Width(zs, <<"zone", i>>)
    BY <2>1 DEF Alike, Lo, Width
  <2> QED
    BY <1>4, <2>2, <2>3, <2>4
<1>5. Len(zs) \in Nat
  OBVIOUS
<1>6. \/ x = <<"header", 0>> \/ x = <<"backup header", 0>>
      \/ \E i \in 1..Len(zs) : x = <<"map", i>> \/ x = <<"backup map", i>> \/ x = <<"zone", i>>
  BY <1>5, SpotsAre
<1> QED
  BY <1>2, <1>3, <1>4, <1>6 DEF ms

\* Areas x and y do not meet.
Clear(zs, x, y) ==
  Lo(zs, x) + Width(zs, x) <= Lo(zs, y) \/ Lo(zs, y) + Width(zs, y) <= Lo(zs, x)

LEMMA WidthNat ==
  ASSUME NEW zs \in Seq(Zone), NEW x \in Spots(Len(zs))
  PROVE  Width(zs, x) \in Nat
<1>1. Len(zs) \in Nat /\ \A i \in 1..Len(zs) : zs[i].len \in Nat /\ zs[i].size \in Nat
  <2>1. \A i \in 1..Len(zs) : zs[i] \in Zone
    OBVIOUS
  <2> QED
    BY <2>1, SMTT(20) DEF Zone
<1>2. \/ x = <<"header", 0>> \/ x = <<"backup header", 0>>
      \/ \E i \in 1..Len(zs) : x = <<"map", i>> \/ x = <<"backup map", i>> \/ x = <<"zone", i>>
  BY <1>1, SpotsAre
<1>3. CASE x = <<"header", 0>> \/ x = <<"backup header", 0>>
  <2>1. Width(zs, <<"header", 0>>) = 1 /\ Width(zs, <<"backup header", 0>>) = 1
    BY LoIs
  <2>2. 1 \in Nat
    OBVIOUS
  <2> QED
    BY ONLY <1>3, <2>1, <2>2
<1>4. ASSUME NEW i \in 1..Len(zs), x = <<"map", i>> \/ x = <<"backup map", i>> \/ x = <<"zone", i>>
      PROVE  Width(zs, x) \in Nat
  <2>1. /\ Width(zs, <<"map", i>>) \in Nat
        /\ Width(zs, <<"backup map", i>>) \in Nat
        /\ Width(zs, <<"zone", i>>) \in Nat
    BY <1>1, LoIs, ZenonT(30)
  <2> QED
    BY <1>4, <2>1
<1> QED
  BY <1>2, <1>3, <1>4

(* What the areas of a set take is in the set.                              *)
LEMMA OldBelow ==
  ASSUME NEW list \in Seq(Parts), NEW zs \in Seq(Zone), Roomy(list, zs), NEW x \in Spots(Len(zs))
  PROVE  /\ Lo(zs, x) \in Nat /\ Width(zs, x) \in Nat
         /\ Lo(zs, x) + Width(zs, x) <= SetSize(list) /\ Lo(zs, x) < SetSize(list)
<1>1. Lo(zs, x) \in Nat /\ Fits(list, Lo(zs, x), Width(zs, x)) /\ Width(zs, x) \in Nat
  BY WidthNat DEF Roomy
<1> DEFINE lo == Lo(zs, x)
           w == Width(zs, x)
<1> HIDE DEF lo, w
<1>2. lo \in Nat /\ w \in Nat /\ Fits(list, lo, w)
  BY <1>1 DEF lo, w
<1>3. lo < SetSize(list) /\ \A t \in lo..(lo + w - 1) : t < SetSize(list)
  BY <1>2, FitsLies
<1>4. SetSize(list) \in Nat
  BY SetSizeNat
<1>5. lo + w <= SetSize(list)
  <2>1. CASE w = 0
    BY <1>2, <1>3, <1>4, <2>1
  <2>2. CASE w > 0
    <3>1. lo + w - 1 \in lo..(lo + w - 1)
      BY <1>2, <2>2
    <3> QED
      BY <3>1, <1>2, <1>3, <1>4
  <2> QED
    BY <1>2, <2>1, <2>2
<1> QED
  BY <1>2, <1>3, <1>5 DEF lo, w

LEMMA GrowRoomy ==
  ASSUME NEW list, NEW zs, NEW p, Shape(list, zs), May(list, p)
  PROVE  Roomy(list \o p, Added(list, zs, p))
<1> DEFINE N == list \o p
           n == Len(zs)
           z == NewZone(list, p[1], p[2])
           ms == Joined(zs, z)
           S == SetSize(list)
<1>1. list \in Seq(Parts) /\ zs \in Seq(Zone) /\ n > 0 /\ n \in Nat /\ Roomy(list, zs)
  BY DEF Shape
<1>2. p \in Pairs /\ Rounded(p[1]) > 0 /\ Rounded(p[2]) > 0
  BY DEF May, NotEmpty
<1>3. IsNew(list, p, z)
  BY <1>1, NewZoneIs
<1> HIDE DEF z
<1>4. p[1] \in Parts /\ p[2] \in Parts /\ p \in Seq(Parts) /\ N \in Seq(Parts)
  BY <1>1, <1>2, PairParts
<1>5. S \in Nat /\ Rounded(p[1]) \in Nat /\ Rounded(p[2]) \in Nat
  BY <1>1, <1>4, SetSizeNat, RoundedNat
<1>6. z \in Zone /\ z.at \in Nat /\ z.backup \in Nat /\ z.len \in Nat /\ z.first \in Nat /\ z.size \in Nat
  BY <1>3 DEF IsNew, Zone
<1>7. /\ ms \in Seq(Zone) /\ Len(ms) = n + 1 /\ ms[n + 1] = z
  BY <1>1, <1>6, JoinedIs
<1>8. \A x \in Spots(n) : Lo(ms, x) = Lo(zs, x) /\ Width(ms, x) = Width(zs, x)
  BY <1>1, <1>6, SameSpots
<1> HIDE DEF ms
<1>9. \A x \in Spots(n) : /\ Lo(ms, x) \in Nat /\ Width(ms, x) \in Nat
                          /\ Lo(ms, x) + Width(ms, x) <= S /\ Fits(N, Lo(ms, x), Width(ms, x))
  <2> TAKE x \in Spots(n)
  <2>1. /\ Lo(zs, x) \in Nat /\ Width(zs, x) \in Nat
        /\ Lo(zs, x) + Width(zs, x) <= SetSize(list)
    BY <1>1, OldBelow
  <2>2. Fits(list, Lo(zs, x), Width(zs, x))
    BY <1>1 DEF Roomy
  <2>3. Fits(N, Lo(zs, x), Width(zs, x))
    BY <1>1, <1>4, <2>1, <2>2, SameBefore
  <2>4. Lo(ms, x) = Lo(zs, x) /\ Width(ms, x) = Width(zs, x)
    BY <1>8
  <2> QED
    BY <2>1, <2>3, <2>4
<1> DEFINE a == <<"map", n + 1>>
           b == <<"backup map", n + 1>>
           c == <<"zone", n + 1>>
<1>10. /\ Lo(ms, a) = z.at /\ Width(ms, a) = z.len
       /\ Lo(ms, b) = z.backup /\ Width(ms, b) = z.len
       /\ Lo(ms, c) = z.first /\ Width(ms, c) = z.size
  BY <1>7, LoIs, ZenonT(30)
<1> HIDE DEF a, b, c
<1>11. \A x \in {a, b, c} : Lo(ms, x) \in Nat /\ S <= Lo(ms, x)
  <2>1. S <= z.at /\ S <= z.backup /\ S <= z.first
    BY <1>3, <1>5, <1>6 DEF IsNew
  <2> QED
    BY <2>1, <1>6, <1>10
<1>12. Fits(N, z.at, z.len)
  <2>1. /\ S <= z.at /\ z.at < S + Rounded(p[1])
        /\ z.at + z.len <= S + Rounded(p[1])
    BY <1>3, <1>5, <1>6 DEF IsNew
  <2> QED
    BY <1>1, <1>2, <1>6, <2>1, PairStarts
<1>13. Fits(N, z.backup, z.len)
  <2>1. /\ S <= z.backup /\ z.backup < S + Rounded(p[1])
        /\ z.backup + z.len <= S + Rounded(p[1])
    BY <1>3, <1>5, <1>6 DEF IsNew
  <2> QED
    BY <1>1, <1>2, <1>6, <2>1, PairStarts
<1>14. Fits(N, z.first, z.size)
  <2>1. z.first = S + Rounded(p[1]) /\ z.size <= Rounded(p[2])
    BY <1>3 DEF IsNew
  <2> QED
    BY <1>1, <1>2, <1>6, <2>1, PairStarts
<1>15. \A x, y \in {a, b, c} : x # y => Clear(ms, x, y)
  <2>0. z.at + z.len <= z.backup /\ z.backup + z.len <= z.first /\ z.at + z.len <= z.first
    BY <1>3, <1>5, <1>6 DEF IsNew
  <2>1. Clear(ms, a, b) /\ Clear(ms, b, a)
    BY <2>0, <1>10 DEF Clear
  <2>2. Clear(ms, b, c) /\ Clear(ms, c, b)
    BY <2>0, <1>10 DEF Clear
  <2>3. Clear(ms, a, c) /\ Clear(ms, c, a)
    BY <2>0, <1>10 DEF Clear
  <2> QED
    BY <2>1, <2>2, <2>3
<1>16. \A x \in Spots(n) : \A y \in {a, b, c} : Clear(ms, x, y) /\ Clear(ms, y, x)
  <2> TAKE x \in Spots(n)
  <2> TAKE y \in {a, b, c}
  <2>1. Lo(ms, x) \in Nat /\ Width(ms, x) \in Nat /\ Lo(ms, x) + Width(ms, x) <= S
    BY <1>9
  <2>2. Lo(ms, y) \in Nat /\ S <= Lo(ms, y)
    BY <1>11
  <2> QED
    BY <2>1, <2>2, <1>5 DEF Clear
<1>17. \A x, y \in Spots(n) : x # y => Clear(ms, x, y)
  <2> SUFFICES ASSUME NEW x \in Spots(n), NEW y \in Spots(n), x # y PROVE Clear(ms, x, y)
    OBVIOUS
  <2>1. Clear(zs, x, y)
    BY <1>1 DEF Roomy, Clear
  <2>2. Lo(ms, x) = Lo(zs, x) /\ Width(ms, x) = Width(zs, x)
        /\ Lo(ms, y) = Lo(zs, y) /\ Width(ms, y) = Width(zs, y)
    BY <1>8
  <2> QED
    BY ONLY <2>1, <2>2 DEF Clear
<1>18. \A x : x \in Spots(n + 1) <=> x \in Spots(n) \/ x \in {a, b, c}
  <2> TAKE x
  <2>1. x \in Spots(n + 1) <=> x \in Spots(n) \/ x = a \/ x = b \/ x = c
    BY <1>1, SpotsAre DEF a, b, c
  <2> QED
    BY <2>1
<1>19. \A x \in Spots(n + 1) : Lo(ms, x) \in Nat /\ Fits(N, Lo(ms, x), Width(ms, x))
  <2>1. \A x \in {a, b, c} : Fits(N, Lo(ms, x), Width(ms, x))
    BY <1>10, <1>12, <1>13, <1>14
  <2> HIDE DEF N
  <2> QED
    BY <2>1, <1>9, <1>11, <1>18, Zenon
<1>20. \A x, y \in Spots(n + 1) : x # y => Clear(ms, x, y)
  <2> SUFFICES ASSUME NEW x \in Spots(n + 1), NEW y \in Spots(n + 1), x # y PROVE Clear(ms, x, y)
    OBVIOUS
  <2>1. x \in Spots(n) \/ x \in {a, b, c}
    BY <1>18
  <2>2. y \in Spots(n) \/ y \in {a, b, c}
    BY <1>18
  <2> DEFINE New == {a, b, c}
  <2> HIDE DEF New
  <2>3. x \in New /\ y \in New => Clear(ms, x, y)
    BY <1>15 DEF New
  <2>4. x \in Spots(n) /\ y \in New => Clear(ms, x, y)
    BY <1>16 DEF New
  <2>5. x \in New /\ y \in Spots(n) => Clear(ms, x, y)
    BY <1>16 DEF New
  <2>6. x \in Spots(n) /\ y \in Spots(n) => Clear(ms, x, y)
    BY <1>17
  <2> QED
    BY ONLY <2>1, <2>2, <2>3, <2>4, <2>5, <2>6 DEF New
<1>21. Roomy(N, ms)
  BY <1>7, <1>19, <1>20 DEF Roomy, Clear
<1> QED
  BY <1>21 DEF Added, ms, z

LEMMA GrowShape ==
  ASSUME NEW list, NEW zs, NEW p, Shape(list, zs), May(list, p)
  PROVE  Shape(list \o p, Added(list, zs, p))
<1> DEFINE N == list \o p
           n == Len(zs)
           c == Len(list)
           z == NewZone(list, p[1], p[2])
           ms == Added(list, zs, p)
<1>1. /\ list \in Seq(Parts) /\ c \in Nat /\ c > 0 /\ list[1] = Root /\ IsInjective(list)
      /\ \A k \in 1..c : Rounded(list[k]) > 0
      /\ zs \in Seq(Zone) /\ n > 0 /\ n \in Nat /\ n <= SetSize(list)
  BY DEF Shape
<1>2. /\ p \in Pairs /\ p[1] # p[2] /\ Rounded(p[1]) > 0 /\ Rounded(p[2]) > 0
      /\ {p[1], p[2]} \cap ToSet(list) = {}
  BY DEF May, NotEmpty
<1>3. IsNew(list, p, z)
  BY <1>1, NewZoneIs
<1> HIDE DEF z
<1>4. /\ p[1] \in Parts /\ p[2] \in Parts /\ N \in Seq(Parts) /\ Len(N) = c + 2
      /\ \A k \in 1..c : N[k] = list[k]
      /\ N[c + 1] = p[1] /\ N[c + 2] = p[2]
  BY <1>1, <1>2, PairParts
<1> HIDE DEF N
<1>5. z \in Zone /\ z.len > 0
  BY <1>3 DEF IsNew
<1>6. /\ ms \in Seq(Zone) /\ Len(ms) = n + 1 /\ ms[n + 1] = z /\ ms[n].next = PtrTo(z)
      /\ \A i \in 1..n : i < n => ms[i] = zs[i]
      /\ \A i \in 1..n : Alike(ms[i], zs[i])
  BY <1>1, <1>5, JoinedIs DEF Added, z
<1> HIDE DEF ms
<1>7. Len(N) > 0 /\ N[1] = Root
  BY <1>1, <1>4
<1>8. IsInjective(N)
  <2>1. \A k \in 1..c : list[k] # p[1] /\ list[k] # p[2]
    <3>1. \A k \in 1..c : list[k] \in ToSet(list)
      BY <1>1 DEF ToSet
    <3> QED
      BY <3>1, <1>2
  <2>2. \A k \in 1..(c + 2) : k \in 1..c \/ k = c + 1 \/ k = c + 2
    BY <1>1
  <2>3. ASSUME NEW k \in 1..(c + 2), NEW l \in 1..(c + 2), N[k] = N[l]
        PROVE  k = l
    <3>1. CASE k \in 1..c /\ l \in 1..c
      <4>1. list[k] = list[l]
        BY <2>3, <3>1, <1>4
      <4> QED
        BY <4>1, <3>1, <1>1 DEF IsInjective
    <3>2. CASE ~(k \in 1..c) /\ ~(l \in 1..c)
      BY <2>2, <2>3, <3>2, <1>2, <1>4
    <3>3. CASE k \in 1..c /\ ~(l \in 1..c)
      BY <2>1, <2>2, <2>3, <3>3, <1>4
    <3>4. CASE ~(k \in 1..c) /\ l \in 1..c
      BY <2>1, <2>2, <2>3, <3>4, <1>4
    <3> QED
      BY <3>1, <3>2, <3>3, <3>4
  <2>4. DOMAIN N = 1..(c + 2)
    BY <1>4
  <2> QED
    BY <2>3, <2>4, <1>4 DEF IsInjective
<1>9. \A k \in 1..Len(N) : Rounded(N[k]) > 0
  <2> TAKE k \in 1..Len(N)
  <2>1. k \in 1..c \/ k = c + 1 \/ k = c + 2
    BY <1>1, <1>4
  <2> QED
    BY <2>1, <1>1, <1>2, <1>4
<1>10. Len(ms) > 0 /\ Len(ms) <= SetSize(N)
  <2>1. SetSize(N) = SetSize(list) + Rounded(p[1]) + Rounded(p[2])
    BY <1>1, <1>2, PairStarts DEF N
  <2>2. SetSize(list) \in Nat /\ Rounded(p[1]) \in Nat /\ Rounded(p[2]) \in Nat
    BY <1>1, <1>4, SetSizeNat, RoundedNat
  <2> QED
    BY <2>1, <2>2, <1>1, <1>2, <1>6
<1>11. \A i \in 1..Len(ms) : ms[i].len > 0
  <2> TAKE i \in 1..Len(ms)
  <2>1. i \in 1..n \/ i = n + 1
    BY <1>1, <1>6
  <2>2. \A k \in 1..n : zs[k].len > 0
    BY DEF Shape
  <2> QED
    BY <2>1, <2>2, <1>5, <1>6 DEF Alike
<1>12. \A i \in 1..(Len(ms) - 1) : ms[i].next = PtrTo(ms[i + 1])
  <2> TAKE i \in 1..(Len(ms) - 1)
  <2>1. i \in 1..n
    BY <1>1, <1>6
  <2>2. CASE i = n
    BY <2>2, <1>6
  <2>3. CASE i < n
    <3>1. i \in 1..(n - 1) /\ i + 1 \in 1..n
      BY <2>1, <2>3, <1>1
    <3>2. zs[i].next = PtrTo(zs[i + 1])
      BY <3>1 DEF Shape
    <3>3. Alike(ms[i + 1], zs[i + 1])
      BY <3>1, <1>6
    <3>4. PtrTo(ms[i + 1]) = PtrTo(zs[i + 1])
      BY <3>3 DEF Alike, PtrTo
    <3> QED
      BY <3>2, <3>4, <1>6, <2>1, <2>3
  <2> QED
    BY <2>1, <2>2, <2>3, <1>1
<1>13. Roomy(N, ms)
  BY GrowRoomy DEF N, ms
<1>14. Len(Formatted[Root][0].list) = Len(N) - 2 * (Len(ms) - Maps)
  <2>1. Len(Formatted[Root][0].list) = c - 2 * (n - Maps)
    BY DEF Shape
  <2>2. c \in Nat /\ n \in Nat /\ Maps \in Nat
    BY <1>1, SizeAssumption
  <2>3. (c + 2) - 2 * ((n + 1) - Maps) = c - 2 * (n - Maps)
    BY <2>2
  <2> QED
    BY <2>1, <2>3, <1>4, <1>6
<1> QED
  BY <1>4, <1>6, <1>7, <1>8, <1>9, <1>10, <1>11, <1>12, <1>13, <1>14 DEF Shape, N, ms

-----------------------------------------------------------------------------
(* What is read from a set that is complete, and from one that is not.      *)

LEMMA MapArea ==
  ASSUME NEW list, NEW zs, Shape(list, zs), NEW i \in 1..Len(zs)
  PROVE  /\ list \in Seq(Parts) /\ zs[i] \in Zone /\ zs[i].len \in Nat /\ zs[i].len > 0 /\ zs[i].at \in Nat
         /\ Fits(list, zs[i].at, zs[i].len) /\ PtrTo(zs[i]) \in Ptr
<1>1. zs \in Seq(Zone) /\ Len(zs) \in Nat /\ zs[i] \in Zone /\ zs[i].len > 0 /\ list \in Seq(Parts)
  BY DEF Shape
<1>2. <<"map", i>> \in Spots(Len(zs))
  BY DEF Spots
<1>3. Fits(list, Lo(zs, <<"map", i>>), Width(zs, <<"map", i>>))
  BY <1>2 DEF Shape, Roomy
<1>4. Lo(zs, <<"map", i>>) = zs[i].at /\ Width(zs, <<"map", i>>) = zs[i].len
  BY LoIs
<1>5. zs[i].at \in Nat /\ zs[i].len \in Nat /\ PtrTo(zs[i]) \in Ptr
  BY <1>1 DEF Zone, Ptr, PtrTo
<1> QED
  BY <1>1, <1>3, <1>4, <1>5

LEMMA SameSector ==
  ASSUME NEW list \in Seq(Parts), NEW more \in Seq(Parts), NEW s \in Nat, Lies(list, s)
  PROVE  Sector(list \o more, s) = Sector(list, s) /\ Lies(list \o more, s)
<1>1. Place(list \o more, s) = Place(list, s) /\ Lies(list \o more, s)
  BY SameBefore
<1> QED
  BY <1>1 DEF Sector

LEMMA HeaderIs ==
  ASSUME NEW list, NEW map, sec[Root][0] = Header(list, map)
  PROVE  /\ DiskHeader.kind = "header" /\ DiskHeader.list = list /\ DiskHeader.map = map
         /\ DiskHeader.total = SetSize(list)
<1>1. sec[Root][0].kind = "header"
  BY DEF Header
<1>2. DiskHeader = Header(list, map)
  BY <1>1 DEF DiskHeader
<1> QED
  BY <1>2 DEF Header

LEMMA WholeChain ==
  ASSUME NEW list, NEW zs, Shape(list, zs), zs[Len(zs)].next = Nil,
         \A i \in 1..Len(zs) : MapOn(list, zs[i])
  PROVE  Chain(list, PtrTo(zs[1])) = zs /\ Readable(list, PtrTo(zs[1]))
<1>1. list \in Seq(Parts) /\ zs \in Seq(Zone) /\ Len(zs) \in Nat /\ Len(zs) > 0 /\ Len(zs) <= SetSize(list)
  BY DEF Shape
<1>2. ASSUME NEW i \in 1..Len(zs) PROVE ReadZone(list, PtrTo(zs[i])) = zs[i] /\ zs[i] # Nil
  <2>1. zs[i] \in Zone /\ zs[i].len > 0 /\ Fits(list, zs[i].at, zs[i].len)
    BY MapArea
  <2> QED
    BY <1>1, <2>1, ReadIs, NilAssumption
<1>3. Follows(list, PtrTo(zs[1]), zs)
  <2>1. zs[1] = ReadZone(list, PtrTo(zs[1]))
    BY <1>1, <1>2
  <2>2. ASSUME NEW k \in 1..(Len(zs) - 1)
        PROVE  zs[k] # Nil /\ zs[k].next # Nil /\ zs[k + 1] = ReadZone(list, zs[k].next)
    <3>1. k \in 1..Len(zs) /\ k + 1 \in 1..Len(zs)
      BY <1>1
    <3>2. zs[k].next = PtrTo(zs[k + 1])
      BY DEF Shape
    <3>3. PtrTo(zs[k + 1]) \in Ptr
      BY <3>1, MapArea
    <3> QED
      BY <3>1, <3>2, <3>3, <1>2, NilAssumption
  <2> QED
    BY <2>1, <2>2 DEF Follows
<1>4. SetSize(list) \in Nat
  BY <1>1, SetSizeNat
<1>5. Len(zs) >= 1 /\ Len(zs) <= SetSize(list) + 1
  BY <1>1, <1>4
<1>6. Chain(list, PtrTo(zs[1])) = zs
  BY <1>1, <1>3, <1>5, ChainIs
<1>7. Nil \notin ToSet(zs)
  BY <1>1, <1>2 DEF ToSet
<1> QED
  BY <1>6, <1>7 DEF Readable

LEMMA WholeReads ==
  ASSUME NEW list, NEW zs, Whole(list, zs)
  PROVE  /\ DiskHeader.kind = "header" /\ DiskHeader.list = list /\ DiskHeader.map = PtrTo(zs[1])
         /\ DiskHeader.total = SetSize(list)
         /\ Chain(list, PtrTo(zs[1])) = zs /\ Linked = Len(zs)
         /\ Readable(list, PtrTo(zs[1])) /\ Loadable
<1>1. /\ DiskHeader.kind = "header" /\ DiskHeader.list = list /\ DiskHeader.map = PtrTo(zs[1])
      /\ DiskHeader.total = SetSize(list)
  BY HeaderIs DEF Whole
<1>2. Chain(list, PtrTo(zs[1])) = zs /\ Readable(list, PtrTo(zs[1]))
  BY WholeChain DEF Whole
<1>3. \A k \in 1..Len(list) : Rounded(list[k]) > 0
  BY DEF Whole, Shape
<1> QED
  BY <1>1, <1>2, <1>3 DEF Linked, Loadable

LEMMA HalfReads ==
  ASSUME NEW list, NEW zs, NEW p, Half(list, zs, p)
  PROVE  /\ DiskHeader.kind = "header" /\ DiskHeader.list = list /\ DiskHeader.map = PtrTo(zs[1])
         /\ Linked = Len(zs) + 1 /\ ~Loadable
         /\ Readable(list \o p, PtrTo(zs[1])) /\ IsInjective(list \o p) /\ p \in Pairs
<1> DEFINE N == list \o p
           n == Len(zs)
           z == NewZone(list, p[1], p[2])
           ms == Added(list, zs, p)
           S == SetSize(list)
           map == PtrTo(zs[1])
           so == [i \in 1..(n + 1) |-> IF i = n + 1 THEN Nil ELSE ms[i]]
<1>1. Shape(list, zs) /\ May(list, p) /\ p \in Pairs
  BY DEF Half, May
<1>2. Shape(N, ms)
  BY <1>1, GrowShape
<1>3. /\ list \in Seq(Parts) /\ zs \in Seq(Zone) /\ n \in Nat /\ n > 0 /\ S \in Nat /\ n <= S
      /\ p \in Seq(Parts) /\ N \in Seq(Parts)
  BY <1>1, SetSizeNat, PairParts DEF Shape
<1>4. IsNew(list, p, z)
  BY <1>1, <1>3, NewZoneIs
<1>5. z \in Zone /\ z.next = Nil
  BY <1>4 DEF IsNew
<1> HIDE DEF z
<1>6. /\ ms \in Seq(Zone) /\ Len(ms) = n + 1 /\ ms[n + 1] = z /\ ms[n].next = PtrTo(z)
      /\ \A i \in 1..n : Alike(ms[i], zs[i])
  BY <1>3, <1>5, JoinedIs DEF Added, z
<1>7. \A i \in 1..(n + 1) : MapOn(N, ms[i])
  BY DEF Half
<1> HIDE DEF ms, N
<1>8. map = PtrTo(ms[1])
  BY <1>3, <1>6 DEF Alike, PtrTo
<1>9. Readable(N, map)
  <2>1. ms[Len(ms)].next = Nil
    BY <1>5, <1>6
  <2> QED
    BY <1>2, <1>6, <1>7, <1>8, <2>1, WholeChain
<1>10. ASSUME NEW i \in 1..n
       PROVE  /\ ReadZone(list, PtrTo(ms[i])) = ms[i] /\ ms[i] # Nil /\ PtrTo(ms[i]) \in Ptr
  <2>1. i \in 1..Len(ms)
    BY <1>3, <1>6
  <2>2. ms[i] \in Zone /\ ms[i].len \in Nat /\ ms[i].len > 0 /\ ms[i].at \in Nat /\ PtrTo(ms[i]) \in Ptr
    BY <1>2, <2>1, MapArea
  <2>3. Fits(list, ms[i].at, ms[i].len)
    <3>1. Fits(list, zs[i].at, zs[i].len)
      BY <1>1, MapArea
    <3> QED
      BY <3>1, <1>6 DEF Alike
  <2>4. MapOn(list, ms[i])
    <3>1. ASSUME NEW k \in 1..ms[i].len
          PROVE  Sector(list, ms[i].at + k - 1) = ZoneSectors(ms[i])[k]
      <4>1. ms[i].at + k - 1 \in ms[i].at..(ms[i].at + ms[i].len - 1)
        BY <2>2
      <4>2. Lies(list, ms[i].at + k - 1) /\ ms[i].at + k - 1 \in Nat
        BY <4>1, <2>2, <2>3, <1>3, FitsLies
      <4>3. Sector(N, ms[i].at + k - 1) = Sector(list, ms[i].at + k - 1)
        BY <4>2, <1>3, SameSector DEF N
      <4>4. Sector(N, ms[i].at + k - 1) = ZoneSectors(ms[i])[k]
        BY <1>7, <2>1, <1>6 DEF MapOn
      <4> QED
        BY <4>3, <4>4
    <3> QED
      BY <3>1 DEF MapOn
  <2> QED
    BY <2>2, <2>3, <2>4, <1>3, ReadIs, NilAssumption
<1>11. ReadZone(list, PtrTo(z)) = Nil /\ PtrTo(z) \in Ptr
  <2>1. z.at \in Nat /\ z.backup \in Nat /\ z.len \in Nat /\ z.len > 0
    BY <1>4 DEF IsNew, Zone
  <2>2. z.at >= S /\ z.backup >= S
    BY <1>3, <1>4, <2>1 DEF IsNew
  <2>3. PtrTo(z) \in Ptr /\ PtrTo(z).at = z.at /\ PtrTo(z).backup = z.backup
    BY <2>1 DEF PtrTo, Ptr
  <2> QED
    BY <2>2, <2>3, <1>3, ReadNothing
<1>12. /\ so \in Seq(Zone \cup {Nil}) /\ Len(so) = n + 1 /\ so[n + 1] = Nil
       /\ \A i \in 1..n : so[i] = ms[i]
  <2>1. \A i \in 1..(n + 1) : ms[i] \in Zone
    BY <1>6
  <2> QED
    BY <2>1, <1>3
<1> HIDE DEF so
<1>13. Follows(list, map, so)
  <2>1. so[1] = ReadZone(list, map)
    BY <1>3, <1>8, <1>10, <1>12
  <2>2. ASSUME NEW k \in 1..(Len(so) - 1)
        PROVE  so[k] # Nil /\ so[k].next # Nil /\ so[k + 1] = ReadZone(list, so[k].next)
    <3>1. k \in 1..n /\ k \in 1..(Len(ms) - 1)
      BY <1>3, <1>6, <1>12
    <3>2. ms[k].next = PtrTo(ms[k + 1])
      BY <1>2, <3>1 DEF Shape
    <3>3. CASE k = n
      BY <3>1, <3>2, <3>3, <1>6, <1>10, <1>11, <1>12, NilAssumption
    <3>4. CASE k < n
      <4>1. k + 1 \in 1..n
        BY <3>1, <3>4
      <4> QED
        BY <4>1, <3>1, <3>2, <1>10, <1>12, NilAssumption
    <3> QED
      BY <3>1, <3>3, <3>4, <1>3
  <2> QED
    BY <2>1, <2>2, <1>12 DEF Follows
<1>14. Chain(list, map) = so
  <2>1. Len(so) >= 1 /\ Len(so) <= SetSize(list) + 1
    BY <1>3, <1>12
  <2> QED
    BY <2>1, <1>3, <1>12, <1>13, ChainIs
<1>15. ~Readable(list, map)
  <2>1. n + 1 \in DOMAIN so /\ so[n + 1] = Nil
    BY <1>3, <1>12
  <2>2. Nil \in ToSet(so)
    BY <2>1 DEF ToSet
  <2> QED
    BY <2>2, <1>14 DEF Readable
<1>16. DiskHeader.kind = "header" /\ DiskHeader.list = list /\ DiskHeader.map = map
  BY HeaderIs DEF Half
<1>17. IsInjective(N)
  BY <1>2 DEF Shape
<1> QED
  BY <1>1, <1>9, <1>12, <1>14, <1>15, <1>16, <1>17 DEF Linked, Loadable, N

-----------------------------------------------------------------------------
(* The writes of a pair that is added: each goes where an area is, with     *)
(* what belongs there.                                                      *)

LEMMA AtIs ==
  ASSUME NEW list \in Seq(Parts), IsInjective(list), NEW s \in Nat, Lies(list, s),
         NEW w, w.place = Place(list, s)
  PROVE  At(list, w) = s
<1> DEFINE P(t) == Lies(list, t) /\ Place(list, t) = w.place
           c == CHOOSE t \in Nat : P(t)
<1>1. P(s)
  OBVIOUS
<1>2. c \in Nat /\ P(c)
  BY <1>1
<1>3. At(list, w) = c
  BY DEF At
<1> HIDE DEF c
<1>4. c = s
  BY <1>2, PlacesDiffer
<1> QED
  BY <1>3, <1>4

\* What belongs in area x.
Data(zs, hdr, x) ==
  IF x[1] \in {"header", "backup header"} THEN <<hdr>> ELSE ZoneSectors(zs[x[2]])

\* The write w puts in area x what belongs there.
InArea(w, list, zs, hdr, x) ==
  \E k \in 1..Width(zs, x) :
     w = [place |-> Place(list, Lo(zs, x) + k - 1), v |-> Data(zs, hdr, x)[k]]

\* It goes to one sector, and to that of no other area.
Right(w, list, zs, hdr, x) ==
  /\ w \in Writ /\ At(list, w) \in Nat /\ Lies(list, At(list, w)) /\ w.place = Place(list, At(list, w))
  /\ At(list, w) = 0 => w.v = hdr /\ x = <<"header", 0>>
  /\ \A q \in 1..Len(zs) : \A k \in 1..zs[q].len :
       At(list, w) = zs[q].at + k - 1 => w.v = ZoneSectors(zs[q])[k] /\ x = <<"map", q>>

\* The areas of the headers and the maps.
Kept(n) ==
  {<<"header", 0>>, <<"backup header", 0>>} \cup
  {<<"map", i>> : i \in 1..n} \cup {<<"backup map", i>> : i \in 1..n}

LEMMA DataIs ==
  ASSUME NEW list, NEW zs, Shape(list, zs), NEW m \in Ptr, NEW x \in Kept(Len(zs)),
         NEW k \in 1..Width(zs, x)
  PROVE  Data(zs, Header(list, m), x)[k] \in Held
<1> DEFINE hdr == Header(list, m)
<1>1. list \in Seq(Parts) /\ zs \in Seq(Zone)
  BY DEF Shape
<1>2. hdr \in Held
  BY <1>1 DEF Held
<1> HIDE DEF hdr
<1>3. CASE x = <<"header", 0>> \/ x = <<"backup header", 0>>
  <2>0. <<"header", 0>>[1] = "header" /\ <<"backup header", 0>>[1] = "backup header"
    OBVIOUS
  <2>1. x[1] \in {"header", "backup header"}
    BY ONLY <1>3, <2>0
  <2>2. Width(zs, x) = 1 /\ Data(zs, hdr, x) = <<hdr>>
    BY <2>1 DEF Width, Data
  <2> QED
    BY <2>2, <1>2 DEF hdr
<1>4. ASSUME NEW i \in 1..Len(zs), x = <<"map", i>> \/ x = <<"backup map", i>>
      PROVE  Data(zs, hdr, x)[k] \in Held
  <2>0. /\ <<"map", i>>[1] = "map" /\ <<"map", i>>[2] = i
        /\ <<"backup map", i>>[1] = "backup map" /\ <<"backup map", i>>[2] = i
    OBVIOUS
  <2>1. x[2] = i /\ x[1] \notin {"header", "backup header"} /\ x[1] # "zone"
    BY ONLY <1>4, <2>0
  <2>2. Width(zs, x) = zs[i].len /\ Data(zs, hdr, x) = ZoneSectors(zs[i])
    BY <2>1 DEF Width, Data
  <2>3. zs[i] \in Zone
    BY <1>1
  <2>4. ZoneSectors(zs[i])[k] \in {ZoneSectors(zs[i])[l] : l \in 1..zs[i].len}
    BY <2>2
  <2> QED
    BY <2>2, <2>3, <2>4 DEF Held
<1> QED
  BY <1>3, <1>4 DEF Kept, hdr

LEMMA AreaWrite ==
  ASSUME NEW list, NEW zs, Shape(list, zs), NEW m \in Ptr, NEW x \in Kept(Len(zs)),
         NEW w, InArea(w, list, zs, Header(list, m), x)
  PROVE  Right(w, list, zs, Header(list, m), x)
<1> DEFINE hdr == Header(list, m)
           lo == Lo(zs, x)
           n == Len(zs)
<1>1. /\ list \in Seq(Parts) /\ IsInjective(list) /\ zs \in Seq(Zone) /\ n \in Nat /\ Roomy(list, zs)
  BY DEF Shape
<1>2. PICK k \in 1..Width(zs, x) : w = [place |-> Place(list, lo + k - 1), v |-> Data(zs, hdr, x)[k]]
  BY DEF InArea
<1>3. Data(zs, hdr, x)[k] \in Held
  BY DataIs
<1> HIDE DEF hdr
<1>4. x \in Spots(n)
  BY DEF Kept, Spots
<1>5. lo \in Nat /\ Fits(list, lo, Width(zs, x)) /\ Width(zs, x) \in Nat /\ k \in Nat /\ k >= 1 /\ k <= Width(zs, x)
  BY <1>1, <1>4, WidthNat DEF Roomy
<1> HIDE DEF lo
<1> DEFINE s == lo + k - 1
<1>6. s \in Nat /\ s \in lo..(lo + Width(zs, x) - 1)
  BY <1>5
<1>7. Lies(list, s)
  <2> HIDE DEF s
  <2> QED
    BY <1>1, <1>5, <1>6, FitsLies
<1>8. w.place = Place(list, s) /\ w.v = Data(zs, hdr, x)[k]
  BY <1>2
<1> HIDE DEF s
<1>9. At(list, w) = s
  BY <1>1, <1>6, <1>7, <1>8, AtIs
<1>10. Place(list, s) \in Cells
  BY <1>1, <1>6, <1>7, PlaceIsCell
<1>11. w \in Writ
  BY <1>2, <1>3, <1>10 DEF Writ, s
<1>12. ASSUME NEW y \in Spots(n), NEW l \in 1..Width(zs, y), s = Lo(zs, y) + l - 1
       PROVE  x = y /\ k = l
  <2>1. Lo(zs, y) \in Nat /\ Width(zs, y) \in Nat /\ l \in Nat /\ l >= 1 /\ l <= Width(zs, y)
    BY <1>1, <1>12, WidthNat DEF Roomy
  <2>2. x = y
    <3>1. x # y => lo + Width(zs, x) <= Lo(zs, y) \/ Lo(zs, y) + Width(zs, y) <= lo
      BY <1>1, <1>4, <1>12 DEF Roomy, lo
    <3>2. ~(lo + Width(zs, x) <= Lo(zs, y)) /\ ~(Lo(zs, y) + Width(zs, y) <= lo)
      BY <1>5, <1>12, <2>1 DEF s
    <3> QED
      BY <3>1, <3>2
  <2>3. lo = Lo(zs, y)
    BY <2>2 DEF lo
  <2> QED
    BY <2>1, <2>2, <2>3, <1>5, <1>12 DEF s
<1>13. ASSUME s = 0
       PROVE  w.v = hdr /\ x = <<"header", 0>>
  <2> DEFINE y == <<"header", 0>>
  <2>1. y \in Spots(n) /\ Lo(zs, y) = 0 /\ Width(zs, y) = 1
    BY LoIs DEF Spots
  <2>2. y[1] = "header"
    OBVIOUS
  <2> HIDE DEF y
  <2>3. 1 \in 1..Width(zs, y) /\ s = Lo(zs, y) + 1 - 1
    BY <2>1, <1>13
  <2>4. x = y /\ k = 1
    BY <2>1, <2>3, <1>12
  <2>5. Data(zs, hdr, x) = <<hdr>>
    BY <2>2, <2>4 DEF Data
  <2> QED
    BY <2>4, <2>5, <1>8 DEF y
<1>14. ASSUME NEW q \in 1..n, NEW l \in 1..zs[q].len, s = zs[q].at + l - 1
       PROVE  w.v = ZoneSectors(zs[q])[l] /\ x = <<"map", q>>
  <2> DEFINE y == <<"map", q>>
  <2>1. y \in Spots(n) /\ Lo(zs, y) = zs[q].at /\ Width(zs, y) = zs[q].len
    BY LoIs DEF Spots
  <2>2. y[1] = "map" /\ y[2] = q
    OBVIOUS
  <2> HIDE DEF y
  <2>3. l \in 1..Width(zs, y) /\ s = Lo(zs, y) + l - 1
    BY <2>1, <1>14
  <2>4. x = y /\ k = l
    BY <2>1, <2>3, <1>12
  <2>5. Data(zs, hdr, x) = ZoneSectors(zs[q])
    BY <2>2, <2>4 DEF Data
  <2> QED
    BY <2>4, <2>5, <1>8 DEF y
<1> QED
  BY <1>6, <1>7, <1>8, <1>9, <1>11, <1>13, <1>14 DEF Right, hdr

\* The sequence of writes A goes through area x from its first sector.
Through(A, list, zs, hdr, x) ==
  /\ A \in Seq(Writ) /\ Len(A) <= Width(zs, x)
  /\ \A k \in 1..Len(A) : A[k] = [place |-> Place(list, Lo(zs, x) + k - 1), v |-> Data(zs, hdr, x)[k]]

LEMMA PutThrough ==
  ASSUME NEW list, NEW zs, Shape(list, zs), NEW m \in Ptr, NEW x \in Kept(Len(zs)),
         NEW ro, NEW data, data = Data(zs, Header(list, m), x), Len(data) = Width(zs, x)
  PROVE  /\ Through(Put(list, ro, Lo(zs, x), data), list, zs, Header(list, m), x)
         /\ Writable(list, ro, Lo(zs, x)) => Len(Put(list, ro, Lo(zs, x), data)) = Width(zs, x)
<1> DEFINE hdr == Header(list, m)
           A == [k \in 1..Len(data) |-> [place |-> Place(list, Lo(zs, x) + k - 1), v |-> data[k]]]
<1>1. x \in Spots(Len(zs)) /\ zs \in Seq(Zone)
  BY DEF Kept, Spots, Shape
<1>2. Width(zs, x) \in Nat /\ Fits(list, Lo(zs, x), Width(zs, x))
  BY <1>1, WidthNat DEF Shape, Roomy
<1>3. \A k \in 1..Width(zs, x) : A[k] \in Writ
  <2> TAKE k \in 1..Width(zs, x)
  <2> DEFINE w == [place |-> Place(list, Lo(zs, x) + k - 1), v |-> data[k]]
  <2>1. InArea(w, list, zs, hdr, x)
    BY DEF InArea
  <2> HIDE DEF w
  <2>2. w \in Writ
    BY <2>1, AreaWrite DEF Right
  <2> QED
    BY <2>2 DEF w
<1>4. A \in Seq(Writ) /\ Len(A) = Width(zs, x)
  <2>1. A \in [1..Width(zs, x) -> Writ]
    BY <1>3
  <2> HIDE DEF A
  <2> QED
    BY <2>1, <1>2
<1>5. Through(A, list, zs, hdr, x)
  <2>1. \A k \in 1..Width(zs, x) : A[k] = [place |-> Place(list, Lo(zs, x) + k - 1), v |-> Data(zs, hdr, x)[k]]
    OBVIOUS
  <2> HIDE DEF A
  <2> QED
    BY <2>1, <1>2, <1>4 DEF Through
<1>6. Through(<<>>, list, zs, hdr, x)
  BY <1>2 DEF Through
<1>7. Put(list, ro, Lo(zs, x), data) = IF Writable(list, ro, Lo(zs, x)) THEN A ELSE <<>>
  BY <1>2 DEF Put
<1> HIDE DEF A, hdr
<1> QED
  BY <1>4, <1>5, <1>6, <1>7 DEF hdr

LEMMA Cat ==
  ASSUME NEW a \in Seq(Writ), NEW b \in Seq(Writ)
  PROVE  /\ a \o b \in Seq(Writ) /\ Len(a \o b) = Len(a) + Len(b)
         /\ Len(a) \in Nat /\ Len(b) \in Nat
         /\ \A k \in 1..Len(a) : (a \o b)[k] = a[k]
         /\ \A k \in 1..Len(b) : (a \o b)[Len(a) + k] = b[k]
         /\ \A k \in 1..Len(a \o b) :
              \/ k \in 1..Len(a) /\ (a \o b)[k] = a[k]
              \/ k > Len(a) /\ k - Len(a) \in 1..Len(b) /\ (a \o b)[k] = b[k - Len(a)]
<1>1. /\ a \o b \in Seq(Writ) /\ Len(a \o b) = Len(a) + Len(b)
      /\ Len(a) \in Nat /\ Len(b) \in Nat
      /\ \A k \in 1..Len(a) : (a \o b)[k] = a[k]
      /\ \A k \in 1..Len(b) : (a \o b)[Len(a) + k] = b[k]
  OBVIOUS
<1> DEFINE c == a \o b
<1> HIDE DEF c
<1>2. ASSUME NEW k \in 1..Len(c)
      PROVE  \/ k \in 1..Len(a) /\ c[k] = a[k]
             \/ k > Len(a) /\ k - Len(a) \in 1..Len(b) /\ c[k] = b[k - Len(a)]
  <2>1. CASE k <= Len(a)
    BY <1>1, <2>1 DEF c
  <2>2. CASE k > Len(a)
    <3>1. k - Len(a) \in 1..Len(b) /\ Len(a) + (k - Len(a)) = k
      BY <1>1, <2>2 DEF c
    <3>2. c[Len(a) + (k - Len(a))] = b[k - Len(a)]
      BY <3>1, <1>1 DEF c
    <3> QED
      BY <3>1, <3>2, <2>2
  <2> QED
    BY <2>1, <2>2, <1>1
<1> QED
  BY <1>1, <1>2 DEF c

LEMMA ThroughRight ==
  ASSUME NEW list, NEW zs, Shape(list, zs), NEW m \in Ptr, NEW x \in Kept(Len(zs)),
         NEW A, Through(A, list, zs, Header(list, m), x), NEW i \in 1..Len(A)
  PROVE  Right(A[i], list, zs, Header(list, m), x)
<1>1. Len(A) \in Nat /\ Len(A) <= Width(zs, x) /\ zs \in Seq(Zone) /\ x \in Spots(Len(zs))
  <2>1. A \in Seq(Writ) /\ Len(A) <= Width(zs, x)
    BY DEF Through
  <2>2. Len(A) \in Nat
    BY <2>1
  <2>3. zs \in Seq(Zone)
    BY DEF Shape
  <2>4. x \in Spots(Len(zs))
    BY DEF Kept, Spots
  <2> QED
    BY <2>1, <2>2, <2>3, <2>4
<1>2. Width(zs, x) \in Nat
  BY <1>1, WidthNat
<1>3. i \in 1..Width(zs, x)
  BY <1>1, <1>2
<1>4. InArea(A[i], list, zs, Header(list, m), x)
  BY <1>3 DEF InArea, Through
<1> QED
  BY <1>4, AreaWrite

\* The sequences of writes A, B, C, D, E and F one after another, each of them
\* through the area it is for.
Six(W, A, B, C, D, E, F) ==
  /\ W \in Seq(Writ)
  /\ Len(W) = Len(A) + Len(B) + Len(C) + Len(D) + Len(E) + Len(F)
  /\ \A k \in 1..Len(A) : W[k] = A[k]
  /\ Len(C) > 0 => W[Len(A) + Len(B) + 1] = C[1]
  /\ Len(E) > 0 => W[Len(A) + Len(B) + Len(C) + Len(D) + 1] = E[1]
  /\ \A k \in 1..Len(W) :
       \/ k <= Len(A) + Len(B)
          /\ ((\E i \in 1..Len(A) : W[k] = A[i]) \/ \E i \in 1..Len(B) : W[k] = B[i])
       \/ k > Len(A) + Len(B) /\ k <= Len(A) + Len(B) + Len(C) + Len(D)
          /\ ((\E i \in 1..Len(C) : W[k] = C[i]) \/ \E i \in 1..Len(D) : W[k] = D[i])
       \/ k > Len(A) + Len(B) + Len(C) + Len(D)
          /\ ((\E i \in 1..Len(E) : W[k] = E[i]) \/ \E i \in 1..Len(F) : W[k] = F[i])

LEMMA SixIs ==
  ASSUME NEW A \in Seq(Writ), NEW B \in Seq(Writ), NEW C \in Seq(Writ),
         NEW D \in Seq(Writ), NEW E \in Seq(Writ), NEW F \in Seq(Writ)
  PROVE  Six(A \o B \o C \o D \o (E \o F), A, B, C, D, E, F)
<1> DEFINE P == A \o B
           Q == P \o C
           R == Q \o D
           S == E \o F
           W == R \o S
           a == Len(A)
           b == Len(B)
           c == Len(C)
           d == Len(D)
           e == Len(E)
           f == Len(F)
<1>1. /\ P \in Seq(Writ) /\ Len(P) = a + b /\ a \in Nat /\ b \in Nat
      /\ \A k \in 1..a : P[k] = A[k]
      /\ \A k \in 1..Len(P) : \/ k \in 1..a /\ P[k] = A[k]
                              \/ k > a /\ k - a \in 1..b /\ P[k] = B[k - a]
  BY Cat
<1> HIDE DEF P
<1>2. /\ Q \in Seq(Writ) /\ Len(Q) = Len(P) + c /\ c \in Nat
      /\ \A k \in 1..Len(P) : Q[k] = P[k]
      /\ \A k \in 1..c : Q[Len(P) + k] = C[k]
      /\ \A k \in 1..Len(Q) : \/ k \in 1..Len(P) /\ Q[k] = P[k]
                              \/ k > Len(P) /\ k - Len(P) \in 1..c /\ Q[k] = C[k - Len(P)]
  BY <1>1, Cat
<1> HIDE DEF Q
<1>3. /\ R \in Seq(Writ) /\ Len(R) = Len(Q) + d /\ d \in Nat
      /\ \A k \in 1..Len(Q) : R[k] = Q[k]
      /\ \A k \in 1..Len(R) : \/ k \in 1..Len(Q) /\ R[k] = Q[k]
                              \/ k > Len(Q) /\ k - Len(Q) \in 1..d /\ R[k] = D[k - Len(Q)]
  BY <1>2, Cat
<1> HIDE DEF R
<1>4. /\ S \in Seq(Writ) /\ Len(S) = e + f /\ e \in Nat /\ f \in Nat
      /\ \A k \in 1..e : S[k] = E[k]
      /\ \A k \in 1..Len(S) : \/ k \in 1..e /\ S[k] = E[k]
                              \/ k > e /\ k - e \in 1..f /\ S[k] = F[k - e]
  BY Cat
<1> HIDE DEF S
<1>5. /\ W \in Seq(Writ) /\ Len(W) = Len(R) + Len(S)
      /\ \A k \in 1..Len(R) : W[k] = R[k]
      /\ \A k \in 1..Len(S) : W[Len(R) + k] = S[k]
      /\ \A k \in 1..Len(W) : \/ k \in 1..Len(R) /\ W[k] = R[k]
                              \/ k > Len(R) /\ k - Len(R) \in 1..Len(S) /\ W[k] = S[k - Len(R)]
  BY <1>3, <1>4, Cat, ZenonT(30)
<1> HIDE DEF W
<1>6. Len(W) = a + b + c + d + e + f
  BY <1>1, <1>2, <1>3, <1>4, <1>5
<1>7. \A k \in 1..a : W[k] = A[k]
  <2> TAKE k \in 1..a
  <2>1. k \in 1..Len(P) /\ k \in 1..Len(Q) /\ k \in 1..Len(R)
    BY <1>1, <1>2, <1>3
  <2> QED
    BY <2>1, <1>1, <1>2, <1>3, <1>5
<1>8. c > 0 => W[a + b + 1] = C[1]
  <2> SUFFICES ASSUME c > 0 PROVE W[a + b + 1] = C[1]
    OBVIOUS
  <2>1. Len(P) + 1 \in 1..Len(Q) /\ Len(P) + 1 \in 1..Len(R) /\ 1 \in 1..c /\ Len(P) + 1 = a + b + 1
    BY <1>1, <1>2, <1>3
  <2> QED
    BY <2>1, <1>2, <1>3, <1>5
<1>9. e > 0 => W[a + b + c + d + 1] = E[1]
  <2> SUFFICES ASSUME e > 0 PROVE W[a + b + c + d + 1] = E[1]
    OBVIOUS
  <2>1. 1 \in 1..e /\ 1 \in 1..Len(S) /\ Len(R) + 1 = a + b + c + d + 1
    BY <1>1, <1>2, <1>3, <1>4
  <2> QED
    BY <2>1, <1>4, <1>5
<1>10. ASSUME NEW k \in 1..Len(W)
       PROVE  \/ k <= a + b
                 /\ ((\E i \in 1..a : W[k] = A[i]) \/ \E i \in 1..b : W[k] = B[i])
              \/ k > a + b /\ k <= a + b + c + d
                 /\ ((\E i \in 1..c : W[k] = C[i]) \/ \E i \in 1..d : W[k] = D[i])
              \/ k > a + b + c + d
                 /\ ((\E i \in 1..e : W[k] = E[i]) \/ \E i \in 1..f : W[k] = F[i])
  <2>1. CASE k \in 1..Len(P)
    <3>1. k \in 1..Len(Q) /\ k \in 1..Len(R) /\ k <= a + b
      BY <2>1, <1>1, <1>2, <1>3
    <3>2. W[k] = P[k]
      BY <3>1, <2>1, <1>2, <1>3, <1>5
    <3>3. \/ k \in 1..a /\ P[k] = A[k]
          \/ k - a \in 1..b /\ P[k] = B[k - a]
      BY <2>1, <1>1
    <3> QED
      BY ONLY <3>1, <3>2, <3>3
  <2>2. CASE k \in 1..Len(Q) /\ ~(k \in 1..Len(P))
    <3>1. k \in 1..Len(R) /\ k > a + b /\ k <= a + b + c + d
      BY <2>2, <1>1, <1>2, <1>3
    <3>2. W[k] = Q[k]
      BY <3>1, <2>2, <1>3, <1>5
    <3>3. k - Len(P) \in 1..c /\ Q[k] = C[k - Len(P)]
      BY <2>2, <1>2
    <3> QED
      BY ONLY <3>1, <3>2, <3>3
  <2>3. CASE k \in 1..Len(R) /\ ~(k \in 1..Len(Q))
    <3>1. k > a + b /\ k <= a + b + c + d
      BY <2>3, <1>1, <1>2, <1>3
    <3>2. W[k] = R[k]
      BY <2>3, <1>5
    <3>3. k - Len(Q) \in 1..d /\ R[k] = D[k - Len(Q)]
      BY <2>3, <1>3
    <3> QED
      BY ONLY <3>1, <3>2, <3>3
  <2>4. CASE ~(k \in 1..Len(R))
    <3>1. k > a + b + c + d
      BY <2>4, <1>1, <1>2, <1>3, <1>5
    <3>2. k - Len(R) \in 1..Len(S) /\ W[k] = S[k - Len(R)]
      BY <2>4, <1>5
    <3>3. \/ k - Len(R) \in 1..e /\ S[k - Len(R)] = E[k - Len(R)]
          \/ (k - Len(R)) - e \in 1..f /\ S[k - Len(R)] = F[(k - Len(R)) - e]
      BY <3>2, <1>4
    <3> QED
      BY ONLY <3>1, <3>2, <3>3
  <2> QED
    BY ONLY <2>1, <2>2, <2>3, <2>4
<1>11. Six(W, A, B, C, D, E, F)
  BY <1>5, <1>6, <1>7, <1>8, <1>9, <1>10 DEF Six
<1> QED
  BY <1>11 DEF P, Q, R, S, W

LEMMA ZoneDataIs ==
  ASSUME NEW zs \in Seq(Zone), NEW hdr, NEW i \in 1..Len(zs)
  PROVE  /\ Data(zs, hdr, <<"map", i>>) = ZoneSectors(zs[i])
         /\ Data(zs, hdr, <<"backup map", i>>) = ZoneSectors(zs[i])
         /\ Len(ZoneSectors(zs[i])) = zs[i].len
<1>1. zs[i].len \in Nat
  <2>1. zs[i] \in Zone
    OBVIOUS
  <2> QED
    BY <2>1 DEF Zone
<1>2. Len(ZoneSectors(zs[i])) = zs[i].len
  BY <1>1 DEF ZoneSectors
<1> QED
  BY <1>2 DEF Data

(* The sectors mfs_add_volume_pair looks at are in the volumes it writes to.*)
LEMMA StillWritable ==
  ASSUME NEW list \in Seq(Parts), NEW more \in Seq(Parts), NEW ro, NEW s \in Nat, Writable(list, ro, s)
  PROVE  Writable(list \o more, ro, s)
<1>1. Fits(list, s, 1) /\ Place(list, s)[1] \notin ro
  BY DEF Writable
<1>2. Lies(list, s)
  BY <1>1, FitsLies
<1>3. Fits(list \o more, s, 1) /\ Place(list \o more, s) = Place(list, s)
  BY <1>1, <1>2, SameBefore
<1> QED
  BY <1>1, <1>3 DEF Writable

LEMMA NewWritable ==
  ASSUME NEW list \in Seq(Parts), NEW p, May(list, p), NEW ro,
         Writable(list \o p, ro, SetSize(list))
  PROVE  Writable(list \o p, ro, SetSize(list) + 1)
<1> DEFINE N == list \o p
           S == SetSize(list)
           R == Rounded(p[1])
<1>1. p \in Pairs /\ p[1] \in Parts /\ p[2] \in Parts /\ N \in Seq(Parts) /\ R > 0 /\ Rounded(p[2]) > 0
  BY PairParts DEF May, NotEmpty
<1>2. S \in Nat /\ R \in Nat
  BY <1>1, SetSizeNat, RoundedNat
<1>3. R > 1
  <2>1. MapLen[Rounded(p[2]) \div MinAlloc] \in Nat \ {0}
    BY <1>1, MapLenAssumption
  <2> DEFINE l == MapLen[Rounded(p[2]) \div MinAlloc]
  <2> HIDE DEF l
  <2>2. l * 2 + 2 <= R /\ l \in Nat
    BY <2>1 DEF May, MapFits, l
  <2> HIDE DEF R
  <2> QED
    BY <2>2, <1>2
<1>4. Fits(N, S, R) /\ Fits(N, S + 1, 1)
  <2> HIDE DEF S, R, N
  <2>1. S <= S /\ S < S + R /\ S + R <= S + R /\ S <= S + 1 /\ S + 1 < S + R /\ (S + 1) + 1 <= S + R
    BY <1>2, <1>3
  <2>2. \A s, n \in Nat : S <= s /\ s < S + R /\ s + n <= S + R => Fits(N, s, n)
    BY <1>1, PairStarts DEF S, R, N
  <2>3. S + 1 \in Nat /\ 1 \in Nat
    BY <1>2
  <2> QED
    BY <1>2, <2>1, <2>2, <2>3
<1> HIDE DEF N, S, R
<1>5. S + 1 \in S..(S + R - 1)
  BY <1>2, <1>3
<1>6. Place(N, S + 1)[1] = Place(N, S)[1]
  BY <1>1, <1>2, <1>4, <1>5, FitsLies
<1>7. Place(N, S)[1] \notin ro
  BY DEF Writable, N, S
<1> QED
  BY <1>4, <1>6, <1>7 DEF Writable, N, S

LEMMA WritesOrder ==
  ASSUME NEW list, NEW zs, NEW p, Shape(list, zs), May(list, p), NEW m \in Ptr, NEW ro,
         Writable(list, ro, 0), Writable(list, ro, zs[Len(zs)].at),
         Writable(list \o p, ro, SetSize(list))
  PROVE  \E J, H : Order(Writes(list \o p, ro, m, NewZone(list, p[1], p[2]), Added(list, zs, p)[Len(zs)]),
                         list \o p, Added(list, zs, p), Header(list \o p, m), J, H)
<1> DEFINE N == list \o p
           n == Len(zs)
           z == NewZone(list, p[1], p[2])
           ms == Added(list, zs, p)
           hdr == Header(N, m)
           x1 == <<"map", n + 1>>
           x2 == <<"backup map", n + 1>>
           x3 == <<"map", n>>
           x4 == <<"backup map", n>>
           x5 == <<"header", 0>>
           x6 == <<"backup header", 0>>
           A == Put(N, ro, z.at, ZoneSectors(z))
           B == Put(N, ro, z.backup, ZoneSectors(z))
           C == Put(N, ro, ms[n].at, ZoneSectors(ms[n]))
           D == Put(N, ro, ms[n].backup, ZoneSectors(ms[n]))
           E == Put(N, ro, 0, <<hdr>>)
           F == Put(N, ro, Rounded(Root) - 1, <<hdr>>)
           W == Writes(N, ro, m, z, ms[n])
           J == Len(A) + Len(B) + 1
           H == Len(A) + Len(B) + Len(C) + Len(D) + 1
<1>1. Shape(N, ms) /\ N \in Seq(Parts) /\ ms \in Seq(Zone)
  <2>1. Shape(N, ms)
    BY GrowShape
  <2> QED
    BY <2>1 DEF Shape
<1>2. /\ list \in Seq(Parts) /\ zs \in Seq(Zone) /\ n \in Nat /\ n > 0 /\ p \in Pairs /\ p \in Seq(Parts)
  BY PairParts DEF Shape, May
<1>3. IsNew(list, p, z)
  BY <1>2, NewZoneIs
<1>4. z \in Zone /\ z.len \in Nat /\ z.len > 0 /\ z.at = SetSize(list) + 1
  BY <1>3 DEF IsNew, Zone
<1>5. Len(ms) = n + 1 /\ ms[n + 1] = z /\ Alike(ms[n], zs[n])
  <2>1. n \in 1..n
    BY <1>2
  <2> QED
    BY <2>1, <1>2, <1>4, JoinedIs DEF Added
<1>6. Writable(N, ro, 0) /\ Writable(N, ro, ms[n].at) /\ Writable(N, ro, z.at)
  <2>1. zs[n].at \in Nat
    <3>1. n \in 1..n
      BY <1>2
    <3> QED
      BY <3>1, MapArea
  <2>2. Writable(N, ro, 0) /\ Writable(N, ro, zs[n].at)
    BY <2>1, <1>2, StillWritable
  <2>3. Writable(N, ro, z.at)
    BY <1>2, <1>4, NewWritable
  <2> QED
    BY <2>2, <2>3, <1>5 DEF Alike
<1>7. W = A \o B \o C \o D \o (E \o F)
  BY DEF Writes, ZoneWrites, HeaderWrites
<1> HIDE DEF N, z, ms
<1>8. \A x \in {x1, x2, x3, x4, x5, x6} : x \in Kept(Len(ms))
  <2>1. n \in 1..Len(ms) /\ n + 1 \in 1..Len(ms)
    BY <1>2, <1>5
  <2>2. x1 \in Kept(Len(ms)) /\ x3 \in Kept(Len(ms))
    BY <2>1 DEF Kept
  <2>3. x2 \in Kept(Len(ms)) /\ x4 \in Kept(Len(ms))
    BY <2>1 DEF Kept
  <2>4. x5 \in Kept(Len(ms)) /\ x6 \in Kept(Len(ms))
    BY DEF Kept
  <2> HIDE DEF x1, x2, x3, x4, x5, x6
  <2> QED
    BY <2>2, <2>3, <2>4
<1>9. /\ Lo(ms, x1) = z.at /\ Width(ms, x1) = z.len
      /\ Lo(ms, x2) = z.backup /\ Width(ms, x2) = z.len
      /\ Lo(ms, x3) = ms[n].at /\ Width(ms, x3) = ms[n].len
      /\ Lo(ms, x4) = ms[n].backup /\ Width(ms, x4) = ms[n].len
      /\ Lo(ms, x5) = 0 /\ Width(ms, x5) = 1
      /\ Lo(ms, x6) = Rounded(Root) - 1 /\ Width(ms, x6) = 1
  <2>1. Lo(ms, x1) = z.at /\ Width(ms, x1) = z.len
    BY <1>5, LoIs, ZenonT(30)
  <2>2. Lo(ms, x2) = z.backup /\ Width(ms, x2) = z.len
    BY <1>5, LoIs
  <2>3. Lo(ms, x3) = ms[n].at /\ Width(ms, x3) = ms[n].len
    BY LoIs
  <2>4. Lo(ms, x4) = ms[n].backup /\ Width(ms, x4) = ms[n].len
    BY LoIs
  <2>5. Lo(ms, x5) = 0 /\ Width(ms, x5) = 1
    BY LoIs
  <2>6. Lo(ms, x6) = Rounded(Root) - 1 /\ Width(ms, x6) = 1
    BY LoIs
  <2> HIDE DEF x1, x2, x3, x4, x5, x6
  <2> QED
    BY <2>1, <2>2, <2>3, <2>4, <2>5, <2>6
<1>10. n \in 1..Len(ms) /\ n + 1 \in 1..Len(ms)
  BY <1>2, <1>5
<1>11. /\ Data(ms, hdr, x1) = ZoneSectors(z) /\ Data(ms, hdr, x2) = ZoneSectors(z)
       /\ Len(ZoneSectors(z)) = z.len
  BY <1>1, <1>5, <1>10, ZoneDataIs
<1>12. /\ Data(ms, hdr, x3) = ZoneSectors(ms[n]) /\ Data(ms, hdr, x4) = ZoneSectors(ms[n])
       /\ Len(ZoneSectors(ms[n])) = ms[n].len
  BY <1>1, <1>10, ZoneDataIs
<1>13. Data(ms, hdr, x5) = <<hdr>> /\ Data(ms, hdr, x6) = <<hdr>> /\ Len(<<hdr>>) = 1
  BY DEF Data
<1> HIDE DEF hdr, x1, x2, x3, x4, x5, x6
<1>14. /\ Through(A, N, ms, hdr, x1) /\ Len(A) = z.len
       /\ Through(B, N, ms, hdr, x2)
  <2>1. x1 \in Kept(Len(ms)) /\ x2 \in Kept(Len(ms))
    BY <1>8
  <2>2. Through(A, N, ms, hdr, x1) /\ Len(A) = z.len
    BY <2>1, <1>1, <1>6, <1>9, <1>11, PutThrough DEF hdr
  <2>3. Through(B, N, ms, hdr, x2)
    BY <2>1, <1>1, <1>9, <1>11, PutThrough DEF hdr
  <2> QED
    BY <2>2, <2>3
<1>15. /\ Through(C, N, ms, hdr, x3) /\ Len(C) = ms[n].len
       /\ Through(D, N, ms, hdr, x4)
  <2>1. x3 \in Kept(Len(ms)) /\ x4 \in Kept(Len(ms))
    BY <1>8
  <2>2. Through(C, N, ms, hdr, x3) /\ Len(C) = ms[n].len
    BY <2>1, <1>1, <1>6, <1>9, <1>12, PutThrough DEF hdr
  <2>3. Through(D, N, ms, hdr, x4)
    BY <2>1, <1>1, <1>9, <1>12, PutThrough DEF hdr
  <2> QED
    BY <2>2, <2>3
<1>16. /\ Through(E, N, ms, hdr, x5) /\ Len(E) = 1
       /\ Through(F, N, ms, hdr, x6)
  <2>1. x5 \in Kept(Len(ms)) /\ x6 \in Kept(Len(ms))
    BY <1>8
  <2> DEFINE e == <<hdr>>
  <2> HIDE DEF e
  <2>4. e = Data(ms, hdr, x5) /\ Len(e) = Width(ms, x5) /\ Lo(ms, x5) = 0
    BY <1>9, <1>13 DEF e
  <2>6. /\ Through(Put(N, ro, Lo(ms, x5), e), N, ms, hdr, x5)
        /\ Writable(N, ro, Lo(ms, x5)) => Len(Put(N, ro, Lo(ms, x5), e)) = Width(ms, x5)
    BY <2>1, <2>4, <1>1, PutThrough DEF hdr
  <2> HIDE DEF x5
  <2>5. Through(Put(N, ro, 0, e), N, ms, hdr, x5) /\ Len(Put(N, ro, 0, e)) = 1
    BY ONLY <2>4, <2>6, <1>6, <1>9
  <2>2. Through(E, N, ms, hdr, x5) /\ Len(E) = 1
    BY <2>5 DEF e
  <2>3. Through(F, N, ms, hdr, x6)
    BY <2>1, <1>1, <1>9, <1>13, PutThrough DEF hdr
  <2> QED
    BY <2>2, <2>3
<1> HIDE DEF A, B, C, D, E, F, W
<1>17. /\ A \in Seq(Writ) /\ B \in Seq(Writ) /\ C \in Seq(Writ)
       /\ D \in Seq(Writ) /\ E \in Seq(Writ) /\ F \in Seq(Writ)
  BY <1>14, <1>15, <1>16 DEF Through
<1>18. Six(W, A, B, C, D, E, F)
  BY <1>7, <1>17, SixIs
<1>19. /\ Len(A) \in Nat /\ Len(B) \in Nat /\ Len(C) \in Nat
       /\ Len(D) \in Nat /\ Len(E) \in Nat /\ Len(F) \in Nat
  BY <1>17
<1>20. ms[n].len \in Nat /\ ms[n].len > 0 /\ ms[n].at \in Nat
  BY <1>1, <1>10, MapArea
<1>21. J \in Nat /\ H \in Nat /\ z.len < J /\ J < H /\ H <= Len(W)
  <2>1. Len(W) = Len(A) + Len(B) + Len(C) + Len(D) + Len(E) + Len(F)
    BY <1>18 DEF Six
  <2>2. Len(A) = z.len /\ Len(C) = ms[n].len /\ Len(E) = 1
    BY <1>14, <1>15, <1>16
  <2>3. Len(C) > 0 /\ Len(E) > 0 /\ z.len <= Len(A)
    BY <2>2, <1>4, <1>20
  <2>4. \A a, b, c, d, e, f, l, w \in Nat :
          w = a + b + c + d + e + f /\ c > 0 /\ e > 0 /\ l <= a =>
            /\ a + b + 1 \in Nat /\ a + b + c + d + 1 \in Nat /\ l < a + b + 1
            /\ a + b + 1 < a + b + c + d + 1 /\ a + b + c + d + 1 <= w
    OBVIOUS
  <2>5. Len(W) \in Nat
    BY <2>1, <1>19
  <2> QED
    BY ONLY <2>1, <2>3, <2>4, <2>5, <1>4, <1>19
<1>22. ASSUME NEW i \in 1..Len(W)
       PROVE  /\ \E x \in {x1, x2, x3, x4, x5, x6} :
                   /\ Right(W[i], N, ms, hdr, x)
                   /\ i < J => x \in {x1, x2}
                   /\ i < H => x \in {x1, x2, x3, x4}
  <2>1. \/ i < J /\ ((\E k \in 1..Len(A) : W[i] = A[k]) \/ \E k \in 1..Len(B) : W[i] = B[k])
        \/ ~(i < J) /\ i < H /\ ((\E k \in 1..Len(C) : W[i] = C[k]) \/ \E k \in 1..Len(D) : W[i] = D[k])
        \/ ~(i < H) /\ ~(i < J) /\ ((\E k \in 1..Len(E) : W[i] = E[k]) \/ \E k \in 1..Len(F) : W[i] = F[k])
    <3>1. \/ i <= Len(A) + Len(B)
             /\ ((\E k \in 1..Len(A) : W[i] = A[k]) \/ \E k \in 1..Len(B) : W[i] = B[k])
          \/ i > Len(A) + Len(B) /\ i <= Len(A) + Len(B) + Len(C) + Len(D)
             /\ ((\E k \in 1..Len(C) : W[i] = C[k]) \/ \E k \in 1..Len(D) : W[i] = D[k])
          \/ i > Len(A) + Len(B) + Len(C) + Len(D)
             /\ ((\E k \in 1..Len(E) : W[i] = E[k]) \/ \E k \in 1..Len(F) : W[i] = F[k])
      BY <1>18 DEF Six
    <3>2. i \in Nat
      BY <1>22
    <3>3. /\ i <= Len(A) + Len(B) <=> i < J
          /\ i > Len(A) + Len(B) <=> ~(i < J)
          /\ i <= Len(A) + Len(B) + Len(C) + Len(D) <=> i < H
          /\ i > Len(A) + Len(B) + Len(C) + Len(D) <=> ~(i < H)
          /\ i < J => i < H
      BY <3>2, <1>19
    <3> HIDE DEF J, H
    <3> QED
      BY ONLY <3>1, <3>3
  <2>2. \A x \in {x1, x2, x3, x4, x5, x6} : \A G :
          Through(G, N, ms, hdr, x) => \A k \in 1..Len(G) : Right(G[k], N, ms, hdr, x)
    BY <1>1, <1>8, ThroughRight DEF hdr
  <2>3. \A k \in 1..Len(A) : Right(A[k], N, ms, hdr, x1)
    BY <2>2, <1>14
  <2>4. \A k \in 1..Len(B) : Right(B[k], N, ms, hdr, x2)
    BY <2>2, <1>14
  <2>5. \A k \in 1..Len(C) : Right(C[k], N, ms, hdr, x3)
    BY <2>2, <1>15
  <2>6. \A k \in 1..Len(D) : Right(D[k], N, ms, hdr, x4)
    BY <2>2, <1>15
  <2>7. \A k \in 1..Len(E) : Right(E[k], N, ms, hdr, x5)
    BY <2>2, <1>16
  <2>8. \A k \in 1..Len(F) : Right(F[k], N, ms, hdr, x6)
    BY <2>2, <1>16
  <2> HIDE DEF J, H
  <2> QED
    BY ONLY <2>1, <2>3, <2>4, <2>5, <2>6, <2>7, <2>8
<1>23. At(N, W[J]) = ms[n].at
  <2>1. W[J] = C[1] /\ 1 \in 1..Len(C)
    BY <1>15, <1>18, <1>20 DEF Six
  <2>2. C[1] = [place |-> Place(N, ms[n].at + 1 - 1), v |-> Data(ms, hdr, x3)[1]]
    BY <2>1, <1>9, <1>15 DEF Through
  <2>3. ms[n].at + 1 - 1 = ms[n].at
    BY <1>20
  <2>4. Lies(N, ms[n].at)
    BY <1>1, <1>10, <1>20, MapArea, FitsLies
  <2>5. IsInjective(N)
    BY <1>1 DEF Shape
  <2>6. W[J].place = Place(N, ms[n].at)
    BY <2>1, <2>2, <2>3
  <2> QED
    BY <2>4, <2>5, <2>6, <1>1, <1>20, AtIs
<1>24. At(N, W[H]) = 0
  <2>1. W[H] = E[1] /\ 1 \in 1..Len(E)
    BY <1>16, <1>18 DEF Six
  <2>2. E[1] = [place |-> Place(N, 0 + 1 - 1), v |-> Data(ms, hdr, x5)[1]]
    BY <2>1, <1>9, <1>16 DEF Through
  <2>3. Fits(N, 0, 1)
    BY <1>6 DEF Writable
  <2>4. Lies(N, 0)
    BY <2>3, <1>1, FitsLies
  <2>5. IsInjective(N)
    BY <1>1 DEF Shape
  <2>6. W[H].place = Place(N, 0)
    BY <2>1, <2>2
  <2> QED
    BY <2>4, <2>5, <2>6, <1>1, AtIs
<1>25. ASSUME NEW k \in 1..z.len
       PROVE  At(N, W[k]) = z.at + k - 1
  <2>1. W[k] = A[k] /\ k \in 1..Len(A)
    BY <1>14, <1>18 DEF Six
  <2>2. A[k] = [place |-> Place(N, z.at + k - 1), v |-> Data(ms, hdr, x1)[k]]
    BY <2>1, <1>9, <1>14 DEF Through
  <2>3. /\ z.at \in Nat /\ Fits(N, z.at, z.len)
    BY <1>1, <1>5, <1>10, MapArea
  <2>4. z.at + k - 1 \in z.at..(z.at + z.len - 1)
    BY <2>3, <1>4
  <2>5. Lies(N, z.at + k - 1) /\ z.at + k - 1 \in Nat
    BY <2>3, <2>4, <1>1, <1>4, FitsLies
  <2>6. IsInjective(N)
    BY <1>1 DEF Shape
  <2>7. W[k].place = Place(N, z.at + k - 1)
    BY <2>1, <2>2
  <2> QED
    BY <2>5, <2>6, <2>7, <1>1, AtIs
<1>26. /\ x1 # x3 /\ x2 # x3 /\ x1 # x5 /\ x2 # x5 /\ x3 # x5 /\ x4 # x5
  BY <1>2 DEF x1, x2, x3, x4, x5
<1>27. ASSUME NEW i \in 1..Len(W)
       PROVE  /\ At(N, W[i]) \in Nat /\ Lies(N, At(N, W[i])) /\ W[i].place = Place(N, At(N, W[i]))
              /\ At(N, W[i]) = 0 => W[i].v = hdr
              /\ \A q \in 1..Len(ms) : \A k \in 1..ms[q].len :
                   At(N, W[i]) = ms[q].at + k - 1 => W[i].v = ZoneSectors(ms[q])[k]
              /\ i < J => At(N, W[i]) # ms[n].at
              /\ i < H => At(N, W[i]) # 0
  <2>1. PICK x \in {x1, x2, x3, x4, x5, x6} :
                   /\ Right(W[i], N, ms, hdr, x)
                   /\ i < J => x \in {x1, x2}
                   /\ i < H => x \in {x1, x2, x3, x4}
    BY <1>22
  <2> HIDE DEF J, H
  <2>2. i < J => At(N, W[i]) # ms[n].at
    <3> SUFFICES ASSUME i < J, At(N, W[i]) = ms[n].at PROVE FALSE
      OBVIOUS
    <3>1. 1 \in 1..ms[n].len /\ ms[n].at = ms[n].at + 1 - 1
      BY <1>20
    <3>2. At(N, W[i]) = ms[n].at + 1 - 1
      BY <3>1
    <3>3. x = x3
      BY <3>1, <3>2, <2>1, <1>10 DEF Right, x3
    <3> QED
      BY <3>3, <2>1, <1>26
  <2>3. i < H => At(N, W[i]) # 0
    <3> SUFFICES ASSUME i < H, At(N, W[i]) = 0 PROVE FALSE
      OBVIOUS
    <3>1. x = x5
      BY <2>1 DEF Right, x5
    <3> QED
      BY <3>1, <2>1, <1>26
  <2> QED
    BY <2>1, <2>2, <2>3 DEF Right
<1> HIDE DEF J, H
<1>28. W \in Seq(Writ)
  BY <1>18 DEF Six
<1>29. (n + 1) - 1 = n
  BY <1>2
<1>30. Order(W, N, ms, hdr, J, H)
  BY <1>5, <1>21, <1>23, <1>24, <1>25, <1>27, <1>28, <1>29 DEF Order
<1> QED
  BY <1>30 DEF W, N, ms, hdr, z

-----------------------------------------------------------------------------
(* What the drives hold while a pair is added.                              *)

LEMMA HeadSector ==
  ASSUME NEW list, NEW zs, Shape(list, zs)
  PROVE  Sector(list, 0) = sec[Root][0] /\ Lies(list, 0)
<1>1. list \in Seq(Parts) /\ Len(list) > 0 /\ list[1] = Root /\ 1 \in 1..Len(list) /\ Rounded(list[1]) > 0
  BY DEF Shape
<1>2. StartsFrom(Starts(list), list) /\ Rounded(list[1]) \in Nat
  BY <1>1, StartsIs, RoundedNat
<1>3. Starts(list)[1] = 0 /\ Starts(list)[1 + 1] = Rounded(list[1])
  BY <1>1, <1>2 DEF StartsFrom
<1>4. LiesIn(list, 1, 0)
  BY <1>1, <1>2, <1>3 DEF LiesIn
<1>5. Place(list, 0) = <<list[1], 0 - Starts(list)[1]>>
  BY <1>1, <1>4, PlaceIs
<1>6. Place(list, 0) = <<Root, 0>>
  BY <1>1, <1>3, <1>5
<1> QED
  BY <1>1, <1>4, <1>6 DEF Sector, Lies

LEMMA MapLies ==
  ASSUME NEW list, NEW zs, Shape(list, zs), NEW i \in 1..Len(zs), NEW k \in 1..zs[i].len
  PROVE  zs[i].at + k - 1 \in Nat /\ Lies(list, zs[i].at + k - 1)
<1>1. /\ list \in Seq(Parts) /\ zs[i].len \in Nat /\ zs[i].at \in Nat
      /\ Fits(list, zs[i].at, zs[i].len)
  BY MapArea
<1>2. zs[i].at + k - 1 \in zs[i].at..(zs[i].at + zs[i].len - 1)
  BY <1>1
<1> QED
  BY <1>1, <1>2, FitsLies

\* What adding pair p to a set with the maps zs amounts to: new volumes and maps.
Grown(list, zs, p, new, ms) ==
  /\ Shape(new, ms)
  /\ list \in Seq(Parts) /\ p \in Seq(Parts) /\ new \in Seq(Parts)
  /\ Len(zs) \in Nat /\ Len(zs) > 0 /\ Len(ms) = Len(zs) + 1
  /\ ms[Len(zs) + 1].next = Nil
  /\ ms[Len(zs)] = [zs[Len(zs)] EXCEPT !.next = PtrTo(NewZone(list, p[1], p[2]))]
  /\ \A i \in 1..Len(zs) : i < Len(zs) => ms[i] = zs[i]
  /\ \A i \in 1..Len(zs) : Alike(ms[i], zs[i]) /\ PtrTo(ms[i]) = PtrTo(zs[i])

LEMMA AddedIs ==
  ASSUME NEW list, NEW zs, NEW p, Shape(list, zs), May(list, p)
  PROVE  Grown(list, zs, p, list \o p, Added(list, zs, p))
<1>1. Shape(list \o p, Added(list, zs, p))
  BY GrowShape
<1>2. /\ list \in Seq(Parts) /\ p \in Seq(Parts) /\ list \o p \in Seq(Parts)
      /\ zs \in Seq(Zone) /\ Len(zs) \in Nat /\ Len(zs) > 0
  BY PairParts DEF Shape, May
<1>3. IsNew(list, p, NewZone(list, p[1], p[2]))
  BY <1>2, NewZoneIs
<1>4. NewZone(list, p[1], p[2]) \in Zone /\ NewZone(list, p[1], p[2]).next = Nil
  BY <1>3 DEF IsNew
<1>5. /\ Len(Added(list, zs, p)) = Len(zs) + 1
      /\ Added(list, zs, p)[Len(zs) + 1] = NewZone(list, p[1], p[2])
      /\ Added(list, zs, p)[Len(zs)] = [zs[Len(zs)] EXCEPT !.next = PtrTo(NewZone(list, p[1], p[2]))]
      /\ \A i \in 1..Len(zs) : i < Len(zs) => Added(list, zs, p)[i] = zs[i]
      /\ \A i \in 1..Len(zs) : Alike(Added(list, zs, p)[i], zs[i])
  BY <1>2, <1>4, JoinedIs DEF Added
<1>6. \A i \in 1..Len(zs) : PtrTo(Added(list, zs, p)[i]) = PtrTo(zs[i])
  BY <1>5 DEF Alike, PtrTo
<1> QED
  BY <1>1, <1>2, <1>4, <1>5, <1>6 DEF Grown

(* The set is the old one, then half of the new one, then the new one.      *)
LEMMA AfterIs ==
  ASSUME NEW list, NEW zs, NEW p, Shape(list, zs), zs[Len(zs)].next = Nil, May(list, p),
         NEW J \in Nat, NEW H \in Nat, NEW j \in Nat,
         Added(list, zs, p)[Len(zs) + 1].len < J, J < H,
         After(j, list \o p, Added(list, zs, p), Header(list \o p, PtrTo(zs[1])), J, H,
               Header(list, PtrTo(zs[1])), ZoneSectors(zs[Len(zs)])[1])
  PROVE  /\ j < J => Whole(list, zs)
         /\ J <= j /\ j < H => Half(list, zs, p)
         /\ H <= j => Whole(list \o p, Added(list, zs, p))
<1> DEFINE N == list \o p
           n == Len(zs)
           ms == Added(list, zs, p)
           m == PtrTo(zs[1])
           hdr == Header(N, m)
<1>1. /\ Shape(N, ms) /\ list \in Seq(Parts) /\ p \in Seq(Parts) /\ n \in Nat /\ n > 0 /\ Len(ms) = n + 1
      /\ ms[n + 1].next = Nil
      /\ \A i \in 1..n : i < n => ms[i] = zs[i]
      /\ \A i \in 1..n : Alike(ms[i], zs[i]) /\ PtrTo(ms[i]) = PtrTo(zs[i])
  <2>1. Grown(list, zs, p, N, ms)
    BY AddedIs
  <2> HIDE DEF N, ms
  <2> QED
    BY <2>1 DEF Grown
<1>2. m = PtrTo(ms[1])
  BY <1>1
<1>3. sec[Root][0] = IF j < H THEN Header(list, m) ELSE hdr
  BY <1>1, HeadSector DEF After
<1>4. Sector(N, ms[n].at) = IF j < J THEN ZoneSectors(zs[n])[1] ELSE ZoneSectors(ms[n])[1]
  <2>1. Len(ms) - 1 = n
    BY <1>1
  <2> QED
    BY <2>1 DEF After
<1>5. \A q \in 1..(n + 1) : \A k \in 1..ms[q].len :
        (q = n => k > 1) /\ (q = n + 1 => k <= j)
          => Sector(N, ms[q].at + k - 1) = ZoneSectors(ms[q])[k]
  <2>1. Len(ms) - 1 = n
    BY <1>1
  <2> HIDE DEF N, ms
  <2> QED
    BY <2>1, <1>1 DEF After, N, ms
<1>6. \A q \in 1..(n + 1) : ms[q].len \in Nat /\ ms[q].at \in Nat
  BY <1>1, MapArea
<1>7. ASSUME J <= j
      PROVE  \A i \in 1..(n + 1) : MapOn(N, ms[i])
  <2> TAKE i \in 1..(n + 1)
  <2> HIDE DEF N, ms
  <2>1. ASSUME NEW k \in 1..ms[i].len
        PROVE  Sector(N, ms[i].at + k - 1) = ZoneSectors(ms[i])[k]
    <3>1. CASE i = n /\ k = 1
      <4>1. ms[n].at + 1 - 1 = ms[n].at
        BY <3>1, <1>6
      <4>2. ~(j < J)
        BY <1>7
      <4> QED
        BY <3>1, <4>1, <4>2, <1>4
    <3>2. CASE ~(i = n /\ k = 1)
      <4>1. i = n => k > 1
        BY <3>2, <1>6
      <4>2. i = n + 1 => k <= j
        BY <1>6, <1>7 DEF ms
      <4> QED
        BY <4>1, <4>2, <1>5
    <3> QED
      BY <3>1, <3>2
  <2> QED
    BY <2>1 DEF MapOn
<1>8. ASSUME j < J
      PROVE  \A i \in 1..n : MapOn(list, zs[i])
  <2> TAKE i \in 1..n
  <2> HIDE DEF N, ms
  <2>1. ASSUME NEW k \in 1..zs[i].len
        PROVE  Sector(list, zs[i].at + k - 1) = ZoneSectors(zs[i])[k]
    <3>1. zs[i].at + k - 1 \in Nat /\ Lies(list, zs[i].at + k - 1)
      BY MapLies
    <3>2. Sector(N, zs[i].at + k - 1) = Sector(list, zs[i].at + k - 1)
      BY <3>1, <1>1, SameSector DEF N
    <3>3. i \in 1..(n + 1) /\ i # n + 1 /\ k \in 1..ms[i].len /\ ms[i].at = zs[i].at /\ ms[i].at \in Nat
      BY <1>1, <1>6 DEF Alike
    <3>4. CASE i = n /\ k = 1
      <4>1. ms[n].at + 1 - 1 = ms[n].at
        BY <3>3, <3>4
      <4> QED
        BY <3>2, <3>3, <3>4, <4>1, <1>4, <1>8
    <3>5. CASE i = n /\ k # 1
      <4>1. k > 1
        BY <3>3, <3>5, <1>6
      <4>2. Sector(N, ms[i].at + k - 1) = ZoneSectors(ms[i])[k]
        BY <3>3, <4>1, <1>5
      <4>3. ZoneSectors(ms[i])[k] = ZoneSectors(zs[i])[k]
        BY <3>3, <3>5, <1>1 DEF ZoneSectors, Alike
      <4> QED
        BY <3>2, <3>3, <4>2, <4>3
    <3>6. CASE i # n
      <4>1. i < n
        BY <3>6, <1>1
      <4>2. ms[i] = zs[i]
        BY <4>1, <1>1
      <4>3. Sector(N, ms[i].at + k - 1) = ZoneSectors(ms[i])[k]
        BY <3>3, <3>6, <1>5
      <4> QED
        BY <3>2, <4>2, <4>3
    <3> QED
      BY <3>4, <3>5, <3>6
  <2> QED
    BY <2>1 DEF MapOn
<1>9. ASSUME j < J
      PROVE  Whole(list, zs)
  <2>1. sec[Root][0] = Header(list, m)
    <3>1. j < H
      BY <1>9
    <3> QED
      BY <3>1, <1>3
  <2> QED
    BY <2>1, <1>8, <1>9 DEF Whole
<1>10. ASSUME J <= j, j < H
       PROVE  Half(list, zs, p)
  BY <1>3, <1>7, <1>10 DEF Half
<1>11. ASSUME H <= j
       PROVE  Whole(N, ms)
  <2>1. J <= j /\ ~(j < H)
    BY <1>11
  <2>2. sec[Root][0] = Header(N, PtrTo(ms[1]))
    BY <2>1, <1>2, <1>3
  <2>3. \A i \in 1..(n + 1) : MapOn(N, ms[i])
    BY <2>1, <1>7
  <2> HIDE DEF N, ms
  <2> QED
    BY <2>2, <2>3, <1>1 DEF Whole
<1> QED
  BY <1>9, <1>10, <1>11

(* A write changes one sector.                                              *)
InCell(f, c) == f[c[1]][c[2]]

LEMMA OneWrite ==
  ASSUME SecOK, NEW w \in Writ, sec' = [sec EXCEPT ![w.place[1]][w.place[2]] = w.v],
         NEW list \in Seq(Parts), IsInjective(list), NEW s \in Nat, Lies(list, s),
         w.place = Place(list, s)
  PROVE  /\ SecOK'
         /\ \A t \in Nat : Lies(list, t) =>
              InCell(sec', Place(list, t)) = IF t = s THEN w.v ELSE InCell(sec, Place(list, t))
<1>1. w.place \in Cells
  BY DEF Writ
<1> DEFINE a == w.place[1]
           b == w.place[2]
<1>2. a \in Parts /\ b \in Nat /\ b < Size[a] /\ Size[a] \in Nat
  BY <1>1, SizeAssumption DEF Cells
<1>3. a \in DOMAIN sec /\ b \in DOMAIN sec[a]
  BY <1>2 DEF SecOK
<1> HIDE DEF a, b
<1>4. sec' = [sec EXCEPT ![a] = [sec[a] EXCEPT ![b] = w.v]]
  BY DEF a, b
<1>5. SecOK'
  <2>1. DOMAIN sec' = DOMAIN sec /\ \A p \in DOMAIN sec : DOMAIN sec'[p] = DOMAIN sec[p]
    BY <1>3, <1>4
  <2> QED
    BY <2>1 DEF SecOK
<1>6. ASSUME NEW t \in Nat, Lies(list, t)
      PROVE  InCell(sec', Place(list, t)) = IF t = s THEN w.v ELSE InCell(sec, Place(list, t))
  <2> DEFINE c == Place(list, t)
  <2>1. c \in Cells /\ c[1] \in Parts
    BY <1>6, PlaceIsCell
  <2>2. c[1] \in DOMAIN sec
    BY <2>1 DEF SecOK
  <2>3. InCell(sec', c) = sec'[c[1]][c[2]] /\ InCell(sec, c) = sec[c[1]][c[2]]
    BY DEF InCell
  <2>4. c[2] \in DOMAIN sec[c[1]]
    <3>1. c[2] \in Nat /\ c[2] < Size[c[1]] /\ Size[c[1]] \in Nat
      BY <2>1, SizeAssumption DEF Cells
    <3> QED
      BY <3>1, <2>1 DEF SecOK
  <2>5. c = <<c[1], c[2]>> /\ w.place = <<a, b>>
    BY <2>1, <1>1 DEF Cells, a, b
  <2>6. CASE t = s
    <3>1. c[1] = a /\ c[2] = b
      BY <2>6 DEF a, b
    <3>2. sec'[c[1]][c[2]] = w.v
      <4> HIDE DEF c
      <4> QED
        BY <3>1, <2>2, <2>4, <1>4
    <3> QED
      BY <3>2, <2>3, <2>6
  <2>7. CASE t # s
    <3>1. c # w.place
      BY <2>7, <1>6, PlacesDiffer
    <3>2. ~(c[1] = a /\ c[2] = b)
      BY <3>1, <2>5
    <3>3. sec'[c[1]][c[2]] = sec[c[1]][c[2]]
      <4> HIDE DEF c
      <4> QED
        BY <3>2, <2>2, <2>4, <1>3, <1>4
    <3> QED
      BY <3>3, <2>3, <2>7
  <2> QED
    BY <2>6, <2>7
<1> QED
  BY <1>5, <1>6

LEMMA WriteAfter ==
  ASSUME SecOK, NEW list, NEW zs, Shape(list, zs), Len(zs) > 1, NEW hdr, NEW W, NEW J, NEW H,
         Order(W, list, zs, hdr, J, H), NEW j \in Nat, j < Len(W), NEW old, NEW head,
         After(j, list, zs, hdr, J, H, old, head),
         sec' = [sec EXCEPT ![W[j + 1].place[1]][W[j + 1].place[2]] = W[j + 1].v]
  PROVE  SecOK' /\ After(j + 1, list, zs, hdr, J, H, old, head)'
<1> DEFINE n == Len(zs) - 1
<1> PICK w : w = W[j + 1]
  OBVIOUS
<1> PICK s : s = At(list, w)
  OBVIOUS
<1>1. W \in Seq(Writ) /\ j + 1 \in 1..Len(W) /\ J \in Nat /\ H \in Nat /\ J < H /\ H <= Len(W) /\ w \in Writ
  <2>1. W \in Seq(Writ) /\ J \in Nat /\ H \in Nat /\ J < H /\ H <= Len(W)
    BY DEF Order
  <2>2. j + 1 \in 1..Len(W)
    BY <2>1
  <2> QED
    BY <2>1, <2>2
<1>2. list \in Seq(Parts) /\ IsInjective(list) /\ Len(zs) \in Nat /\ n \in 1..Len(zs) /\ n + 1 = Len(zs)
  <2>1. list \in Seq(Parts) /\ IsInjective(list) /\ zs \in Seq(Zone)
    BY DEF Shape
  <2> QED
    BY <2>1
<1>3. /\ s \in Nat /\ Lies(list, s) /\ w.place = Place(list, s)
      /\ s = 0 => w.v = hdr
      /\ \A q \in 1..Len(zs) : \A k \in 1..zs[q].len :
           s = zs[q].at + k - 1 => w.v = ZoneSectors(zs[q])[k]
      /\ j + 1 < J => s # zs[n].at
      /\ j + 1 < H => s # 0
  BY <1>1 DEF Order
<1>4. /\ j + 1 = J => s = zs[n].at
      /\ j + 1 = H => s = 0
      /\ \A k \in 1..zs[n + 1].len : j + 1 = k => s = zs[n + 1].at + k - 1
  BY <1>2 DEF Order
<1>5. /\ SecOK'
      /\ \A t \in Nat : Lies(list, t) => Sector(list, t)' = IF t = s THEN w.v ELSE Sector(list, t)
  <2>1. sec' = [sec EXCEPT ![w.place[1]][w.place[2]] = w.v]
    OBVIOUS
  <2>2. /\ SecOK'
        /\ \A t \in Nat : Lies(list, t) =>
             InCell(sec', Place(list, t)) = IF t = s THEN w.v ELSE InCell(sec, Place(list, t))
    <3>1. w \in Writ /\ list \in Seq(Parts) /\ IsInjective(list) /\ s \in Nat /\ Lies(list, s)
          /\ w.place = Place(list, s)
      BY <1>1, <1>2, <1>3
    <3> QED
      BY ONLY <3>1, <2>1, SecOK, OneWrite
  <2>3. \A t \in Nat : /\ Sector(list, t)' = InCell(sec', Place(list, t))
                       /\ Sector(list, t) = InCell(sec, Place(list, t))
    BY DEF Sector, InCell
  <2> QED
    BY <2>2, <2>3
<1>6. Sector(list, 0)' = IF j + 1 < H THEN old ELSE hdr
  <2>1. Lies(list, 0)
    BY HeadSector
  <2>2. Sector(list, 0)' = IF 0 = s THEN w.v ELSE Sector(list, 0)
    BY <2>1, <1>5
  <2>3. Sector(list, 0) = IF j < H THEN old ELSE hdr
    BY DEF After
  <2>4. CASE s = 0
    <3>1. ~(j + 1 < H) /\ w.v = hdr
      BY <2>4, <1>3
    <3> QED
      BY <2>2, <2>4, <3>1
  <2>5. CASE s # 0
    <3>1. j + 1 < H <=> j < H
      BY <2>5, <1>1, <1>4
    <3> QED
      BY <2>2, <2>3, <2>5, <3>1
  <2> QED
    BY <2>4, <2>5
<1>7. zs[n].at \in Nat /\ zs[n].len \in Nat /\ zs[n].len > 0 /\ 1 \in 1..zs[n].len /\ zs[n].at = zs[n].at + 1 - 1
  <2> HIDE DEF n
  <2>1. zs[n].at \in Nat /\ zs[n].len \in Nat /\ zs[n].len > 0
    BY <1>2, MapArea
  <2> QED
    BY <2>1
<1>8. Sector(list, zs[n].at)' = IF j + 1 < J THEN head ELSE ZoneSectors(zs[n])[1]
  <2>1. Lies(list, zs[n].at)
    BY <1>2, <1>7, MapLies
  <2>2. Sector(list, zs[n].at)' = IF zs[n].at = s THEN w.v ELSE Sector(list, zs[n].at)
    BY <2>1, <1>5, <1>7
  <2>3. Sector(list, zs[n].at) = IF j < J THEN head ELSE ZoneSectors(zs[n])[1]
    BY DEF After
  <2>4. CASE s = zs[n].at
    <3>1. s = zs[n].at + 1 - 1
      BY <2>4, <1>7
    <3>2. ~(j + 1 < J) /\ w.v = ZoneSectors(zs[n])[1]
      BY <2>4, <3>1, <1>2, <1>3, <1>7
    <3> QED
      BY <2>2, <2>4, <3>2
  <2>5. CASE s # zs[n].at
    <3>1. j + 1 < J <=> j < J
      BY <2>5, <1>1, <1>4
    <3> QED
      BY <2>2, <2>3, <2>5, <3>1
  <2> QED
    BY <2>4, <2>5
<1>9. ASSUME NEW q \in 1..Len(zs), NEW k \in 1..zs[q].len, q = n => k > 1, q = n + 1 => k <= j + 1
      PROVE  Sector(list, zs[q].at + k - 1)' = ZoneSectors(zs[q])[k]
  <2> DEFINE t == zs[q].at + k - 1
  <2>1. t \in Nat /\ Lies(list, t)
    BY MapLies
  <2>2. Sector(list, t)' = IF t = s THEN w.v ELSE Sector(list, t)
    BY <2>1, <1>5
  <2>3. CASE s = t
    BY <2>2, <2>3, <1>3
  <2>4. CASE s # t
    <3>1. q = n + 1 => k # j + 1
      BY <2>4, <1>4
    <3>2. zs[q].len \in Nat
      BY MapArea
    <3>3. q = n + 1 => k <= j
      BY <3>1, <3>2, <1>9
    <3>4. Sector(list, t) = ZoneSectors(zs[q])[k]
      BY <3>3, <1>2, <1>9 DEF After
    <3> QED
      BY <2>2, <2>4, <3>4
  <2> QED
    BY <2>3, <2>4
<1>10. After(j + 1, list, zs, hdr, J, H, old, head)'
  BY <1>2, <1>6, <1>8, <1>9 DEF After
<1> QED
  BY <1>5, <1>10

LEMMA AfterStart ==
  ASSUME NEW list, NEW zs, NEW p, Whole(list, zs), May(list, p),
         NEW J \in Nat, NEW H \in Nat, 0 < J, 0 < H
  PROVE  After(0, list \o p, Added(list, zs, p), Header(list \o p, PtrTo(zs[1])), J, H,
               Header(list, PtrTo(zs[1])), ZoneSectors(zs[Len(zs)])[1])
<1> DEFINE N == list \o p
           n == Len(zs)
           ms == Added(list, zs, p)
           m == PtrTo(zs[1])
<1>1. Shape(list, zs) /\ sec[Root][0] = Header(list, m) /\ \A i \in 1..n : MapOn(list, zs[i])
  BY DEF Whole
<1>2. Grown(list, zs, p, N, ms)
  BY <1>1, AddedIs
<1> HIDE DEF ms
<1>3. /\ Shape(N, ms) /\ list \in Seq(Parts) /\ p \in Seq(Parts) /\ n \in Nat /\ n > 0 /\ Len(ms) = n + 1
      /\ \A i \in 1..n : i < n => ms[i] = zs[i]
      /\ \A i \in 1..n : Alike(ms[i], zs[i])
  BY <1>2 DEF Grown
<1>4. \A i \in 1..n : \A k \in 1..zs[i].len : Sector(N, zs[i].at + k - 1) = ZoneSectors(zs[i])[k]
  <2> TAKE i \in 1..n
  <2> TAKE k \in 1..zs[i].len
  <2>1. zs[i].at + k - 1 \in Nat /\ Lies(list, zs[i].at + k - 1)
    BY <1>1, MapLies
  <2>2. Sector(N, zs[i].at + k - 1) = Sector(list, zs[i].at + k - 1)
    BY <2>1, <1>3, SameSector
  <2> QED
    BY <2>2, <1>1 DEF MapOn
<1> HIDE DEF N
<1>5. Sector(N, 0) = Header(list, m)
  BY <1>1, <1>3, HeadSector
<1>6. Sector(N, ms[n].at) = ZoneSectors(zs[n])[1]
  <2>1. n \in 1..n
    BY <1>3
  <2>2. zs[n].len \in Nat /\ zs[n].len > 0 /\ zs[n].at \in Nat /\ 1 \in 1..zs[n].len
    BY <2>1, <1>1, MapArea
  <2>3. zs[n].at + 1 - 1 = zs[n].at /\ ms[n].at = zs[n].at
    BY <2>1, <2>2, <1>3 DEF Alike
  <2> QED
    BY <2>1, <2>2, <2>3, <1>4
<1>7. ASSUME NEW q \in 1..(n + 1), NEW k \in 1..ms[q].len, q = n => k > 1, q = n + 1 => k <= 0
      PROVE  Sector(N, ms[q].at + k - 1) = ZoneSectors(ms[q])[k]
  <2>1. ms[q].len \in Nat
    BY <1>3, MapArea
  <2>2. q \in 1..n
    BY <2>1, <1>3, <1>7
  <2>3. ms[q].at = zs[q].at /\ ms[q].len = zs[q].len /\ Alike(ms[q], zs[q])
    BY <2>2, <1>3 DEF Alike
  <2>4. ZoneSectors(ms[q])[k] = ZoneSectors(zs[q])[k]
    <3>1. CASE q < n
      BY <3>1, <2>2, <1>3
    <3>2. CASE q = n
      <4>1. k # 1
        BY <3>2, <1>7, <2>1
      <4> QED
        BY <4>1, <2>3 DEF ZoneSectors, Alike
    <3> QED
      BY <3>1, <3>2, <2>2, <1>3
  <2> QED
    BY <2>2, <2>3, <2>4, <1>4
<1>8. (n + 1) - 1 = n
  BY <1>3
<1>9. After(0, N, ms, Header(N, m), J, H, Header(list, m), ZoneSectors(zs[n])[1])
  BY <1>3, <1>5, <1>6, <1>7, <1>8 DEF After
<1> QED
  BY <1>9 DEF N, ms

-----------------------------------------------------------------------------
(* The invariant is inductive.                                              *)

LEMMA Rest ==
  ASSUME NEW W \in Seq(Writ), NEW j \in 0..Len(W)
  PROVE  /\ SubSeq(W, j + 1, Len(W)) = <<>> <=> j = Len(W)
         /\ j < Len(W) => /\ Head(SubSeq(W, j + 1, Len(W))) = W[j + 1]
                          /\ Tail(SubSeq(W, j + 1, Len(W))) = SubSeq(W, (j + 1) + 1, Len(W))
         /\ \A k \in 1..Len(SubSeq(W, j + 1, Len(W))) : SubSeq(W, j + 1, Len(W))[k] \in Writ
<1> DEFINE s == SubSeq(W, j + 1, Len(W))
<1>1. Len(W) \in Nat /\ j \in Nat /\ j <= Len(W)
  OBVIOUS
<1>2. /\ s \in Seq(Writ) /\ Len(s) = Len(W) - j
      /\ \A k \in 1..Len(s) : s[k] = W[j + k]
  BY <1>1
<1>0. \A q \in Seq(Writ) : Len(q) \in Nat /\ (q = <<>> <=> Len(q) = 0)
  OBVIOUS
<1>3. s = <<>> <=> j = Len(W)
  <2> HIDE DEF s
  <2>1. s = <<>> <=> Len(s) = 0
    BY <1>0, <1>2
  <2> QED
    BY <2>1, <1>1, <1>2
<1>4. ASSUME j < Len(W)
      PROVE  Head(s) = W[j + 1] /\ Tail(s) = SubSeq(W, (j + 1) + 1, Len(W))
  <2>1. 1 \in 1..Len(s) /\ s # <<>> /\ Len(s) \in Nat /\ Len(s) >= 1
    <3> HIDE DEF s
    <3>1. Len(s) \in Nat /\ (s = <<>> <=> Len(s) = 0)
      BY <1>0, <1>2
    <3> QED
      BY <3>1, <1>1, <1>2, <1>4
  <2>2. Head(s) = W[j + 1]
    <3> HIDE DEF s
    <3> QED
      BY <2>1, <1>2
  <2> DEFINE t == SubSeq(W, (j + 1) + 1, Len(W))
  <2>3. t \in Seq(Writ) /\ Len(t) = Len(W) - (j + 1) /\ \A k \in 1..Len(t) : t[k] = W[(j + 1) + k]
    BY <1>1, <1>4
  <2>4. Tail(s) \in Seq(Writ) /\ Len(Tail(s)) = Len(s) - 1 /\ \A k \in 1..(Len(s) - 1) : Tail(s)[k] = s[k + 1]
    <3> HIDE DEF s
    <3> QED
      BY <2>1, <1>2
  <2> HIDE DEF s, t
  <2>5. \A k \in 1..Len(t) : Tail(s)[k] = t[k]
    <3> TAKE k \in 1..Len(t)
    <3>1. k \in 1..(Len(s) - 1) /\ k + 1 \in 1..Len(s) /\ j + (k + 1) = (j + 1) + k
      BY <2>3, <1>1, <1>2
    <3> QED
      BY <3>1, <2>3, <2>4, <1>2
  <2>6. Len(Tail(s)) = Len(t)
    <3>1. \A l, i \in Nat : (l - i) - 1 = l - (i + 1)
      OBVIOUS
    <3> QED
      BY <3>1, <2>3, <2>4, <1>1, <1>2
  <2>7. Tail(s) = t
    BY <2>3, <2>4, <2>5, <2>6
  <2> QED
    BY <2>2, <2>7 DEF t
<1>5. \A k \in 1..Len(s) : s[k] \in Writ
  BY <1>2
<1> HIDE DEF s
<1> QED
  BY <1>3, <1>4, <1>5 DEF s

(* What does not write leaves the set as it is.                             *)
LEMMA KeepWhole ==
  ASSUME sec' = sec, NEW list, NEW zs
  PROVE  Whole(list, zs)' <=> Whole(list, zs)
BY DEF Whole, MapOn, Sector

LEMMA KeepHalf ==
  ASSUME sec' = sec, NEW list, NEW zs, NEW p
  PROVE  Half(list, zs, p)' <=> Half(list, zs, p)
BY DEF Half, MapOn, Sector

LEMMA KeepAfter ==
  ASSUME sec' = sec, NEW j, NEW list, NEW zs, NEW hdr, NEW J, NEW H, NEW old, NEW head
  PROVE  After(j, list, zs, hdr, J, H, old, head)' <=> After(j, list, zs, hdr, J, H, old, head)
BY DEF After, Sector

LEMMA KeepSec == sec' = sec => (SecOK' <=> SecOK)
BY DEF SecOK

LEMMA InitInv ==
  ASSUME Init, ProperSet
  PROVE  IInv /\ AtRest
<1>1. PICK list, zs :
        /\ Shape(list, zs) /\ Len(zs) = Maps /\ zs[Len(zs)].next = Nil
        /\ Formatted[Root][0] = Header(list, PtrTo(zs[1]))
        /\ \A i \in 1..Len(zs) : \A k \in 1..zs[i].len :
             LET c == Place(list, zs[i].at + k - 1)
             IN  Formatted[c[1]][c[2]] = ZoneSectors(zs[i])[k]
  BY DEF ProperSet
<1>2. sec = Formatted /\ mem = None /\ todo = <<>> /\ errs = 0
  BY DEF Init
<1>3. \A i \in 1..Len(zs) : MapOn(list, zs[i])
  BY <1>1, <1>2 DEF MapOn, Sector
<1>4. Whole(list, zs)
  BY <1>1, <1>2, <1>3 DEF Whole
<1>5. AtRest
  BY <1>2, <1>4 DEF AtRest
<1>6. SecOK
  BY <1>2 DEF ProperSet, SecOK
<1>7. errs \in 0..MaxErrors
  BY <1>2, SizeAssumption
<1> QED
  BY <1>2, <1>5, <1>6, <1>7 DEF IInv

LEMMA StartStep ==
  ASSUME errs = 0, IInv, Start
  PROVE  Waiting' /\ SecOK'
<1>1. mem = None /\ Loadable /\ sec' = sec /\ todo' = todo
  BY DEF Start
<1>2. SecOK /\ AtRest
  BY <1>1 DEF IInv, Waiting, Adding, Going
<1>3. \A l, z, p : ~Half(l, z, p)
  BY <1>1, HalfReads
<1>4. PICK list, zs : Whole(list, zs)
  BY <1>2, <1>3 DEF AtRest
<1>5. /\ DiskHeader.list = list /\ DiskHeader.map = PtrTo(zs[1])
      /\ Chain(list, PtrTo(zs[1])) = zs
  BY <1>4, WholeReads
<1>6. PICK ro \in ReadOnly :
        mem' = [list |-> list, map |-> PtrTo(zs[1]), ro |-> ro, zones |-> zs, busy |-> FALSE]
  BY <1>5 DEF Start
<1>7. /\ list \in Seq(Parts) /\ zs \in Seq(Zone) /\ Len(zs) > 0 /\ PtrTo(zs[1]) \in Ptr
  <2>1. Shape(list, zs)
    BY <1>4 DEF Whole
  <2>2. list \in Seq(Parts) /\ zs \in Seq(Zone) /\ Len(zs) > 0
    BY <2>1 DEF Shape
  <2>3. 1 \in 1..Len(zs)
    BY <2>2
  <2> QED
    BY <2>1, <2>2, <2>3, MapArea
<1>8. ro \in SUBSET Parts
  BY PairsAssumption
<1>9. mem' \in Handle /\ mem' # None
  <2> DEFINE m == PtrTo(zs[1])
  <2> HIDE DEF m
  <2>1. mem' = [list |-> list, map |-> m, ro |-> ro, zones |-> zs, busy |-> FALSE] /\ m \in Ptr
    BY <1>6, <1>7 DEF m
  <2>2. mem' \in Handle
    BY <2>1, <1>7, <1>8 DEF Handle
  <2> QED
    BY <2>2, NilAssumption
<1>10. Whole(list, zs)'
  BY <1>1, <1>4, KeepWhole
<1>11. todo' = <<>>
  BY <1>1, <1>2 DEF AtRest
<1>12. mem'.list = list /\ mem'.zones = zs /\ mem'.map = PtrTo(zs[1]) /\ mem'.ro \in ReadOnly /\ ~mem'.busy
  BY <1>6
<1>13. Whole(mem.list, mem.zones)'
  BY <1>10, <1>12 DEF Whole, MapOn, Sector
<1>14. Waiting'
  BY <1>9, <1>11, <1>12, <1>13 DEF Waiting
<1> QED
  BY <1>1, <1>2, <1>14, KeepSec

LEMMA AddStep ==
  ASSUME errs = 0, IInv, NEW p \in Pairs, AddPair(p[1], p[2])
  PROVE  Adding' /\ SecOK'
<1> DEFINE list == mem.list
           zs == mem.zones
           ro == mem.ro
           N == list \o p
           ms == Added(list, zs, p)
           n == Len(zs)
           m == PtrTo(zs[1])
           W == Writes(N, ro, m, NewZone(list, p[1], p[2]), ms[n])
<1>1. /\ mem # None /\ ~mem.busy /\ sec' = sec /\ p[1] # p[2] /\ {p[1], p[2]} \cap ToSet(list) = {}
      /\ CanAdd(list, ro, zs, p[1], p[2])
  BY DEF AddPair
<1>2. SecOK /\ Waiting
  BY <1>1 DEF IInv, AtRest, Adding, Going
<1>3. /\ mem \in Handle /\ ro \in ReadOnly /\ todo = <<>> /\ Whole(list, zs) /\ mem.map = m
  BY <1>2 DEF Waiting
<1>4. Shape(list, zs) /\ zs[n].next = Nil
  BY <1>3 DEF Whole
<1>5. p = <<p[1], p[2]>>
  BY PairsAssumption
<1>6. May(list, p)
  BY <1>1 DEF CanAdd, May
<1>7. /\ Writable(list, ro, 0) /\ Writable(list, ro, zs[n].at)
      /\ Writable(N, ro, SetSize(list))
  <2>1. Writable(list, ro, 0) /\ Writable(list, ro, Last(zs).at)
    BY <1>1 DEF CanAdd, LinksWritable
  <2>2. Writable(list \o <<p[1], p[2]>>, ro, SetSize(list))
    BY <1>1 DEF CanAdd
  <2> QED
    BY <2>1, <2>2, <1>5 DEF Last
<1>8. Grown(list, zs, p, N, ms)
  BY <1>4, <1>6, AddedIs
<1>9. /\ Shape(N, ms) /\ N \in Seq(Parts) /\ zs \in Seq(Zone) /\ n \in Nat /\ n > 0 /\ Len(ms) = n + 1
      /\ ms[n] = [zs[n] EXCEPT !.next = PtrTo(NewZone(list, p[1], p[2]))]
  BY <1>4, <1>8 DEF Grown, Shape
<1>10. m \in Ptr
  <2>1. 1 \in 1..n
    BY <1>9
  <2> QED
    BY <2>1, <1>4, MapArea
<1>11. PICK J, H : Order(W, N, ms, Header(N, m), J, H)
  BY <1>4, <1>6, <1>7, <1>10, WritesOrder
<1>12. todo' = W /\ mem' = [mem EXCEPT !.list = N, !.busy = TRUE]
  <2>1. Last(zs) = zs[n]
    BY DEF Last
  <2>2. /\ todo' = Writes(list \o <<p[1], p[2]>>, ro, mem.map, NewZone(list, p[1], p[2]),
                          [Last(zs) EXCEPT !.next = PtrTo(NewZone(list, p[1], p[2]))])
        /\ mem' = [mem EXCEPT !.list = list \o <<p[1], p[2]>>, !.busy = TRUE]
    BY DEF AddPair
  <2> QED
    BY <2>1, <2>2, <1>3, <1>5, <1>9
<1>13. /\ J \in Nat /\ H \in Nat /\ 0 < J /\ 0 < H /\ W \in Seq(Writ)
  <2>1. ms[Len(ms)].len < J /\ J \in Nat /\ H \in Nat /\ J < H /\ W \in Seq(Writ)
    BY <1>11 DEF Order
  <2>2. ms[Len(ms)].len \in Nat
    <3>1. Len(ms) \in 1..Len(ms)
      BY <1>9
    <3> QED
      BY <3>1, <1>9, MapArea
  <2> QED
    BY <2>1, <2>2
<1>14. After(0, N, ms, Header(N, m), J, H, Header(list, m), ZoneSectors(zs[n])[1])
  BY <1>3, <1>6, <1>13, AfterStart
<1>15. W = SubSeq(W, 0 + 1, Len(W)) /\ 0 \in 0..Len(W)
  <2> HIDE DEF W
  <2> QED
    BY <1>13
<1>16. /\ mem' \in Handle /\ mem' # None /\ mem'.busy /\ mem'.ro = ro /\ mem'.list = N
       /\ mem'.map = m /\ mem'.zones = zs
  <2> HIDE DEF N, m
  <2>1. /\ mem' = [list |-> N, map |-> mem.map, ro |-> mem.ro, zones |-> mem.zones, busy |-> TRUE]
    BY <1>3, <1>12 DEF Handle
  <2>2. mem' \in Handle
    BY <2>1, <1>3, <1>9 DEF Handle
  <2> QED
    BY <2>1, <2>2, <1>3, NilAssumption
<1>17. PICK l, z, w : l = list /\ z = zs /\ w = W
  OBVIOUS
<1>18. Going(l, z, p, w, J, H, 0)'
  <2>1. Shape(l, z) /\ z[Len(z)].next = Nil /\ May(l, p)
    BY <1>4, <1>6, <1>17
  <2>2. /\ mem' \in Handle /\ mem' # None /\ mem'.busy /\ mem'.ro \in ReadOnly /\ mem'.list = l \o p
        /\ mem'.map = PtrTo(z[1]) /\ mem'.zones = z
    BY <1>3, <1>16, <1>17
  <2>3. Order(w, l \o p, Added(l, z, p), Header(l \o p, PtrTo(z[1])), J, H)
    BY <1>11, <1>17
  <2>4. After(0, l \o p, Added(l, z, p), Header(l \o p, PtrTo(z[1])), J, H,
              Header(l, PtrTo(z[1])), ZoneSectors(z[Len(z)])[1])
    BY <1>14, <1>17
  <2>5. After(0, l \o p, Added(l, z, p), Header(l \o p, PtrTo(z[1])), J, H,
              Header(l, PtrTo(z[1])), ZoneSectors(z[Len(z)])[1])'
    BY <2>4, <1>1, KeepAfter
  <2>6. 0 \in 0..Len(w) /\ todo' = SubSeq(w, 0 + 1, Len(w))
    BY <1>12, <1>15, <1>17
  <2> QED
    BY <2>1, <2>2, <2>3, <2>5, <2>6 DEF Going
<1>19. Adding'
  BY <1>18 DEF Adding
<1> QED
  BY <1>1, <1>2, <1>19, KeepSec

\* The same, with the names of AfterIs.
LEMMA GoingIs ==
  ASSUME NEW list, NEW zs, NEW p, NEW W, NEW J, NEW H, NEW j, Going(list, zs, p, W, J, H, j)
  PROVE  /\ J \in Nat /\ H \in Nat /\ J < H /\ j \in Nat /\ W \in Seq(Writ) /\ j <= Len(W) /\ H <= Len(W)
         /\ j < J => Whole(list, zs)
         /\ J <= j /\ j < H => Half(list, zs, p)
         /\ H <= j => Whole(list \o p, Added(list, zs, p))
<1> DEFINE N == list \o p
           ms == Added(list, zs, p)
           hdr == Header(N, PtrTo(zs[1]))
<1>1. /\ Shape(list, zs) /\ zs[Len(zs)].next = Nil /\ May(list, p)
      /\ Order(W, N, ms, hdr, J, H)
      /\ After(j, N, ms, hdr, J, H, Header(list, PtrTo(zs[1])), ZoneSectors(zs[Len(zs)])[1])
      /\ j \in 0..Len(W)
  BY DEF Going
<1>2. Len(ms) = Len(zs) + 1
  <2>1. Grown(list, zs, p, N, ms)
    BY <1>1, AddedIs
  <2> HIDE DEF N, ms
  <2> QED
    BY <2>1 DEF Grown
<1>3. /\ J \in Nat /\ H \in Nat /\ J < H /\ W \in Seq(Writ) /\ H <= Len(W) /\ ms[Len(ms)].len < J
  BY <1>1 DEF Order
<1>4. j \in Nat /\ j <= Len(W)
  BY <1>1, <1>3
<1>5. ms[Len(zs) + 1].len < J
  BY <1>2, <1>3
<1>6. /\ j < J => Whole(list, zs)
      /\ J <= j /\ j < H => Half(list, zs, p)
      /\ H <= j => Whole(list \o p, Added(list, zs, p))
  BY <1>1, <1>3, <1>4, <1>5, AfterIs
<1> QED
  BY <1>3, <1>4, <1>6

LEMMA WriteStep ==
  ASSUME SecOK, NEW list, NEW zs, NEW p, NEW W, NEW J, NEW H, NEW j, Going(list, zs, p, W, J, H, j),
         WriteSector
  PROVE  j < Len(W) /\ Going(list, zs, p, W, J, H, j + 1)' /\ SecOK'
<1> DEFINE N == list \o p
           ms == Added(list, zs, p)
           hdr == Header(N, PtrTo(zs[1]))
           old == Header(list, PtrTo(zs[1]))
           head == ZoneSectors(zs[Len(zs)])[1]
<1>1. /\ Shape(list, zs) /\ zs[Len(zs)].next = Nil /\ May(list, p)
      /\ mem # None /\ mem \in Handle /\ mem.busy /\ mem.ro \in ReadOnly
      /\ mem.list = list \o p /\ mem.map = PtrTo(zs[1]) /\ mem.zones = zs
      /\ Order(W, N, ms, hdr, J, H)
      /\ After(j, N, ms, hdr, J, H, old, head)
      /\ j \in 0..Len(W) /\ todo = SubSeq(W, j + 1, Len(W))
  BY DEF Going
<1>2. Shape(N, ms) /\ Len(ms) > 1
  <2>1. Grown(list, zs, p, N, ms)
    BY <1>1, AddedIs
  <2> HIDE DEF N, ms
  <2> QED
    BY <2>1 DEF Grown
<1>3. W \in Seq(Writ)
  BY <1>1 DEF Order
<1>4. /\ todo # <<>> /\ mem' = mem /\ todo' = Tail(todo)
      /\ sec' = [sec EXCEPT ![Head(todo).place[1]][Head(todo).place[2]] = Head(todo).v]
  BY DEF WriteSector
<1>5. Len(W) \in Nat /\ j \in Nat /\ j < Len(W)
  <2>1. j # Len(W)
    BY <1>1, <1>3, <1>4, Rest
  <2> QED
    BY <2>1, <1>1, <1>3
<1>6. Head(todo) = W[j + 1] /\ todo' = SubSeq(W, (j + 1) + 1, Len(W))
  BY <1>1, <1>3, <1>4, <1>5, Rest
<1>7. sec' = [sec EXCEPT ![W[j + 1].place[1]][W[j + 1].place[2]] = W[j + 1].v]
  BY <1>4, <1>6
<1>8. PICK a, b, c, d, e : a = N /\ b = ms /\ c = hdr /\ d = old /\ e = head
  OBVIOUS
<1>9. SecOK' /\ After(j + 1, a, b, c, J, H, d, e)'
  BY <1>1, <1>2, <1>5, <1>7, <1>8, WriteAfter
<1>10. After(j + 1, N, ms, hdr, J, H, old, head)'
  BY <1>8, <1>9
<1>11. j + 1 \in 0..Len(W)
  BY <1>5
<1>12. /\ mem' # None /\ mem' \in Handle /\ mem'.busy /\ mem'.ro \in ReadOnly
       /\ mem'.list = list \o p /\ mem'.map = PtrTo(zs[1]) /\ mem'.zones = zs
  BY <1>1, <1>4
<1>13. Going(list, zs, p, W, J, H, j + 1)'
  BY <1>1, <1>6, <1>10, <1>11, <1>12 DEF Going
<1> QED
  BY <1>5, <1>9, <1>13

LEMMA EndStep ==
  ASSUME errs = 0, IInv, EndAdd
  PROVE  Waiting' /\ SecOK'
<1>1. mem # None /\ mem.busy /\ todo = <<>> /\ sec' = sec /\ todo' = todo
  BY DEF EndAdd
<1>2. SecOK /\ Adding
  BY <1>1 DEF IInv, AtRest, Waiting
<1>3. PICK list, zs, p, W, J, H, j : Going(list, zs, p, W, J, H, j)
  BY <1>2 DEF Adding
<1> DEFINE N == list \o p
           ms == Added(list, zs, p)
<1>4. /\ mem \in Handle /\ mem.ro \in ReadOnly /\ mem.list = N /\ mem.map = PtrTo(zs[1])
      /\ j \in 0..Len(W) /\ todo = SubSeq(W, j + 1, Len(W)) /\ Shape(list, zs) /\ May(list, p)
  BY <1>3 DEF Going
<1>5. Whole(N, ms)
  <2>1. W \in Seq(Writ) /\ H <= Len(W)
    BY <1>3, GoingIs
  <2>2. j = Len(W)
    BY <2>1, <1>1, <1>4, Rest
  <2> QED
    BY <2>1, <2>2, <1>3, GoingIs
<1>6. PtrTo(ms[1]) = PtrTo(zs[1]) /\ ms \in Seq(Zone)
  <2>1. Grown(list, zs, p, N, ms)
    BY <1>4, AddedIs
  <2> HIDE DEF N, ms
  <2>2. 1 \in 1..Len(zs)
    BY <2>1 DEF Grown
  <2> QED
    BY <2>1, <2>2 DEF Grown, Shape
<1>7. Chain(N, PtrTo(zs[1])) = ms /\ Readable(N, PtrTo(zs[1]))
  <2> HIDE DEF N, ms
  <2>1. Chain(N, PtrTo(ms[1])) = ms /\ Readable(N, PtrTo(ms[1]))
    BY <1>5, WholeReads
  <2> QED
    BY <2>1, <1>6
<1>8. mem' = [mem EXCEPT !.zones = ms, !.busy = FALSE]
  BY <1>4, <1>7 DEF EndAdd
<1> HIDE DEF N, ms
<1>9. /\ mem' \in Handle /\ mem' # None /\ ~mem'.busy /\ mem'.ro \in ReadOnly /\ mem'.list = N
      /\ mem'.zones = ms /\ mem'.map = PtrTo(ms[1])
  <2>1. mem' = [list |-> mem.list, map |-> mem.map, ro |-> mem.ro, zones |-> ms, busy |-> FALSE]
    BY <1>4, <1>8 DEF Handle
  <2>2. mem' \in Handle
    BY <2>1, <1>4, <1>6 DEF Handle
  <2> QED
    BY <2>1, <2>2, <1>4, <1>6, NilAssumption
<1>10. PICK a, b : a = N /\ b = ms
  OBVIOUS
<1>11. Whole(a, b)'
  BY <1>1, <1>5, <1>10, KeepWhole
<1>12. Whole(mem.list, mem.zones)'
  BY <1>9, <1>10, <1>11 DEF Whole, MapOn, Sector
<1>13. Waiting'
  BY <1>1, <1>9, <1>12 DEF Waiting
<1> QED
  BY <1>1, <1>2, <1>13, KeepSec

LEMMA StopStep ==
  ASSUME errs = 0, IInv, ToolEnds
  PROVE  AtRest' /\ SecOK'
<1>1. mem # None /\ mem' = None /\ todo' = <<>> /\ sec' = sec
  BY DEF ToolEnds
<1>2. SecOK /\ (Waiting \/ Adding)
  BY <1>1 DEF IInv, AtRest
<1>3. (\E l, z : Whole(l, z)) \/ (\E l, z, p : Half(l, z, p))
  <2>1. CASE Waiting
    BY <2>1 DEF Waiting
  <2>2. CASE Adding
    <3>1. PICK list, zs, p, W, J, H, j : Going(list, zs, p, W, J, H, j)
      BY <2>2 DEF Adding
    <3>2. /\ J \in Nat /\ H \in Nat /\ j \in Nat
          /\ j < J => Whole(list, zs)
          /\ J <= j /\ j < H => Half(list, zs, p)
          /\ H <= j => Whole(list \o p, Added(list, zs, p))
      BY <3>1, GoingIs
    <3>3. j < J \/ (J <= j /\ j < H) \/ H <= j
      BY <3>2
    <3> QED
      BY ONLY <3>2, <3>3
  <2> QED
    BY <1>2, <2>1, <2>2
<1>4. (\E l, z : Whole(l, z)') \/ (\E l, z, p : Half(l, z, p)')
  <2>1. ASSUME NEW l, NEW z, Whole(l, z) PROVE Whole(l, z)'
    BY <1>1, <2>1, KeepWhole
  <2>2. ASSUME NEW l, NEW z, NEW p, Half(l, z, p) PROVE Half(l, z, p)'
    BY <1>1, <2>2, KeepHalf
  <2> QED
    BY <1>3, <2>1, <2>2
<1>5. AtRest'
  BY <1>1, <1>4 DEF AtRest
<1> QED
  BY <1>1, <1>2, <1>5, KeepSec

LEMMA SameStep ==
  ASSUME errs = 0, IInv, UNCHANGED vars
  PROVE  IInv'
<1>1. sec' = sec /\ mem' = mem /\ todo' = todo /\ errs' = errs
  BY DEF vars
<1>2. errs' \in 0..MaxErrors /\ SecOK'
  BY <1>1, KeepSec DEF IInv
<1>3. CASE AtRest
  <2>1. mem' = None /\ todo' = <<>>
    BY <1>1, <1>3 DEF AtRest
  <2>2. ASSUME NEW l, NEW z, Whole(l, z) PROVE Whole(l, z)'
    BY <1>1, <2>2, KeepWhole
  <2>3. ASSUME NEW l, NEW z, NEW p, Half(l, z, p) PROVE Half(l, z, p)'
    BY <1>1, <2>3, KeepHalf
  <2>4. (\E l, z : Whole(l, z)') \/ (\E l, z, p : Half(l, z, p)')
    BY <1>3, <2>2, <2>3 DEF AtRest
  <2>5. AtRest'
    BY <2>1, <2>4 DEF AtRest
  <2> QED
    BY <2>5, <1>2 DEF IInv
<1>4. CASE Waiting
  <2>1. Whole(mem.list, mem.zones)'
    BY <1>1, <1>4 DEF Waiting, Whole, MapOn, Sector
  <2>2. Waiting'
    BY <2>1, <1>1, <1>4 DEF Waiting
  <2> QED
    BY <2>2, <1>2 DEF IInv
<1>5. CASE Adding
  <2>1. PICK list, zs, p, W, J, H, j : Going(list, zs, p, W, J, H, j)
    BY <1>5 DEF Adding
  <2>2. PICK a, b, c, d, e : /\ a = list \o p /\ b = Added(list, zs, p) /\ c = Header(list \o p, PtrTo(zs[1]))
                             /\ d = Header(list, PtrTo(zs[1])) /\ e = ZoneSectors(zs[Len(zs)])[1]
    OBVIOUS
  <2>3. After(j, a, b, c, J, H, d, e)
    BY <2>1, <2>2 DEF Going
  <2>4. After(j, a, b, c, J, H, d, e)'
    BY <2>3, <1>1, KeepAfter
  <2>5. Going(list, zs, p, W, J, H, j)'
    BY <2>1, <2>2, <2>4, <1>1 DEF Going
  <2> QED
    BY <2>5, <1>2 DEF IInv, Adding
<1> QED
  BY <1>3, <1>4, <1>5 DEF IInv

LEMMA Inductive == IInv /\ [Next]_vars => IInv'
<1> SUFFICES ASSUME IInv, [Next]_vars
             PROVE  IInv'
  OBVIOUS
<1>0. errs \in 0..MaxErrors /\ MaxErrors \in Nat
  BY SizeAssumption DEF IInv
<1>1. CASE errs # 0
  <2>1. errs' \in 0..MaxErrors /\ errs' # 0
    <3>1. errs' = errs \/ (errs' = errs + 1 /\ errs < MaxErrors)
      BY DEF Next, Start, AddPair, WriteSector, WriteFails, EndAdd, ToolEnds, vars
    <3> QED
      BY <3>1, <1>0, <1>1
  <2> QED
    BY <2>1 DEF IInv
<1>2. CASE errs = 0
  <2>0. ASSUME errs' = errs, SecOK', AtRest' \/ Waiting' \/ Adding'
        PROVE  IInv'
    BY <1>0, <2>0 DEF IInv
  <2>1. ASSUME Start PROVE IInv'
    BY <1>2, <2>0, <2>1, StartStep DEF Start
  <2>2. ASSUME NEW p \in Pairs, AddPair(p[1], p[2]) PROVE IInv'
    BY <1>2, <2>0, <2>2, AddStep DEF AddPair
  <2>3. ASSUME WriteSector PROVE IInv'
    <3>1. todo # <<>>
      BY <2>3 DEF WriteSector
    <3>2. SecOK /\ Adding
      BY <3>1, <1>2 DEF IInv, AtRest, Waiting
    <3>3. PICK list, zs, p, W, J, H, j : Going(list, zs, p, W, J, H, j)
      BY <3>2 DEF Adding
    <3>4. Going(list, zs, p, W, J, H, j + 1)' /\ SecOK'
      BY <2>3, <3>2, <3>3, WriteStep
    <3>5. Adding'
      BY <3>4 DEF Adding
    <3> QED
      BY <2>0, <2>3, <3>4, <3>5 DEF WriteSector
  <2>4. ASSUME WriteFails PROVE IInv'
    <3>1. errs' \in 0..MaxErrors /\ errs' # 0
      BY <1>0, <1>2, <2>4 DEF WriteFails
    <3> QED
      BY <3>1 DEF IInv
  <2>5. ASSUME EndAdd PROVE IInv'
    BY <1>2, <2>0, <2>5, EndStep DEF EndAdd
  <2>6. ASSUME ToolEnds PROVE IInv'
    BY <1>2, <2>0, <2>6, StopStep DEF ToolEnds
  <2>7. CASE UNCHANGED vars
    BY <1>2, <2>7, SameStep
  <2> QED
    BY <2>1, <2>2, <2>3, <2>4, <2>5, <2>6, <2>7 DEF Next
<1> QED
  BY <1>1, <1>2

LEMMA Always == Spec /\ ProperSet => []IInv
<1>1. Init /\ ProperSet => IInv
  BY InitInv
<1> QED
  BY <1>1, Inductive, PTL DEF Spec

-----------------------------------------------------------------------------
(* What the invariant says of the set.                                      *)

LEMMA OnDrives ==
  ASSUME errs = 0, IInv
  PROVE  (\E list, zs : Whole(list, zs)) \/ (\E list, zs, p : Half(list, zs, p))
<1>1. CASE AtRest
  BY <1>1 DEF AtRest
<1>2. CASE Waiting
  BY <1>2 DEF Waiting
<1>3. CASE Adding
  <2>1. PICK list, zs, p, W, J, H, j : Going(list, zs, p, W, J, H, j)
    BY <1>3 DEF Adding
  <2>2. /\ J \in Nat /\ H \in Nat /\ j \in Nat
        /\ j < J => Whole(list, zs)
        /\ J <= j /\ j < H => Half(list, zs, p)
        /\ H <= j => Whole(list \o p, Added(list, zs, p))
    BY <2>1, GoingIs
  <2>3. j < J \/ (J <= j /\ j < H) \/ H <= j
    BY <2>2
  <2> QED
    BY ONLY <2>2, <2>3
<1> QED
  BY <1>1, <1>2, <1>3 DEF IInv

LEMMA ShapeApart ==
  ASSUME NEW list, NEW zs, Shape(list, zs)
  PROVE  /\ \A r \in Occupied(list, zs) : Fits(list, r[2], r[3] - r[2] + 1)
         /\ \A r, s \in Occupied(list, zs) : r # s => Apart(r, s)
<1> DEFINE n == Len(zs)
           R(x) == <<x[1], Lo(zs, x), Lo(zs, x) + Width(zs, x) - 1>>
<1>1. zs \in Seq(Zone) /\ n \in Nat /\ Roomy(list, zs)
  BY DEF Shape
<1>2. \A r \in Occupied(list, zs) : \E x \in Spots(n) : r = R(x)
  <2> TAKE r \in Occupied(list, zs)
  <2>1. CASE r = <<"header", 0, 0>>
    <3>1. R(<<"header", 0>>) = <<"header", 0, 0>>
      <4>1. Lo(zs, <<"header", 0>>) = 0 /\ Width(zs, <<"header", 0>>) = 1
        BY LoIs
      <4>2. 0 + 1 - 1 = 0
        OBVIOUS
      <4> QED
        BY <4>1, <4>2
    <3>2. <<"header", 0>> \in Spots(n)
      BY DEF Spots
    <3> HIDE DEF R
    <3> QED
      BY <2>1, <3>1, <3>2
  <2>2. CASE r = <<"backup header", Rounded(Root) - 1, Rounded(Root) - 1>>
    <3>0. Rounded(Root) \in Nat
      BY PairsAssumption, RoundedNat
    <3>1. R(<<"backup header", 0>>) = <<"backup header", Rounded(Root) - 1, Rounded(Root) - 1>>
      <4>1. (Rounded(Root) - 1) + 1 - 1 = Rounded(Root) - 1
        BY <3>0
      <4> QED
        BY <4>1, LoIs
    <3>2. <<"backup header", 0>> \in Spots(n)
      BY DEF Spots
    <3> HIDE DEF R
    <3> QED
      BY <2>2, <3>1, <3>2
  <2>3. ASSUME NEW i \in 1..n,
               r \in {<<"map", zs[i].at, zs[i].at + zs[i].len - 1>>,
                      <<"backup map", zs[i].backup, zs[i].backup + zs[i].len - 1>>,
                      <<"zone", zs[i].first, zs[i].first + zs[i].size - 1>>}
        PROVE  \E x \in Spots(n) : r = R(x)
    <3>1. /\ R(<<"map", i>>) = <<"map", zs[i].at, zs[i].at + zs[i].len - 1>>
          /\ R(<<"backup map", i>>) = <<"backup map", zs[i].backup, zs[i].backup + zs[i].len - 1>>
          /\ R(<<"zone", i>>) = <<"zone", zs[i].first, zs[i].first + zs[i].size - 1>>
      <4>1. /\ Lo(zs, <<"map", i>>) = zs[i].at /\ Width(zs, <<"map", i>>) = zs[i].len
            /\ Lo(zs, <<"backup map", i>>) = zs[i].backup /\ Width(zs, <<"backup map", i>>) = zs[i].len
            /\ Lo(zs, <<"zone", i>>) = zs[i].first /\ Width(zs, <<"zone", i>>) = zs[i].size
        BY LoIs, ZenonT(30)
      <4> QED
        BY <4>1
    <3>2. <<"map", i>> \in Spots(n) /\ <<"backup map", i>> \in Spots(n) /\ <<"zone", i>> \in Spots(n)
      BY DEF Spots
    <3> HIDE DEF R
    <3> QED
      BY <2>3, <3>1, <3>2
  <2>4. \A z \in ToSet(zs) : \E i \in 1..n : z = zs[i]
    BY <1>1 DEF ToSet
  <2>5. \/ r = <<"header", 0, 0>>
        \/ r = <<"backup header", Rounded(Root) - 1, Rounded(Root) - 1>>
        \/ \E z \in ToSet(zs) :
             r \in {<<"map", z.at, z.at + z.len - 1>>, <<"backup map", z.backup, z.backup + z.len - 1>>,
                    <<"zone", z.first, z.first + z.size - 1>>}
    BY DEF Occupied
  <2> HIDE DEF R
  <2> QED
    BY <2>1, <2>2, <2>3, <2>4, <2>5
<1>3. \A x \in Spots(n) : R(x)[2] = Lo(zs, x) /\ R(x)[3] = Lo(zs, x) + Width(zs, x) - 1
  OBVIOUS
<1>4. \A x \in Spots(n) : /\ Lo(zs, x) \in Nat /\ Width(zs, x) \in Nat
                          /\ Fits(list, Lo(zs, x), Width(zs, x))
  BY <1>1, WidthNat DEF Roomy
<1> HIDE DEF R
<1>5. ASSUME NEW r \in Occupied(list, zs)
      PROVE  Fits(list, r[2], r[3] - r[2] + 1)
  <2>1. PICK x \in Spots(n) : r = R(x)
    BY <1>2
  <2>2. (Lo(zs, x) + Width(zs, x) - 1) - Lo(zs, x) + 1 = Width(zs, x)
    BY <1>4
  <2> QED
    BY <2>1, <2>2, <1>3, <1>4
<1>6. ASSUME NEW r \in Occupied(list, zs), NEW s \in Occupied(list, zs), r # s
      PROVE  Apart(r, s)
  <2>1. PICK x \in Spots(n) : r = R(x)
    BY <1>2
  <2>2. PICK y \in Spots(n) : s = R(y)
    BY <1>2
  <2>3. x # y
    BY <2>1, <2>2, <1>6
  <2>4. \/ Lo(zs, x) + Width(zs, x) <= Lo(zs, y)
        \/ Lo(zs, y) + Width(zs, y) <= Lo(zs, x)
    BY <2>3, <1>1 DEF Roomy
  <2>5. r[3] < s[2] \/ s[3] < r[2]
    <3>1. /\ Lo(zs, x) \in Nat /\ Lo(zs, y) \in Nat /\ Width(zs, x) \in Nat /\ Width(zs, y) \in Nat
      BY <1>4
    <3>2. /\ r[2] = Lo(zs, x) /\ r[3] = Lo(zs, x) + Width(zs, x) - 1
          /\ s[2] = Lo(zs, y) /\ s[3] = Lo(zs, y) + Width(zs, y) - 1
      BY <2>1, <2>2, <1>3
    <3> QED
      BY ONLY <2>4, <3>1, <3>2
  <2> QED
    BY <2>5 DEF Apart
<1> QED
  BY <1>5, <1>6

(* No tool has what is on the drives wrong: what it loads, or has added, is *)
(* what the next one would load (mfs_init, mfs_add_volume_pair).            *)
THEOREM SetMemoryAgrees == Spec /\ ProperSet => []MemoryAgrees
<1>1. IInv => MemoryAgrees
  <2> SUFFICES ASSUME IInv, mem # None, ~mem.busy, errs = 0
               PROVE  /\ Loadable
                      /\ mem.list = DiskHeader.list
                      /\ mem.zones = Chain(DiskHeader.list, DiskHeader.map)
    BY DEF MemoryAgrees
  <2>1. Waiting
    BY DEF IInv, AtRest, Adding, Going
  <2>2. Whole(mem.list, mem.zones)
    BY <2>1 DEF Waiting
  <2> QED
    BY <2>2, WholeReads
<1> QED
  BY <1>1, Always, PTL

LEMMA SetTypes ==
  ASSUME errs = 0, IInv
  PROVE  TypeOK
<1>1. \A p \in Parts : DOMAIN sec[p] = 0..(Size[p] - 1)
  BY DEF IInv, SecOK
<1>2. ASSUME mem # None
      PROVE  mem \in Handle /\ mem.ro \in ReadOnly /\ mem.zones # <<>>
  <2>1. CASE Waiting
    <3>1. Len(mem.zones) > 0
      BY <2>1 DEF Waiting, Whole, Shape
    <3> QED
      BY <2>1, <3>1 DEF Waiting
  <2>2. CASE Adding
    <3>1. PICK list, zs, p, W, J, H, j : Going(list, zs, p, W, J, H, j)
      BY <2>2 DEF Adding
    <3>2. Len(mem.zones) > 0
      BY <3>1 DEF Going, Shape
    <3> QED
      BY <3>1, <3>2 DEF Going
  <2> QED
    BY <1>2, <2>1, <2>2 DEF IInv, AtRest
<1>3. \A k \in 1..Len(todo) : todo[k] \in Writ
  <2>1. CASE todo = <<>>
    BY <2>1
  <2>2. CASE Adding
    <3>1. PICK list, zs, p, W, J, H, j : Going(list, zs, p, W, J, H, j)
      BY <2>2 DEF Adding
    <3>2. todo = SubSeq(W, j + 1, Len(W)) /\ j \in 0..Len(W) /\ W \in Seq(Writ)
      BY <3>1, GoingIs DEF Going
    <3> QED
      BY <3>2, Rest
  <2> QED
    BY <2>1, <2>2 DEF IInv, AtRest, Waiting
<1>4. ASSUME NEW k \in 1..Len(todo)
      PROVE  todo[k].place[2] \in DOMAIN sec[todo[k].place[1]]
  <2> DEFINE c == todo[k].place
  <2>1. c \in Cells
    BY <1>3 DEF Writ
  <2> HIDE DEF c
  <2>2. c[1] \in Parts /\ c[2] \in Nat /\ c[2] < Size[c[1]] /\ Size[c[1]] \in Nat
    BY <2>1, SizeAssumption DEF Cells
  <2>3. c[2] \in DOMAIN sec[c[1]]
    BY <2>2, <1>1
  <2> QED
    BY <2>3 DEF c
<1> QED
  BY <1>1, <1>2, <1>4 DEF TypeOK, IInv

LEMMA SetApart ==
  ASSUME errs = 0, IInv
  PROVE  ZonesApart
<1> SUFFICES ASSUME Loadable
             PROVE  LET list == DiskHeader.list
                        R    == Occupied(list, Chain(list, DiskHeader.map))
                    IN  /\ \A r \in R : Fits(list, r[2], r[3] - r[2] + 1)
                        /\ \A r, s \in R : r # s => Apart(r, s)
  BY DEF ZonesApart
<1>1. \A l, z, p : ~Half(l, z, p)
  BY HalfReads
<1>2. PICK list, zs : Whole(list, zs)
  BY <1>1, OnDrives
<1>3. DiskHeader.list = list /\ Chain(list, DiskHeader.map) = zs
  BY <1>2, WholeReads
<1>4. Shape(list, zs)
  BY <1>2 DEF Whole
<1>5. /\ \A r \in Occupied(list, zs) : Fits(list, r[2], r[3] - r[2] + 1)
      /\ \A r, s \in Occupied(list, zs) : r # s => Apart(r, s)
  BY <1>4, ShapeApart
<1> QED
  BY <1>3, <1>5

LEMMA SetRecoverable ==
  ASSUME errs = 0, IInv
  PROVE  Recoverable
<1> DEFINE More == {<<>>} \cup Pairs \cup {p \o q : p, q \in Pairs}
<1> SUFFICES /\ DiskHeader.kind = "header"
             /\ \E more \in More : /\ IsInjective(DiskHeader.list \o more)
                                   /\ Readable(DiskHeader.list \o more, DiskHeader.map)
  BY DEF Recoverable
<1>1. <<>> \in More /\ \A p \in Pairs : p \in More
  OBVIOUS
<1> HIDE DEF More
<1>2. ASSUME NEW list, NEW zs, Whole(list, zs)
      PROVE  /\ DiskHeader.kind = "header"
             /\ \E more \in More : /\ IsInjective(DiskHeader.list \o more)
                                   /\ Readable(DiskHeader.list \o more, DiskHeader.map)
  <2>1. /\ DiskHeader.kind = "header" /\ DiskHeader.list = list /\ DiskHeader.map = PtrTo(zs[1])
        /\ Readable(list, PtrTo(zs[1]))
    BY <1>2, WholeReads
  <2>2. list \in Seq(Parts) /\ IsInjective(list)
    BY <1>2 DEF Whole, Shape
  <2>3. list \o <<>> = list
    BY <2>2
  <2>4. /\ IsInjective(DiskHeader.list \o <<>>)
        /\ Readable(DiskHeader.list \o <<>>, DiskHeader.map)
    BY <2>1, <2>2, <2>3
  <2> QED
    BY <1>1, <2>1, <2>4
<1>3. ASSUME NEW list, NEW zs, NEW p, Half(list, zs, p)
      PROVE  /\ DiskHeader.kind = "header"
             /\ \E more \in More : /\ IsInjective(DiskHeader.list \o more)
                                   /\ Readable(DiskHeader.list \o more, DiskHeader.map)
  <2>1. /\ DiskHeader.kind = "header" /\ DiskHeader.list = list /\ DiskHeader.map = PtrTo(zs[1])
        /\ Readable(list \o p, PtrTo(zs[1])) /\ IsInjective(list \o p) /\ p \in Pairs
    BY <1>3, HalfReads
  <2> QED
    BY <1>1, <2>1
<1> QED
  BY <1>2, <1>3, OnDrives

(* Until a write fails, and wherever the machine stops: every sector that   *)
(* is to be written exists, and the headers, zone maps and zones of a set   *)
(* that loads lie in one volume each and clear of one another, where        *)
(* mfs_new_zone_map puts those of a new pair.                               *)
THEOREM SetLaidOut == Spec /\ ProperSet => [](errs = 0 => LaidOut)
<1>1. IInv => (errs = 0 => LaidOut)
  BY SetTypes, SetApart DEF LaidOut
<1> QED
  BY <1>1, Always, PTL

(* Until a write fails, and wherever mfs_add_volume_pair is stopped, no     *)
(* zone map is lost: the whole chain can be read with the volumes that the  *)
(* header names or with those and the pair that was being added.            *)
THEOREM SetStaysRecoverable == Spec /\ ProperSet => [](errs = 0 => Recoverable)
<1>1. IInv => (errs = 0 => Recoverable)
  BY SetRecoverable
<1> QED
  BY <1>1, Always, PTL

-----------------------------------------------------------------------------
(* The set grows as GrowingSet says: what the two see of it.                *)
View(list, n) == DiskHeader.list = list /\ Linked = n

LEMMA ViewWhole ==
  ASSUME NEW list, NEW zs
  PROVE  Whole(list, zs) => View(list, Len(zs))
BY WholeReads DEF View

LEMMA ViewHalf ==
  ASSUME NEW list, NEW zs, NEW p
  PROVE  Half(list, zs, p) => View(list, Len(zs) + 1)
BY HalfReads DEF View

LEMMA ViewWholeNext ==
  ASSUME NEW list, NEW zs
  PROVE  (Whole(list, zs) => View(list, Len(zs)))'
<1>1. Whole(list, zs) => View(list, Len(zs))
  BY ViewWhole
<1> QED
  BY <1>1, PTL

LEMMA ViewHalfNext ==
  ASSUME NEW list, NEW zs, NEW p
  PROVE  (Half(list, zs, p) => View(list, Len(zs) + 1))'
<1>1. Half(list, zs, p) => View(list, Len(zs) + 1)
  BY ViewHalf
<1> QED
  BY <1>1, PTL

\* How far the tool is with pair p says what is seen of the set.
Seen(list, zs, p, J, H, j) ==
  /\ j < J => View(list, Len(zs))
  /\ J <= j /\ j < H => View(list, Len(zs) + 1)
  /\ H <= j => View(list \o p, Len(zs) + 1)

LEMMA GoingSeen ==
  ASSUME NEW list, NEW zs, NEW p, NEW W, NEW J, NEW H, NEW j
  PROVE  Going(list, zs, p, W, J, H, j) => Seen(list, zs, p, J, H, j)
<1> SUFFICES ASSUME Going(list, zs, p, W, J, H, j)
             PROVE  Seen(list, zs, p, J, H, j)
  OBVIOUS
<1>1. Len(Added(list, zs, p)) = Len(zs) + 1
  <2>1. Grown(list, zs, p, list \o p, Added(list, zs, p))
    BY AddedIs DEF Going
  <2> QED
    BY <2>1 DEF Grown
<1>2. j < J => View(list, Len(zs))
  BY GoingIs, ViewWhole
<1>3. J <= j /\ j < H => View(list, Len(zs) + 1)
  BY GoingIs, ViewHalf
<1>4. H <= j => View(list \o p, Len(zs) + 1)
  <2>1. Whole(list \o p, Added(list, zs, p)) => View(list \o p, Len(Added(list, zs, p)))
    BY ViewWhole
  <2> QED
    BY <2>1, <1>1, GoingIs
<1> QED
  BY <1>2, <1>3, <1>4 DEF Seen

LEMMA GoingSeenNext ==
  ASSUME NEW list, NEW zs, NEW p, NEW W, NEW J, NEW H, NEW j
  PROVE  (Going(list, zs, p, W, J, H, j) => Seen(list, zs, p, J, H, j))'
<1>1. Going(list, zs, p, W, J, H, j) => Seen(list, zs, p, J, H, j)
  BY GoingSeen
<1> QED
  BY <1>1, PTL

\* A set has a zone map more for every pair of volumes more.
LEMMA Balanced ==
  ASSUME NEW list, NEW zs, Shape(list, zs)
  PROVE  /\ Len(zs) - Maps = (Len(list) - Len(Formatted[Root][0].list)) \div 2
         /\ Len(zs) + 1 = Maps + 1 + (Len(list) - Len(Formatted[Root][0].list)) \div 2
<1>1. /\ Len(list) \in Nat /\ Len(zs) \in Nat /\ Maps \in Nat
      /\ Len(Formatted[Root][0].list) = Len(list) - 2 * (Len(zs) - Maps)
  BY SizeAssumption DEF Shape
<1>2. \A a, b, m \in Nat : (b - (b - 2 * (a - m))) \div 2 = a - m
  OBVIOUS
<1>3. (Len(list) - Len(Formatted[Root][0].list)) \div 2 = Len(zs) - Maps
  BY <1>1, <1>2
<1> QED
  BY <1>1, <1>3

LEMMA GrowthInit ==
  ASSUME Init, ProperSet
  PROVE  Growth!Init
<1>1. PICK list, zs :
        /\ Shape(list, zs) /\ Len(zs) = Maps /\ zs[Len(zs)].next = Nil
        /\ Formatted[Root][0] = Header(list, PtrTo(zs[1]))
        /\ \A i \in 1..Len(zs) : \A k \in 1..zs[i].len :
             LET c == Place(list, zs[i].at + k - 1)
             IN  Formatted[c[1]][c[2]] = ZoneSectors(zs[i])[k]
  BY DEF ProperSet
<1>2. sec = Formatted
  BY DEF Init
<1>3. Whole(list, zs)
  BY <1>1, <1>2 DEF Whole, MapOn, Sector
<1>4. DiskHeader.list = list /\ Linked = Maps
  BY <1>1, <1>3, WholeReads
<1>5. Formatted[Root][0].list = list
  BY <1>1 DEF Header
<1> QED
  BY <1>4, <1>5 DEF Growth!Init

\* A step that writes nothing.
LEMMA KeepsSet ==
  ASSUME errs = 0, IInv, sec' = sec
  PROVE  UNCHANGED <<DiskHeader.list, Linked>>
<1>1. ASSUME NEW list, NEW zs, Whole(list, zs)
      PROVE  UNCHANGED <<DiskHeader.list, Linked>>
  <2>1. View(list, Len(zs)) /\ View(list, Len(zs))'
    BY <1>1, KeepWhole, ViewWhole, ViewWholeNext
  <2> QED
    BY <2>1 DEF View
<1>2. ASSUME NEW list, NEW zs, NEW p, Half(list, zs, p)
      PROVE  UNCHANGED <<DiskHeader.list, Linked>>
  <2>1. View(list, Len(zs) + 1) /\ View(list, Len(zs) + 1)'
    BY <1>2, KeepHalf, ViewHalf, ViewHalfNext
  <2> QED
    BY <2>1 DEF View
<1> QED
  BY <1>1, <1>2, OnDrives

\* A sector that is written: number J links the pair, number H names it.
LEMMA WriteGrows ==
  ASSUME errs = 0, IInv, WriteSector
  PROVE  Growth!Next \/ UNCHANGED <<DiskHeader.list, Linked>>
<1>1. SecOK /\ Adding
  BY DEF WriteSector, IInv, AtRest, Waiting
<1>2. PICK list, zs, p, W, J, H, j : Going(list, zs, p, W, J, H, j)
  BY <1>1 DEF Adding
<1>3. J \in Nat /\ H \in Nat /\ J < H /\ j \in Nat
  BY <1>2, GoingIs
<1>4. Shape(list, zs) /\ p \in Pairs
  BY <1>2 DEF Going, May
<1>5. Seen(list, zs, p, J, H, j)
  BY <1>2, GoingSeen
<1>6. PICK i : i = j + 1
  OBVIOUS
<1>7. Going(list, zs, p, W, J, H, i)'
  BY <1>1, <1>2, <1>6, WriteStep
<1>8. Seen(list, zs, p, J, H, i)'
  BY <1>7, GoingSeenNext
<1>9. CASE i < J \/ (J <= j /\ i < H) \/ H <= j
  <2>1. PICK l, n : View(l, n) /\ View(l, n)'
    BY <1>3, <1>5, <1>6, <1>8, <1>9 DEF Seen
  <2> QED
    BY <2>1 DEF View
<1>10. CASE i = J
  <2>1. View(list, Len(zs)) /\ View(list, Len(zs) + 1)'
    BY <1>3, <1>5, <1>6, <1>8, <1>10 DEF Seen
  <2>2. Growth!Link
    BY <2>1, <1>4, Balanced DEF View, Growth!Link, Growth!Balance
  <2> QED
    BY <2>2 DEF Growth!Next
<1>11. CASE i = H
  <2>1. View(list, Len(zs) + 1) /\ View(list \o p, Len(zs) + 1)'
    BY <1>3, <1>5, <1>6, <1>8, <1>11 DEF Seen
  <2>2. Growth!Publish(p)
    BY <2>1, <1>4, Balanced DEF View, Growth!Publish
  <2> QED
    BY <2>2, <1>4 DEF Growth!Next
<1>12. i < J \/ i = J \/ (J <= j /\ i < H) \/ i = H \/ H <= j
  BY <1>3, <1>6
<1> QED
  BY <1>9, <1>10, <1>11, <1>12

LEMMA GrowthStep ==
  IInv /\ [Next]_vars => [errs' = 0 => Growth!Next]_<<DiskHeader.list, Linked>>
<1> SUFFICES ASSUME IInv, [Next]_vars, errs' = 0
             PROVE  Growth!Next \/ UNCHANGED <<DiskHeader.list, Linked>>
  OBVIOUS
<1>1. errs = 0
  <2>1. errs \in 0..MaxErrors /\ MaxErrors \in Nat
    BY SizeAssumption DEF IInv
  <2>2. errs' = errs \/ errs' = errs + 1
    BY DEF Next, Start, AddPair, WriteSector, WriteFails, EndAdd, ToolEnds, vars
  <2> QED
    BY <2>1, <2>2
<1>2. sec' = sec \/ WriteSector
  BY DEF Next, Start, AddPair, WriteFails, EndAdd, ToolEnds, vars
<1> QED
  BY <1>1, <1>2, KeepsSet, WriteGrows

(* The set grows as GrowingSet promises, wherever the machine stops and     *)
(* until a sector cannot be written: mfs_add_volume_pair chains the zone    *)
(* map of a pair, whole, and then names the pair in the header; a set that  *)
(* is left in between is not added to.                                      *)
THEOREM SetRefines == Spec /\ ProperSet => Refines
<1>1. Init /\ ProperSet => Growth!Init
  BY GrowthInit
<1> QED
  BY <1>1, Always, GrowthStep, PTL DEF Spec, Refines
=============================================================================
