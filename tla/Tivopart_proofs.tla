--------------------------- MODULE Tivopart_proofs ---------------------------
(***************************************************************************)
(* For every drive, every swap size and any number of faults: what tivopart *)
(* says of the kernel's table is true, the pool is given out whole and once, *)
(* and no partition of the file system is touched or overlapped.            *)
(***************************************************************************)
EXTENDS Tivopart, WellFoundedInduction, TLAPS

-----------------------------------------------------------------------------
(* Arithmetic of unsigned numbers. *)
LEMMA UnsignedFacts ==
  /\ \A n \in Int : Unsigned(n) \in 0..(Word - 1)
  /\ \A n \in 0..(Word - 1) : Unsigned(n) = n
  /\ \A n \in Int : -Word <= n /\ n < 0 => Unsigned(n) = n + Word
<1>1. Word \in Nat \ {0}
  BY WidthAssumption
<1>2. \A n \in Int : n % Word \in 0..(Word - 1)
  BY <1>1
<1>3. \A n \in 0..(Word - 1) : n % Word = n
  BY <1>1
<1>4. \A n \in Int : -Word <= n /\ n < 0 => n % Word = n + Word
  BY <1>1
<1> QED
  BY <1>2, <1>3, <1>4 DEF Unsigned

LEMMA SizeFacts ==
  /\ \A c \in 2..7 : Size[c] \in Nat
  /\ \A c \in 2..8 : Ahead(c) \in Nat
  /\ Ahead(2) = 0
  /\ \A c \in 2..7 : Ahead(c + 1) = Ahead(c) + Size[c]
  /\ \A c \in 2..7 : Ahead(c) + Size[c] <= SmallSizes
  /\ SmallSizes \in Nat
<1>1. /\ Size[2] \in Nat /\ Size[3] \in Nat /\ Size[4] \in Nat
      /\ Size[5] \in Nat /\ Size[6] \in Nat /\ Size[7] \in Nat
  BY SizesAssumption
<1>2. \A c \in 2..7 : c = 2 \/ c = 3 \/ c = 4 \/ c = 5 \/ c = 6 \/ c = 7
  OBVIOUS
<1>3. \A c \in 2..8 : c = 2 \/ c = 3 \/ c = 4 \/ c = 5 \/ c = 6 \/ c = 7 \/ c = 8
  OBVIOUS
<1>4. /\ Ahead(2) = 0
      /\ Ahead(3) = Size[2]
      /\ Ahead(4) = Size[2] + Size[3]
      /\ Ahead(5) = Size[2] + Size[3] + Size[4]
      /\ Ahead(6) = Size[2] + Size[3] + Size[4] + Size[5]
      /\ Ahead(7) = Size[2] + Size[3] + Size[4] + Size[5] + Size[6]
      /\ Ahead(8) = Size[2] + Size[3] + Size[4] + Size[5] + Size[6] + Size[7]
  BY <1>1 DEF Ahead
<1>5. \A c \in 2..7 : Size[c] \in Nat
  BY <1>1, <1>2
<1>6. \A c \in 2..8 : Ahead(c) \in Nat
  BY <1>1, <1>3, <1>4
<1>7. \A c \in 2..7 : Ahead(c + 1) = Ahead(c) + Size[c]
  <2> TAKE c \in 2..7
  <2>1. /\ c = 2 => c + 1 = 3
        /\ c = 3 => c + 1 = 4
        /\ c = 4 => c + 1 = 5
        /\ c = 5 => c + 1 = 6
        /\ c = 6 => c + 1 = 7
        /\ c = 7 => c + 1 = 8
    OBVIOUS
  <2> QED
    BY <1>1, <1>2, <1>4, <2>1
<1>8. \A c \in 2..7 : Ahead(c) + Size[c] <= SmallSizes
  BY <1>1, <1>2, <1>4 DEF SmallSizes
<1>9. SmallSizes \in Nat
  BY <1>6 DEF SmallSizes
<1> QED
  BY <1>4, <1>5, <1>6, <1>7, <1>8, <1>9

(* Swap space, in blocks, is less than what fits beside the small ones. *)
LEMMA SwapFacts ==
  ASSUME NEW mega \in Nat
  PROVE  /\ SwapBlocks(mega) \in 0..(Word - 1)
         /\ SmallSizes + FixFree + SwapBlocks(mega) < Word
         /\ mega * Mega < Word => SwapBlocks(mega) = (mega * Mega) \div Block
<1>1. /\ Word \in Nat \ {0} /\ Block \in Nat \ {0} /\ Mega \in Nat /\ FixFree \in Nat
      /\ SmallSizes + FixFree + Word \div Block < Word
  BY WidthAssumption, SizesAssumption
<1>2. PICK n : n = mega * Mega
  OBVIOUS
<1>3. n \in Nat
  BY <1>1, <1>2
<1>4. PICK u : u = Unsigned(n)
  OBVIOUS
<1>5. u \in 0..(Word - 1) /\ (n < Word => u = n)
  BY <1>1, <1>3, <1>4, UnsignedFacts
<1>6. SwapBlocks(mega) = u \div Block
  BY <1>2, <1>4 DEF SwapBlocks
<1>7. u \div Block \in 0..u /\ u \div Block <= Word \div Block /\ Word \div Block \in Nat
  BY <1>1, <1>5
<1>8. SmallSizes \in Nat
  BY SizeFacts
<1> QED
  BY <1>1, <1>2, <1>5, <1>6, <1>7, <1>8

-----------------------------------------------------------------------------
(* What consolidate makes of a map, entry by entry. *)
Map(m) == m \in Seq(Entry) /\ Len(m) \in 8..NPart

\* Where the new partitions begin.
Base(m) == m[2].start + (IF Fixes(m) THEN FixFree ELSE 0)

LEMMA MapFacts ==
  ASSUME NEW m, Map(m)
  PROVE  /\ Len(m) \in Nat /\ Len(m) >= 8 /\ Len(m) <= NPart /\ NPart \in Nat
         /\ \A c \in 1..8 : c \in 1..Len(m)
         /\ \A c \in 1..Len(m) : /\ m[c] \in Entry
                                 /\ m[c].start \in 0..(Word - 1) /\ m[c].len \in 0..(Word - 1)
                                 /\ m[c].start \in Nat /\ m[c].len \in Nat
                                 /\ m[c].name \in Names
<1>1. NPart \in Nat /\ Word \in Nat
  BY WidthAssumption
<1>2. m \in Seq(Entry) /\ Len(m) \in 8..NPart
  BY DEF Map
<1>3. \A c \in 1..Len(m) : m[c] \in Entry
  BY <1>2
<1>4. \A e \in Entry : /\ e.start \in 0..(Word - 1) /\ e.len \in 0..(Word - 1)
                       /\ e.start \in Nat /\ e.len \in Nat /\ e.name \in Names
  BY <1>1 DEF Entry
<1> QED
  BY <1>1, <1>2, <1>3, <1>4

(* A non-empty set of naturals has a least element. *)
LEMMA LeastNumber ==
  ASSUME NEW T, T \subseteq Nat, T # {}
  PROVE  \E x \in T : \A y \in T : x <= y
<1>1. PICK x \in T : \A y \in T : ~(<<y, x>> \in OpToRel(<, Nat))
  BY NatLessThanWellFounded, WFMin, Zenon
<1>2. \A y \in T : x \in Nat /\ y \in Nat /\ ~(y < x)
  BY <1>1 DEF OpToRel
<1>3. \A y \in T : x <= y
  BY <1>2
<1> QED
  BY <1>3

(* The first partition whose name marks it as the main root. *)
LEMMA LastPartFacts ==
  ASSUME NEW m, Map(m), LastPart(m) # 0
  PROVE  /\ LastPart(m) \in 1..Len(m)
         /\ m[LastPart(m)].name \in RootNames
         /\ \A d \in 1..Len(m) : m[d].name \in RootNames => LastPart(m) <= d
<1> DEFINE T == {c \in 1..Len(m) : m[c].name \in RootNames}
           Least(c) == \A d \in T : c <= d
<1>1. T # {} /\ LastPart(m) = CHOOSE c \in T : Least(c)
  BY DEF LastPart
<1>2. T \subseteq Nat
  BY MapFacts
<1>3. PICK x \in T : Least(x)
  BY <1>1, <1>2, LeastNumber
<1>4. LastPart(m) \in T /\ Least(LastPart(m))
  <2> HIDE DEF T, Least
  <2> QED
    BY <1>1, <1>3
<1> QED
  BY <1>4

LEMMA LastPartIs ==
  ASSUME NEW m, Map(m), NEW l \in 1..Len(m), m[l].name \in RootNames,
         \A d \in 1..Len(m) : m[d].name \in RootNames => l <= d
  PROVE  LastPart(m) = l
<1>1. {c \in 1..Len(m) : m[c].name \in RootNames} # {}
  OBVIOUS
<1>2. Len(m) \in Nat
  BY MapFacts
<1>3. 0 \notin {c \in 1..Len(m) : m[c].name \in RootNames}
  BY <1>2
<1>4. LastPart(m) \in {c \in 1..Len(m) : m[c].name \in RootNames}
  <2> DEFINE T == {c \in 1..Len(m) : m[c].name \in RootNames}
             Least(c) == \A d \in T : c <= d
  <2>1. l \in T /\ Least(l)
    OBVIOUS
  <2>2. LastPart(m) = CHOOSE c \in T : Least(c)
    BY <1>1 DEF LastPart
  <2> HIDE DEF T, Least
  <2>3. LastPart(m) \in T
    BY <2>1, <2>2
  <2> QED
    BY <2>3 DEF T
<1>5. LastPart(m) # 0
  BY <1>3, <1>4
<1>6. l <= LastPart(m) /\ LastPart(m) <= l /\ LastPart(m) \in 1..Len(m)
  BY <1>4, <1>5, LastPartFacts
<1> QED
  BY <1>2, <1>6

(* The sums over the pool are numbers. *)
LEMMA PoolFacts ==
  ASSUME NEW m, Map(m), LastPart(m) # 0
  PROVE  /\ Total(m) \in Nat
         /\ PoolEnd(m) \in 0..(Word - 1)
         /\ PoolBlocks(m) \in 0..(Word - 1)
         /\ Base(m) \in Nat
         /\ \A swap \in Nat : MainRoot(m, swap) \in 0..(Word - 1)
<1>1. /\ Word \in Nat /\ FixFree \in Nat /\ SmallSizes \in Nat
  BY WidthAssumption, SizeFacts
<1>2. \A c \in 1..8 : m[c].len \in Nat /\ m[c].start \in Nat
  BY MapFacts
<1>3. m[LastPart(m)].len \in Nat
  BY LastPartFacts, MapFacts
<1>4. Total(m) \in Nat
  BY <1>2 DEF Total
<1>5. PoolEnd(m) \in 0..(Word - 1)
  BY <1>2, <1>4, UnsignedFacts DEF PoolEnd
<1>6. PoolBlocks(m) \in 0..(Word - 1)
  BY <1>3, <1>4, UnsignedFacts DEF PoolBlocks
<1>7. Base(m) \in Nat
  BY <1>1, <1>2 DEF Base
<1>8. \A swap \in Nat : MainRoot(m, swap) \in 0..(Word - 1)
  <2> TAKE swap \in Nat
  <2>1. PoolBlocks(m) - SmallSizes - swap - (IF Fixes(m) THEN FixFree ELSE 0) \in Int
    BY <1>1, <1>6
  <2> QED
    BY <2>1, UnsignedFacts DEF MainRoot
<1> QED
  BY <1>4, <1>5, <1>6, <1>7, <1>8

NewEntries(C, m, swap) ==
  /\ Map(C) /\ Len(C) = Len(m)
  /\ C[1].start = Unsigned(Base(m) + SmallSizes + swap)
  /\ C[1].len = MainRoot(m, swap) /\ C[1].name = "Main root"
  /\ \A c \in 2..8 : C[c].start = Unsigned(Base(m) + Ahead(c))
  /\ \A c \in 2..8 : C[c].name \in {"Decoy", m[c].name}
  /\ \A c \in 2..7 : C[c].len = Size[c]
  /\ C[8].len = swap
  /\ \A c \in 9..Len(m) :
       /\ ~(c = LastPart(m) /\ Fixes(m)) => C[c] = m[c]
       /\ c = LastPart(m) /\ Fixes(m) =>
            C[c].start = m[2].start /\ C[c].len = FixFree /\ C[c].name = "Extra"

LEMMA ConsolidatedFacts ==
  ASSUME NEW m, Map(m), LastPart(m) # 0, NEW swap \in 0..(Word - 1)
  PROVE  NewEntries(Consolidated(m, swap), m, swap)
<1> DEFINE C == Consolidated(m, swap)
           main == [start |-> Unsigned(Base(m) + SmallSizes + swap), len |-> MainRoot(m, swap),
                    name |-> "Main root"]
           Put(c, n) == [start |-> Unsigned(Base(m) + Ahead(c)), len |-> n,
                         name |-> IF c \in {2, 5} THEN "Decoy" ELSE m[c].name]
           fixed == [start |-> m[2].start, len |-> FixFree, name |-> "Extra"]
<1>1. /\ Len(m) \in Nat /\ Len(m) >= 8
      /\ \A c \in 1..8 : c \in 1..Len(m)
      /\ \A c \in 1..Len(m) : /\ m[c] \in Entry /\ m[c].start \in Nat /\ m[c].name \in Names
  BY MapFacts
<1>2. C = [c \in 1..Len(m) |->
             CASE c = 1 -> main
               [] c \in 2..7 -> Put(c, Size[c])
               [] c = 8 -> Put(8, swap)
               [] c > 8 -> IF c = LastPart(m) /\ Fixes(m) THEN fixed ELSE m[c]]
  BY DEF Consolidated, Base
<1>0. /\ main.start = Unsigned(Base(m) + SmallSizes + swap) /\ main.len = MainRoot(m, swap)
      /\ main.name = "Main root"
  OBVIOUS
<1> HIDE DEF main, Put, fixed, C
<1>3. C[1] = main
  <2>1. 1 \in 1..Len(m)
    BY <1>1
  <2> QED
    BY ONLY <1>2, <2>1
<1>4. \A c \in 2..8 : C[c] = Put(c, IF c = 8 THEN swap ELSE Size[c])
  <2> TAKE c \in 2..8
  <2>1. c \in 1..Len(m)
    BY <1>1
  <2>2. CASE c = 8
    BY <2>1, <2>2, <1>2
  <2>3. CASE c # 8
    <3>1. c \in 2..7 /\ c # 1
      BY <2>3
    <3> QED
      BY <2>1, <2>3, <3>1, <1>2
  <2> QED
    BY <2>2, <2>3
<1>5. \A c \in 9..Len(m) : C[c] = IF c = LastPart(m) /\ Fixes(m) THEN fixed ELSE m[c]
  <2> TAKE c \in 9..Len(m)
  <2>1. c \in 1..Len(m) /\ c # 1 /\ c \notin 2..7 /\ c # 8 /\ c > 8
    BY <1>1
  <2> QED
    BY <2>1, <1>2
<1>6. Base(m) \in Nat /\ SmallSizes \in Nat /\ swap \in Nat /\ Word \in Nat /\ FixFree \in Nat
  BY PoolFacts, SizeFacts, WidthAssumption
<1>7. {"Decoy", "Extra", "Main root"} \subseteq Names
  BY NamesAssumption DEF RootNames
<1>8. main \in Entry
  <2>1. MainRoot(m, swap) \in 0..(Word - 1)
    BY <1>6, PoolFacts
  <2>2. Unsigned(Base(m) + SmallSizes + swap) \in 0..(Word - 1)
    BY <1>6, UnsignedFacts
  <2> QED
    BY <2>1, <2>2, <1>7 DEF main, Entry
<1>9. FixFree \in 0..(Word - 1) /\ \A c \in 2..7 : Size[c] \in 0..(Word - 1)
  <2>1. SmallSizes + FixFree < Word
    <3>1. SmallSizes + FixFree + Word \div Block < Word /\ Word \div Block \in Nat
      BY WidthAssumption, SizesAssumption
    <3> QED
      BY <3>1, <1>6
  <2>2. \A c \in 2..7 : Size[c] <= SmallSizes /\ Size[c] \in Nat
    BY <1>6, SizeFacts
  <2> QED
    BY <2>1, <2>2, <1>6
<1>10. fixed \in Entry
  <2>1. m[2].start \in 0..(Word - 1)
    BY MapFacts
  <2> QED
    BY <2>1, <1>7, <1>9 DEF fixed, Entry
<1>11. \A c \in 2..8 : Put(c, IF c = 8 THEN swap ELSE Size[c]) \in Entry
  <2> TAKE c \in 2..8
  <2>1. (IF c = 8 THEN swap ELSE Size[c]) \in 0..(Word - 1)
    BY <1>9
  <2>2. Unsigned(Base(m) + Ahead(c)) \in 0..(Word - 1)
    <3>1. Ahead(c) \in Nat
      BY SizeFacts
    <3> QED
      BY <3>1, <1>6, UnsignedFacts
  <2>3. m[c].name \in Names
    BY <1>1
  <2> QED
    BY <2>1, <2>2, <2>3, <1>7 DEF Put, Entry
<1>12. \A c \in 1..Len(m) : C[c] \in Entry
  <2> TAKE c \in 1..Len(m)
  <2>1. c = 1 \/ c \in 2..8 \/ c \in 9..Len(m)
    BY <1>1
  <2> QED
    BY <2>1, <1>1, <1>3, <1>4, <1>5, <1>8, <1>10, <1>11
<1>13. Map(C) /\ Len(C) = Len(m)
  <2>1. C \in [1..Len(m) -> Entry]
    <3> DEFINE New(c) == CASE c = 1 -> main
                           [] c \in 2..7 -> Put(c, Size[c])
                           [] c = 8 -> Put(8, swap)
                           [] c > 8 -> IF c = LastPart(m) /\ Fixes(m) THEN fixed ELSE m[c]
    <3>2. C = [c \in 1..Len(m) |-> New(c)]
      BY <1>2
    <3> HIDE DEF New
    <3>1. C = [c \in 1..Len(m) |-> C[c]]
      BY <3>2
    <3> QED
      BY <3>1, <1>12, Zenon
  <2>2. C \in Seq(Entry) /\ Len(C) = Len(m)
    BY ONLY <1>1, <2>1
  <2> QED
    BY <2>2 DEF Map
<1>14. C[1].start = Unsigned(Base(m) + SmallSizes + swap) /\ C[1].len = MainRoot(m, swap)
       /\ C[1].name = "Main root"
  BY <1>0, <1>3
<1>15. /\ \A c \in 2..8 : C[c].start = Unsigned(Base(m) + Ahead(c))
       /\ \A c \in 2..8 : C[c].name \in {"Decoy", m[c].name}
       /\ \A c \in 2..7 : C[c].len = Size[c]
       /\ C[8].len = swap
  <2>1. \A c \in 2..8 : C[c].start = Unsigned(Base(m) + Ahead(c))
    BY <1>4 DEF Put
  <2>2. \A c \in 2..8 : C[c].name \in {"Decoy", m[c].name}
    BY <1>4 DEF Put
  <2>3. \A c \in 2..8 : C[c].len = IF c = 8 THEN swap ELSE Size[c]
    BY <1>4 DEF Put
  <2> QED
    BY <2>1, <2>2, <2>3
<1>16. \A c \in 9..Len(m) :
         /\ ~(c = LastPart(m) /\ Fixes(m)) => C[c] = m[c]
         /\ c = LastPart(m) /\ Fixes(m) =>
              C[c].start = m[2].start /\ C[c].len = FixFree /\ C[c].name = "Extra"
  BY <1>5 DEF fixed
<1> QED
  BY <1>13, <1>14, <1>15, <1>16 DEF C, NewEntries

-----------------------------------------------------------------------------
(* The types, with what a command at work knows. *)
WriteTool == [at : {"write"}, map : Seq(Entry), k : Nat, old : Seq(Entry), mega : Nat]
DelTool   == [at : {"del"}, map : Seq(Entry), k : Nat]
AddTool   == [at : {"add"}, map : Seq(Entry), k : Nat, ok : BOOLEAN]
TestTool  == [at : {"test"}, part : Nat, pass : {0, 1}, block : Nat]

Sized(m) == Map(m) /\ Len(m) = Len(first)

ToolOK ==
  /\ tool.at \in {"off", "said", "write", "del", "add", "test"}
  /\ tool.at = "write" => /\ tool \in WriteTool /\ Sized(tool.map) /\ Sized(tool.old)
                          /\ tool.k \in 1..Len(first)
                          /\ LastPart(tool.old) # 0
                          /\ tool.map = Consolidated(tool.old, SwapBlocks(tool.mega))
  /\ tool.at = "del" => tool \in DelTool /\ Sized(tool.map) /\ tool.k \in 1..NPart
  /\ tool.at = "add" => tool \in AddTool /\ Sized(tool.map) /\ tool.k \in 1..NPart
  /\ tool.at = "test" => tool \in TestTool /\ tool.part \in 1..Len(first)

TypeOK ==
  /\ first \in InitMaps /\ Map(first) /\ Sized(disk)
  /\ kern \in [1..NPart -> [start : Nat, len : Nat] \cup {None}]
  /\ forced \in BOOLEAN /\ faults \in Nat
  /\ ToolOK

LEMMA SaidFacts ==
  /\ \A ok : /\ Said(ok).at = "said" /\ Said(ok).ok = ok
             /\ "map" \notin DOMAIN Said(ok) /\ "part" \notin DOMAIN Said(ok)
  /\ Off.at = "off"
  BY DEF Said, Off

LEMMA InitTypeOK == Init => TypeOK
<1> SUFFICES ASSUME Init PROVE TypeOK
  OBVIOUS
<1>1. first \in InitMaps /\ Map(first) /\ disk = first /\ tool = Off /\ forced = FALSE /\ faults = 0
  BY MapsAssumption DEF Init, Map
<1>2. kern \in [1..NPart -> [start : Nat, len : Nat] \cup {None}]
  <2>1. kern = [c \in 1..NPart |-> IF c <= Len(first) THEN Extent(first[c]) ELSE None]
    BY <1>1 DEF Init, TableOf
  <2>2. \A c \in 1..NPart : c <= Len(first) => Extent(first[c]) \in [start : Nat, len : Nat]
    <3> TAKE c \in 1..NPart
    <3> HAVE c <= Len(first)
    <3>1. c \in 1..Len(first)
      BY <1>1, MapFacts
    <3> QED
      BY <1>1, <3>1, MapFacts DEF Extent
  <2> HIDE DEF Extent
  <2> QED
    BY <2>1, <2>2
<1> QED
  BY <1>1, <1>2, SaidFacts DEF TypeOK, ToolOK, Sized

(* Every step of a command keeps the types. *)
LEMMA ConsolidateType ==
  ASSUME TypeOK, NEW mega \in Swaps, NEW force \in BOOLEAN, Consolidate(mega, force)
  PROVE  TypeOK'
<1> DEFINE swap == SwapBlocks(mega)
           goes == LastPart(disk) # 0 /\ (Sound(disk, swap) \/ force)
           w == [at |-> "write", map |-> Consolidated(disk, swap), k |-> 1, old |-> disk,
                 mega |-> mega]
<1>1. /\ tool' = IF goes THEN w ELSE Said(FALSE)
      /\ forced' \in BOOLEAN
      /\ UNCHANGED <<first, disk, kern, used, flipped, faults>>
  BY DEF Consolidate, TypeOK
<1>2. CASE ~goes
  BY <1>1, <1>2, SaidFacts DEF TypeOK, ToolOK, Sized
<1>3. CASE goes
  <2>1. LastPart(disk) # 0 /\ Map(disk) /\ Len(disk) = Len(first) /\ mega \in Nat
    BY <1>3, UseAssumption DEF TypeOK, Sized
  <2>2. swap \in 0..(Word - 1)
    BY <2>1, SwapFacts
  <2>3. Map(Consolidated(disk, swap)) /\ Len(Consolidated(disk, swap)) = Len(disk)
    BY <2>1, <2>2, ConsolidatedFacts DEF NewEntries
  <2>4. 1 \in 1..Len(first)
    BY <2>1, MapFacts
  <2>5. /\ w \in WriteTool /\ w.at = "write" /\ w.map = Consolidated(disk, swap) /\ w.old = disk
        /\ w.k = 1 /\ w.mega = mega
    BY <2>1, <2>3 DEF WriteTool, Map
  <2> HIDE DEF w
  <2>6. tool' = w
    BY <1>1, <1>3
  <2>7. ToolOK'
    BY <1>1, <2>1, <2>3, <2>4, <2>5, <2>6 DEF ToolOK, Sized
  <2> QED
    BY <1>1, <2>7 DEF TypeOK, Sized
<1> QED
  BY <1>2, <1>3

LEMMA WrittenType ==
  ASSUME TypeOK, tool.at = "write", tool' = Written,
         UNCHANGED <<first, kern, forced>>, faults' \in Nat, Sized(disk')
  PROVE  TypeOK'
<1>1. /\ tool \in WriteTool /\ Sized(tool.map) /\ Sized(tool.old) /\ tool.k \in 1..Len(first)
      /\ LastPart(tool.old) # 0
      /\ tool.map = Consolidated(tool.old, SwapBlocks(tool.mega))
      /\ Len(disk) = Len(first) /\ Len(first) \in Nat /\ NPart \in Nat \ {0}
  BY MapFacts, WidthAssumption DEF TypeOK, ToolOK, Sized
<1>2. CASE tool.k = Len(disk)
  <2>1. tool' = [at |-> "del", map |-> tool.map, k |-> 1]
    BY <1>2 DEF Written
  <2>2. tool' \in DelTool /\ tool'.at = "del" /\ tool'.map = tool.map /\ tool'.k = 1
    BY <1>1, <2>1 DEF DelTool, WriteTool
  <2>3. ToolOK'
    BY <1>1, <2>2 DEF ToolOK, Sized
  <2> QED
    BY <2>3 DEF TypeOK, Sized
<1>3. CASE tool.k # Len(disk)
  <2>1. tool' = [tool EXCEPT !.k = @ + 1]
    BY <1>3 DEF Written
  <2>2. /\ tool' \in WriteTool /\ tool'.at = "write" /\ tool'.map = tool.map /\ tool'.k = tool.k + 1
        /\ tool'.old = tool.old /\ tool'.mega = tool.mega
    BY <1>1, <2>1 DEF WriteTool
  <2>3. tool.k + 1 \in 1..Len(first)
    BY <1>1, <1>3
  <2>4. ToolOK'
    BY <1>1, <2>2, <2>3 DEF ToolOK, Sized
  <2> QED
    BY <2>4 DEF TypeOK, Sized
<1> QED
  BY <1>2, <1>3

(* One entry of the map is replaced by another. *)
LEMMA EntryWritten ==
  ASSUME TypeOK, tool.at = "write", disk' = [disk EXCEPT ![tool.k] = tool.map[tool.k]],
         first' = first
  PROVE  /\ Sized(disk')
         /\ \A c \in 1..Len(first) : disk'[c] = IF c = tool.k THEN tool.map[c] ELSE disk[c]
<1>1. /\ Sized(tool.map) /\ tool.k \in 1..Len(first) /\ Sized(disk)
  BY DEF TypeOK, ToolOK
<1>2. /\ disk \in Seq(Entry) /\ Len(disk) = Len(first) /\ tool.map[tool.k] \in Entry
      /\ tool.k \in 1..Len(disk)
  BY <1>1, MapFacts DEF Sized, Map
<1>3. disk' \in Seq(Entry) /\ Len(disk') = Len(first)
  <2>1. PICK e : e = tool.map[tool.k]
    OBVIOUS
  <2>2. PICK k : k = tool.k
    OBVIOUS
  <2> QED
    BY <1>2, <2>1, <2>2
<1> QED
  BY <1>1, <1>2, <1>3 DEF Sized, Map

LEMMA DelType ==
  ASSUME TypeOK, DelPart
  PROVE  TypeOK'
<1>1. /\ tool.at = "del" /\ UNCHANGED <<first, disk, forced, faults>>
      /\ kern' = IF tool.k \in used THEN kern ELSE [kern EXCEPT ![tool.k] = None]
      /\ tool' = IF tool.k = NPart THEN [at |-> "add", map |-> tool.map, k |-> 1, ok |-> TRUE]
                 ELSE [tool EXCEPT !.k = @ + 1]
  BY DEF DelPart
<1>2. tool \in DelTool /\ Sized(tool.map) /\ tool.k \in 1..NPart /\ NPart \in Nat \ {0}
  BY <1>1, WidthAssumption DEF TypeOK, ToolOK
<1>3. kern' \in [1..NPart -> [start : Nat, len : Nat] \cup {None}]
  BY <1>1, <1>2 DEF TypeOK
<1>4. CASE tool.k = NPart
  <2>1. tool' \in AddTool /\ tool'.at = "add" /\ tool'.map = tool.map /\ tool'.k = 1
    BY <1>1, <1>2, <1>4 DEF AddTool, DelTool
  <2> QED
    BY <1>1, <1>2, <1>3, <2>1 DEF TypeOK, ToolOK, Sized
<1>5. CASE tool.k # NPart
  <2>1. tool' \in DelTool /\ tool'.at = "del" /\ tool'.map = tool.map /\ tool'.k = tool.k + 1
    BY <1>1, <1>2, <1>5 DEF DelTool
  <2>2. tool.k + 1 \in 1..NPart
    BY <1>2, <1>5
  <2> QED
    BY <1>1, <1>2, <1>3, <2>1, <2>2 DEF TypeOK, ToolOK, Sized
<1> QED
  BY <1>4, <1>5

(* What the second loop does, of one partition. *)
AddOK == tool.ok /\ (tool.k <= Len(tool.map) => Takes(kern, tool.k, tool.map[tool.k]))

LEMMA AddFacts ==
  ASSUME TypeOK, AddPart
  PROVE  /\ TypeOK'
         /\ tool \in AddTool /\ tool.k \in 1..NPart /\ Sized(tool.map)
         /\ kern' = IF tool.k <= Len(tool.map) /\ Takes(kern, tool.k, tool.map[tool.k])
                    THEN [kern EXCEPT ![tool.k] = Extent(tool.map[tool.k])] ELSE kern
         /\ tool.k = NPart => tool' = [at |-> "said", ok |-> AddOK, map |-> tool.map]
         /\ tool.k # NPart => /\ tool'.at = "add" /\ tool'.map = tool.map
                              /\ tool'.k = tool.k + 1 /\ tool'.ok = AddOK
<1>1. /\ tool.at = "add" /\ UNCHANGED <<first, disk, forced, faults>>
      /\ kern' = IF tool.k <= Len(tool.map) /\ Takes(kern, tool.k, tool.map[tool.k])
                 THEN [kern EXCEPT ![tool.k] = Extent(tool.map[tool.k])] ELSE kern
      /\ tool' = IF tool.k = NPart THEN [at |-> "said", ok |-> AddOK, map |-> tool.map]
                 ELSE [tool EXCEPT !.k = tool.k + 1, !.ok = AddOK]
  <2>1. AddOK <=> tool.ok /\ (tool.k <= Len(tool.map) =>
                    tool.k <= Len(tool.map) /\ Takes(kern, tool.k, tool.map[tool.k]))
    BY DEF AddOK
  <2>2. AddOK = (tool.ok /\ (tool.k <= Len(tool.map) =>
                    tool.k <= Len(tool.map) /\ Takes(kern, tool.k, tool.map[tool.k])))
    BY <2>1 DEF AddOK
  <2> HIDE DEF AddOK
  <2> QED
    BY <2>2 DEF AddPart
<1>2. tool \in AddTool /\ Sized(tool.map) /\ tool.k \in 1..NPart /\ NPart \in Nat \ {0}
  BY <1>1, WidthAssumption DEF TypeOK, ToolOK
<1>3. tool.k <= Len(tool.map) => Extent(tool.map[tool.k]) \in [start : Nat, len : Nat]
  <2> HAVE tool.k <= Len(tool.map)
  <2>1. tool.k \in 1..Len(tool.map)
    BY <1>2, MapFacts DEF Sized
  <2> QED
    BY <1>2, <2>1, MapFacts DEF Sized, Extent
<1>4. kern' \in [1..NPart -> [start : Nat, len : Nat] \cup {None}]
  <2> HIDE DEF Extent, Takes
  <2> QED
    BY <1>1, <1>2, <1>3 DEF TypeOK
<1>5. AddOK \in BOOLEAN
  BY DEF AddOK
<1> HIDE DEF AddOK
<1>6. CASE tool.k = NPart
  <2>1. tool' = [at |-> "said", ok |-> AddOK, map |-> tool.map] /\ tool'.at = "said"
    BY <1>1, <1>6
  <2>2. TypeOK'
    BY <1>1, <1>4, <2>1 DEF TypeOK, ToolOK, Sized
  <2> QED
    BY <1>1, <1>2, <1>6, <2>1, <2>2
<1>7. CASE tool.k # NPart
  <2>1. /\ tool' \in AddTool /\ tool'.at = "add" /\ tool'.map = tool.map /\ tool'.k = tool.k + 1
        /\ tool'.ok = AddOK
    <3>1. PICK b \in BOOLEAN : b = AddOK
      BY <1>5
    <3>2. PICK n \in Nat : n = tool.k + 1
      BY <1>2
    <3>3. tool' = [[tool EXCEPT !.k = n] EXCEPT !.ok = b]
      BY <1>1, <1>7, <3>1, <3>2
    <3> QED
      BY <1>2, <3>1, <3>2, <3>3 DEF AddTool
  <2>2. tool.k + 1 \in 1..NPart
    BY <1>2, <1>7
  <2>3. TypeOK'
    BY <1>1, <1>2, <1>4, <2>1, <2>2 DEF TypeOK, ToolOK, Sized
  <2> QED
    BY <1>1, <1>2, <1>7, <2>1, <2>3
<1> QED
  BY <1>6, <1>7

LEMMA TestType ==
  ASSUME TypeOK, NEW part \in Tried, Test(part)
  PROVE  TypeOK'
<1> DEFINE w == [at |-> "test", part |-> part, pass |-> 0, block |-> disk[part].start]
<1>1. /\ part <= Len(disk) /\ UNCHANGED <<first, disk, kern, forced, faults>>
      /\ tool' = w \/ tool' = Said(FALSE)
  BY DEF Test
<1>2. part \in 1..Len(first) /\ disk[part].start \in Nat
  <2>1. Map(disk) /\ Len(disk) = Len(first) /\ part \in 1..NPart /\ NPart \in Nat
    BY UseAssumption, WidthAssumption DEF TypeOK, Sized
  <2>2. part \in 1..Len(disk)
    BY <1>1, <2>1, MapFacts
  <2> QED
    BY <2>1, <2>2, MapFacts
<1>3. CASE tool' = w
  <2>1. w \in TestTool /\ w.at = "test" /\ w.part = part
    BY <1>2, MapFacts DEF TestTool, TypeOK
  <2> HIDE DEF w
  <2> QED
    BY <1>1, <1>2, <1>3, <2>1 DEF TypeOK, ToolOK, Sized
<1>4. CASE tool' = Said(FALSE)
  BY <1>1, <1>4, SaidFacts DEF TypeOK, ToolOK, Sized
<1> QED
  BY <1>1, <1>3, <1>4

(* A command that has ended keeps nothing. *)
LEMMA EndType ==
  ASSUME TypeOK, UNCHANGED <<first, disk, forced>>, faults' \in Nat,
         kern' \in [1..NPart -> [start : Nat, len : Nat] \cup {None}],
         tool'.at \in {"off", "said"}
  PROVE  TypeOK'
  BY DEF TypeOK, ToolOK, Sized

-----------------------------------------------------------------------------
(* What the kernel holds while revalidate adds partitions, and what the    *)
(* drive holds while a partition is tested.                                *)
Adding ==
  tool.at = "add" /\ tool.ok =>
    \A c \in 1..(tool.k - 1) : c <= Len(tool.map) => kern[c] = Extent(tool.map[c])

Testing ==
  tool.at = "test" =>
    /\ tool.block = disk[tool.part].start
    /\ faults = 0 => flipped = IF tool.pass = 0 THEN {} ELSE {tool.block}

KInv == TypeOK /\ Adding /\ Testing /\ KernelTold

(* A command that says nothing of the kernel ends, or begins. *)
LEMMA QuietKernel ==
  ASSUME KInv, TypeOK', UNCHANGED flipped,
         tool'.at \in {"off", "said", "write", "del"},
         tool'.at = "said" => "map" \notin DOMAIN tool' /\ "part" \notin DOMAIN tool',
         faults' = 0 => faults = 0 /\ tool.at # "test"
  PROVE  KInv'
<1>1. Adding' /\ Testing'
  BY DEF Adding, Testing
<1>2. KernelTold'
  BY DEF KInv, KernelTold, SuccessIsFresh, TestTells
<1> QED
  BY <1>1, <1>2 DEF KInv

(* What is mounted is not said. *)
LEMMA MountKernel ==
  ASSUME KInv, UNCHANGED <<first, disk, kern, flipped, tool, forced, faults>>
  PROVE  KInv'
<1>1. TypeOK'
  BY DEF KInv, TypeOK, ToolOK, Sized
<1>2. Adding' /\ Testing'
  BY DEF KInv, Adding, Testing
<1>3. KernelTold'
  BY DEF KInv, KernelTold, SuccessIsFresh, TestTells
<1> QED
  BY <1>1, <1>2, <1>3 DEF KInv

LEMMA ConsolidateKernel ==
  ASSUME KInv, NEW mega \in Swaps, NEW force \in BOOLEAN, Consolidate(mega, force)
  PROVE  KInv'
<1>1. TypeOK'
  BY ConsolidateType DEF KInv
<1>2. /\ tool' = Said(FALSE) \/ tool'.at = "write"
      /\ UNCHANGED <<flipped, faults>> /\ tool.at # "test"
  BY DEF Consolidate, Idle
<1> QED
  BY <1>1, <1>2, SaidFacts, QuietKernel

LEMMA WriteKernel ==
  ASSUME KInv, WriteEntry \/ WriteFails
  PROVE  KInv'
<1>1. /\ tool.at = "write" /\ tool' = Written /\ UNCHANGED <<first, kern, used, flipped, forced>>
      /\ faults' \in Nat /\ (faults' = 0 => faults = 0)
  BY DEF WriteEntry, WriteFails, KInv, TypeOK
<1>2. Sized(disk')
  <2>1. CASE WriteEntry
    BY <2>1, EntryWritten DEF WriteEntry, KInv
  <2>2. CASE WriteFails
    BY <2>2 DEF WriteFails, KInv, TypeOK
  <2> QED
    BY <2>1, <2>2
<1>3. TypeOK'
  BY <1>1, <1>2, WrittenType DEF KInv
<1>4. tool'.at \in {"del", "write"}
  <2>1. tool \in WriteTool
    BY <1>1 DEF KInv, TypeOK, ToolOK
  <2> QED
    BY <1>1, <2>1 DEF Written, WriteTool
<1> QED
  BY <1>1, <1>3, <1>4, QuietKernel

LEMMA RevalidateKernel ==
  ASSUME KInv, Revalidate
  PROVE  KInv'
<1> DEFINE w == [at |-> "del", map |-> disk, k |-> 1]
<1>1. /\ Idle /\ tool' = w /\ UNCHANGED <<first, disk, kern, used, flipped, forced, faults>>
  BY DEF Revalidate
<1>2. w \in DelTool /\ w.at = "del" /\ w.map = disk /\ w.k = 1 /\ 1 \in 1..NPart
  BY WidthAssumption DEF DelTool, KInv, TypeOK, Sized, Map
<1> HIDE DEF w
<1>3. TypeOK'
  BY <1>1, <1>2 DEF KInv, TypeOK, ToolOK, Sized
<1> QED
  BY <1>1, <1>2, <1>3, QuietKernel DEF Idle

LEMMA DelKernel ==
  ASSUME KInv, DelPart
  PROVE  KInv'
<1>1. TypeOK'
  BY DelType DEF KInv
<1>2. /\ tool.at = "del" /\ UNCHANGED <<flipped, faults>>
      /\ tool' = IF tool.k = NPart THEN [at |-> "add", map |-> tool.map, k |-> 1, ok |-> TRUE]
                 ELSE [tool EXCEPT !.k = @ + 1]
  BY DEF DelPart
<1>3. tool \in DelTool
  BY <1>2 DEF KInv, TypeOK, ToolOK
<1>4. CASE tool.k # NPart
  <2>1. tool'.at = "del"
    BY <1>2, <1>3, <1>4 DEF DelTool
  <2> QED
    BY <1>1, <1>2, <2>1, QuietKernel
<1>5. CASE tool.k = NPart
  <2>1. tool'.at = "add" /\ tool'.k = 1
    BY <1>2, <1>5
  <2>2. \A c \in 1..(tool'.k - 1) : FALSE
    BY <2>1
  <2>3. Adding' /\ Testing'
    BY <2>1, <2>2 DEF Adding, Testing
  <2>4. KernelTold'
    BY <1>2, <2>1 DEF KInv, KernelTold, SuccessIsFresh, TestTells
  <2> QED
    BY <1>1, <2>3, <2>4 DEF KInv
<1> QED
  BY <1>4, <1>5

(* A partition that the kernel accepts is where the map has it, and no      *)
(* later one of this run moves it.                                          *)
LEMMA AddKernel ==
  ASSUME KInv, AddPart
  PROVE  KInv'
<1>1. /\ TypeOK'
      /\ tool \in AddTool /\ tool.k \in 1..NPart /\ Sized(tool.map)
      /\ kern' = IF tool.k <= Len(tool.map) /\ Takes(kern, tool.k, tool.map[tool.k])
                 THEN [kern EXCEPT ![tool.k] = Extent(tool.map[tool.k])] ELSE kern
      /\ tool.k = NPart => tool' = [at |-> "said", ok |-> AddOK, map |-> tool.map]
      /\ tool.k # NPart => /\ tool'.at = "add" /\ tool'.map = tool.map
                           /\ tool'.k = tool.k + 1 /\ tool'.ok = AddOK
  BY AddFacts DEF KInv
<1>2. tool.at = "add" /\ UNCHANGED <<flipped, faults, disk>>
  BY DEF AddPart
<1>3. /\ kern \in [1..NPart -> [start : Nat, len : Nat] \cup {None}] /\ NPart \in Nat
      /\ Len(tool.map) \in Nat /\ Len(tool.map) <= NPart
  BY <1>1, MapFacts DEF KInv, TypeOK, Sized
<1>4. AddOK => \A c \in 1..tool.k : c <= Len(tool.map) => kern'[c] = Extent(tool.map[c])
  <2> SUFFICES ASSUME AddOK, NEW c \in 1..tool.k, c <= Len(tool.map)
               PROVE  kern'[c] = Extent(tool.map[c])
    OBVIOUS
  <2>1. c \in 1..NPart
    BY <1>1, <1>3
  <2> HIDE DEF Extent, Takes
  <2>2. CASE c = tool.k
    <3>1. Takes(kern, tool.k, tool.map[tool.k])
      BY <2>2 DEF AddOK
    <3> QED
      BY <1>1, <1>3, <2>1, <2>2, <3>1
  <2>3. CASE c # tool.k
    <3>1. c \in 1..(tool.k - 1)
      BY <1>1, <2>3
    <3>2. kern[c] = Extent(tool.map[c])
      BY <1>2, <3>1 DEF KInv, Adding, AddOK
    <3> QED
      BY <1>1, <1>3, <2>1, <2>3, <3>2
  <2> QED
    BY <2>2, <2>3
<1> HIDE DEF AddOK
<1>5. CASE tool.k = NPart
  <2>1. /\ tool'.at = "said" /\ tool'.ok = AddOK /\ tool'.map = tool.map
        /\ DOMAIN tool' = {"at", "ok", "map"}
    BY <1>1, <1>5
  <2>2. SuccessIsFresh'
    <3> SUFFICES ASSUME tool'.ok, NEW c \in 1..Len(tool'.map)
                 PROVE  kern'[c] = Extent(tool'.map[c])
      BY DEF SuccessIsFresh
    <3>1. c \in 1..tool.k /\ c <= Len(tool.map)
      BY <1>3, <1>5, <2>1
    <3> QED
      BY <1>4, <2>1, <3>1
  <2>3. TestTells'
    BY <1>2, <2>1 DEF KInv, KernelTold, TestTells
  <2>4. Adding' /\ Testing'
    BY <2>1 DEF Adding, Testing
  <2> QED
    BY <1>1, <2>2, <2>3, <2>4 DEF KInv, KernelTold
<1>6. CASE tool.k # NPart
  <2>1. tool'.at = "add" /\ tool'.map = tool.map /\ tool'.k = tool.k + 1 /\ tool'.ok = AddOK
    BY <1>1, <1>6
  <2>2. Adding'
    <3> SUFFICES ASSUME tool'.ok, NEW c \in 1..(tool'.k - 1), c <= Len(tool'.map)
                 PROVE  kern'[c] = Extent(tool'.map[c])
      BY DEF Adding
    <3>1. c \in 1..tool.k
      BY <1>1, <2>1
    <3> QED
      BY <1>4, <2>1, <3>1
  <2>3. Testing'
    BY <2>1 DEF Testing
  <2>4. KernelTold'
    BY <1>2, <2>1 DEF KInv, KernelTold, SuccessIsFresh, TestTells
  <2> QED
    BY <1>1, <2>2, <2>3, <2>4 DEF KInv
<1> QED
  BY <1>5, <1>6

LEMMA TestKernel ==
  ASSUME KInv, NEW part \in Tried, Test(part)
  PROVE  KInv'
<1> DEFINE w == [at |-> "test", part |-> part, pass |-> 0, block |-> disk[part].start]
<1>1. TypeOK'
  BY TestType DEF KInv
<1>2. /\ tool.at # "test" /\ UNCHANGED <<disk, flipped, faults>>
      /\ tool' = w \/ tool' = Said(FALSE)
  BY DEF Test, Idle
<1>3. CASE tool' = Said(FALSE)
  BY <1>1, <1>2, <1>3, SaidFacts, QuietKernel
<1>4. CASE tool' = w
  <2>1. w.at = "test" /\ w.part = part /\ w.pass = 0 /\ w.block = disk[part].start
    OBVIOUS
  <2> HIDE DEF w
  <2>2. faults = 0 => flipped = {}
    BY <1>2 DEF KInv, KernelTold, TestTells
  <2>3. Testing' /\ Adding' /\ KernelTold'
    BY <1>2, <1>4, <2>1, <2>2 DEF Testing, Adding, KernelTold, SuccessIsFresh, TestTells
  <2> QED
    BY <1>1, <2>3 DEF KInv
<1> QED
  BY <1>2, <1>3, <1>4

LEMMA FirstPassKernel ==
  ASSUME KInv, NEW same \in BOOLEAN, FirstPass(same)
  PROVE  KInv'
<1>1. /\ tool.at = "test" /\ tool.pass = 0 /\ UNCHANGED <<first, disk, kern, used, forced, faults>>
      /\ tool \in TestTool /\ tool.part \in 1..Len(first)
      /\ tool.block = disk[tool.part].start /\ (faults = 0 => flipped = {})
  BY DEF FirstPass, KInv, TypeOK, ToolOK, Testing
<1>2. CASE SameByte(same)
  <2>1. flipped' = Flipped /\ tool' = [tool EXCEPT !.pass = 1]
    BY <1>2 DEF FirstPass
  <2>2. /\ tool' \in TestTool /\ tool'.at = "test" /\ tool'.part = tool.part /\ tool'.pass = 1
        /\ tool'.block = tool.block
    BY <1>1, <2>1 DEF TestTool
  <2>3. TypeOK'
    BY <1>1, <2>2 DEF KInv, TypeOK, ToolOK, Sized
  <2>4. faults = 0 => flipped' = {tool.block}
    BY <1>1, <2>1 DEF Flipped
  <2>5. Testing'
    BY <1>1, <2>2, <2>4 DEF Testing
  <2>6. Adding' /\ KernelTold'
    BY <2>2 DEF Adding, KernelTold, SuccessIsFresh, TestTells
  <2> QED
    BY <2>3, <2>5, <2>6 DEF KInv
<1>3. CASE ~SameByte(same)
  <2>1. tool' = Said(FALSE) /\ flipped' = flipped
    BY <1>3 DEF FirstPass
  <2>2. TypeOK'
    BY <1>1, <2>1, SaidFacts, EndType DEF KInv, TypeOK
  <2>3. Testing' /\ Adding'
    BY <2>1, SaidFacts DEF Testing, Adding
  <2>4. KernelTold'
    BY <1>1, <2>1, SaidFacts DEF KernelTold, SuccessIsFresh, TestTells
  <2> QED
    BY <2>2, <2>3, <2>4 DEF KInv
<1> QED
  BY <1>2, <1>3

(* The second pass inverts the byte back; two bytes that are not the same  *)
(* one differ by now.                                                      *)
LEMMA SecondPassKernel ==
  ASSUME KInv, SecondPass
  PROVE  KInv'
<1>1. /\ tool.at = "test" /\ tool.pass = 1 /\ UNCHANGED <<first, disk, kern, used, forced, faults>>
      /\ flipped' = Flipped
      /\ tool' = [at |-> "said", ok |-> SecondAgrees, part |-> tool.part, block |-> tool.block]
      /\ tool.part \in 1..Len(first)
      /\ tool.block = disk[tool.part].start /\ (faults = 0 => flipped = {tool.block})
  BY DEF SecondPass, KInv, TypeOK, ToolOK, Testing
<1>2. /\ tool'.at = "said" /\ tool'.ok = SecondAgrees /\ tool'.part = tool.part
      /\ DOMAIN tool' = {"at", "ok", "part", "block"}
  <2> HIDE DEF SecondAgrees
  <2> QED
    BY <1>1
<1>3. SecondAgrees <=> kern[tool.part].start = disk[tool.part].start
  BY <1>1 DEF SecondAgrees, SameByte
<1>4. faults = 0 => flipped' = {}
  BY <1>1 DEF Flipped
<1>5. TypeOK'
  BY <1>1, <1>2, EndType DEF KInv, TypeOK
<1>6. Testing' /\ Adding'
  BY <1>2 DEF Testing, Adding
<1>7. KernelTold'
  BY <1>1, <1>2, <1>3, <1>4 DEF KernelTold, SuccessIsFresh, TestTells
<1> QED
  BY <1>5, <1>6, <1>7 DEF KInv

(* A fault ends a command. *)
LEMMA FaultKernel ==
  ASSUME KInv, TestFails \/ Stop
  PROVE  KInv'
<1>1. /\ UNCHANGED <<first, disk, kern, flipped, forced>> /\ faults' = faults + 1 /\ faults \in Nat
      /\ tool' = Said(FALSE) \/ tool' = Off
  BY DEF TestFails, Stop, KInv, TypeOK
<1>2. /\ tool'.at \in {"off", "said"}
      /\ tool'.at = "said" => "map" \notin DOMAIN tool' /\ "part" \notin DOMAIN tool'
  <2>1. CASE tool' = Off
    BY <2>1, SaidFacts
  <2>2. CASE tool' = Said(FALSE)
    BY <2>2, SaidFacts
  <2> QED
    BY <1>1, <2>1, <2>2
<1>3. faults' \in Nat /\ faults' # 0
  BY <1>1
<1>4. TypeOK'
  <2>1. kern' \in [1..NPart -> [start : Nat, len : Nat] \cup {None}]
    BY <1>1 DEF KInv, TypeOK
  <2> QED
    BY <1>1, <1>2, <1>3, <2>1, EndType DEF KInv
<1> QED
  BY <1>1, <1>2, <1>3, <1>4, QuietKernel

LEMMA TableType ==
  ASSUME TypeOK
  PROVE  TableOf(disk) \in [1..NPart -> [start : Nat, len : Nat] \cup {None}]
<1>1. Map(disk)
  BY DEF TypeOK, Sized
<1>2. \A c \in 1..NPart : c <= Len(disk) => Extent(disk[c]) \in [start : Nat, len : Nat]
  <2> TAKE c \in 1..NPart
  <2> HAVE c <= Len(disk)
  <2>1. c \in 1..Len(disk)
    BY <1>1, MapFacts
  <2> QED
    BY <1>1, <2>1, MapFacts DEF Extent
<1> HIDE DEF Extent
<1> QED
  BY <1>2 DEF TableOf

LEMMA RebootKernel ==
  ASSUME KInv, Reboot
  PROVE  KInv'
<1>1. /\ UNCHANGED <<first, disk, flipped, forced, faults>> /\ kern' = TableOf(disk) /\ tool' = Off
      /\ tool.at # "test"
  BY DEF Reboot, Idle
<1>2. TypeOK'
  BY <1>1, TableType, SaidFacts, EndType DEF KInv, TypeOK
<1> QED
  BY <1>1, <1>2, SaidFacts, QuietKernel

LEMMA InitKernel == Init => KInv
<1> SUFFICES ASSUME Init PROVE KInv
  OBVIOUS
<1>1. tool.at = "off" /\ flipped = {}
  BY SaidFacts DEF Init
<1> QED
  BY <1>1, InitTypeOK DEF KInv, Adding, Testing, KernelTold, SuccessIsFresh, TestTells

LEMMA NextKernel == KInv /\ [Next]_vars => KInv'
<1> SUFFICES ASSUME KInv, [Next]_vars PROVE KInv'
  OBVIOUS
<1>1. CASE \E mega \in Swaps, force \in BOOLEAN : Consolidate(mega, force)
  BY <1>1, ConsolidateKernel
<1>2. CASE WriteEntry \/ WriteFails
  BY <1>2, WriteKernel
<1>3. CASE Revalidate
  BY <1>3, RevalidateKernel
<1>4. CASE DelPart
  BY <1>4, DelKernel
<1>5. CASE AddPart
  BY <1>5, AddKernel
<1>6. CASE \E part \in Tried : Test(part)
  BY <1>6, TestKernel
<1>7. CASE \E same \in BOOLEAN : FirstPass(same)
  BY <1>7, FirstPassKernel
<1>8. CASE SecondPass
  BY <1>8, SecondPassKernel
<1>9. CASE TestFails \/ Stop
  BY <1>9, FaultKernel
<1>10. CASE (\E c \in InUse : Mount(c)) \/ (\E c \in InUse : Unmount(c))
  BY <1>10, MountKernel DEF Mount, Unmount
<1>11. CASE Reboot
  BY <1>11, RebootKernel
<1>12. CASE UNCHANGED vars
  <2>1. UNCHANGED <<first, disk, kern, flipped, tool, forced, faults>>
    BY <1>12 DEF vars
  <2> QED
    BY <2>1, MountKernel
<1> QED
  BY <1>1, <1>2, <1>3, <1>4, <1>5, <1>6, <1>7, <1>8, <1>9, <1>10, <1>11, <1>12 DEF Next

(* What tivopart says of the kernel's table is true: revalidate reports no *)
(* error only when the kernel has every partition where the map has it,    *)
(* test says so exactly when it has, and an undisturbed test leaves no byte *)
(* inverted, whatever is mounted and wherever a command is stopped.        *)
THEOREM KernelTheorem == Spec => []KernelTold
<1>1. KInv => KernelTold
  BY DEF KInv
<1> QED
  BY <1>1, InitKernel, NextKernel, PTL DEF Spec

-----------------------------------------------------------------------------
(* Partitions in a row.                                                     *)

LEMMA EightFacts ==
  ASSUME NEW m, Map(m), NEW c \in 1..8
  PROVE  m[c] \in Entry /\ m[c].start \in Nat /\ m[c].len \in Nat
<1>1. c \in 1..Len(m)
  BY MapFacts
<1> QED
  BY <1>1, MapFacts

(* The partitions 2 to 8, if they follow one another below the last block:  *)
(* what shares no block with any of them lies in front of or behind them.   *)
LEMMA ChainFacts ==
  ASSUME NEW m, Map(m), Contiguous(m), \A c \in 2..8 : m[c].start + m[c].len < Word
  PROVE  /\ \A c \in 3..8 : m[c].start = m[c - 1].start + m[c - 1].len
         /\ PoolEnd(m) = m[2].start + Total(m) /\ PoolEnd(m) = m[8].start + m[8].len
         /\ \A c \in 2..8 : m[2].start <= m[c].start /\ m[c].start + m[c].len <= PoolEnd(m)
<1>1. \A c \in 2..8 : /\ m[c].start \in Nat /\ m[c].len \in Nat
                      /\ m[c].start + m[c].len \in 0..(Word - 1)
  <2> TAKE c \in 2..8
  <2>1. c \in 1..8
    OBVIOUS
  <2>2. m[c].start \in Nat /\ m[c].len \in Nat
    BY <2>1, EightFacts
  <2> QED
    BY <2>2, WidthAssumption
<1>2. \A c \in 3..8 : m[c].start = m[c - 1].start + m[c - 1].len
  <2> TAKE c \in 3..8
  <2>1. c - 1 \in 2..8
    OBVIOUS
  <2>2. m[c].start = Unsigned(m[c - 1].start + m[c - 1].len)
    BY DEF Contiguous
  <2>3. m[c - 1].start + m[c - 1].len \in 0..(Word - 1)
    BY <1>1, <2>1
  <2> QED
    BY <2>2, <2>3, UnsignedFacts
<1>3. /\ m[3].start = m[2].start + m[2].len
      /\ m[4].start = m[3].start + m[3].len
      /\ m[5].start = m[4].start + m[4].len
      /\ m[6].start = m[5].start + m[5].len
      /\ m[7].start = m[6].start + m[6].len
      /\ m[8].start = m[7].start + m[7].len
  <2>1. /\ 3 - 1 = 2 /\ 4 - 1 = 3 /\ 5 - 1 = 4 /\ 6 - 1 = 5 /\ 7 - 1 = 6 /\ 8 - 1 = 7
        /\ 3 \in 3..8 /\ 4 \in 3..8 /\ 5 \in 3..8 /\ 6 \in 3..8 /\ 7 \in 3..8 /\ 8 \in 3..8
    OBVIOUS
  <2> QED
    BY <1>2, <2>1
<1>4. /\ m[2].start \in Nat /\ m[3].start \in Nat /\ m[4].start \in Nat /\ m[5].start \in Nat
      /\ m[6].start \in Nat /\ m[7].start \in Nat /\ m[8].start \in Nat
      /\ m[2].len \in Nat /\ m[3].len \in Nat /\ m[4].len \in Nat /\ m[5].len \in Nat
      /\ m[6].len \in Nat /\ m[7].len \in Nat /\ m[8].len \in Nat
      /\ m[8].start + m[8].len \in 0..(Word - 1)
  BY <1>1
<1>5. m[2].start + Total(m) = m[8].start + m[8].len
  BY <1>3, <1>4 DEF Total
<1>6. PoolEnd(m) = m[8].start + m[8].len
  BY <1>4, <1>5, UnsignedFacts DEF PoolEnd
<1>7. \A c \in 2..8 : c = 2 \/ c = 3 \/ c = 4 \/ c = 5 \/ c = 6 \/ c = 7 \/ c = 8
  OBVIOUS
<1>8. \A c \in 2..8 : m[2].start <= m[c].start /\ m[c].start + m[c].len <= m[8].start + m[8].len
  BY <1>3, <1>4, <1>7
<1> QED
  BY <1>2, <1>5, <1>6, <1>8

LEMMA ChainOutside ==
  ASSUME NEW m, Map(m), Contiguous(m), \A c \in 2..8 : m[c].start + m[c].len < Word,
         NEW e \in Entry, e.len > 0, \A c \in 2..8 : ~Overlap(e, m[c])
  PROVE  e.start >= PoolEnd(m) \/ e.start + e.len <= m[2].start
<1>1. e.start \in Nat /\ e.len \in Nat
  BY WidthAssumption DEF Entry
<1>2. /\ m[3].start = m[2].start + m[2].len
      /\ m[4].start = m[3].start + m[3].len
      /\ m[5].start = m[4].start + m[4].len
      /\ m[6].start = m[5].start + m[5].len
      /\ m[7].start = m[6].start + m[6].len
      /\ m[8].start = m[7].start + m[7].len
      /\ PoolEnd(m) = m[8].start + m[8].len
  <2>1. /\ 3 - 1 = 2 /\ 4 - 1 = 3 /\ 5 - 1 = 4 /\ 6 - 1 = 5 /\ 7 - 1 = 6 /\ 8 - 1 = 7
        /\ 3 \in 3..8 /\ 4 \in 3..8 /\ 5 \in 3..8 /\ 6 \in 3..8 /\ 7 \in 3..8 /\ 8 \in 3..8
    OBVIOUS
  <2> QED
    BY <2>1, ChainFacts
<1>3. \A c \in 2..8 : m[c].start \in Nat /\ m[c].len \in Nat
  <2> TAKE c \in 2..8
  <2>1. c \in 1..8
    OBVIOUS
  <2> QED
    BY <2>1, EightFacts
<1>4. \A c \in 2..8 : e.start >= m[c].start + m[c].len \/ m[c].start >= e.start + e.len
  BY <1>1, <1>3 DEF Overlap
<1>5. e.start >= m[3].start \/ e.start + e.len <= m[2].start
  BY <1>2, <1>4
<1>6. e.start >= m[4].start \/ e.start + e.len <= m[2].start
  BY <1>1, <1>2, <1>3, <1>4, <1>5
<1>7. e.start >= m[5].start \/ e.start + e.len <= m[2].start
  BY <1>1, <1>2, <1>3, <1>4, <1>6
<1>8. e.start >= m[6].start \/ e.start + e.len <= m[2].start
  BY <1>1, <1>2, <1>3, <1>4, <1>7
<1>9. e.start >= m[7].start \/ e.start + e.len <= m[2].start
  BY <1>1, <1>2, <1>3, <1>4, <1>8
<1>10. e.start >= m[8].start \/ e.start + e.len <= m[2].start
  BY <1>1, <1>2, <1>3, <1>4, <1>9
<1> QED
  BY <1>1, <1>2, <1>3, <1>4, <1>10

(* Where the partitions that are given out anew end.                        *)
PoolTop(m) == PoolEnd(m) + (IF LastInPool(m) THEN m[LastPart(m)].len ELSE 0)

(* A map whose pool can be converted: its sums do not wrap.                 *)
Fits(m) ==
  /\ Map(m) /\ Contiguous(m) /\ LastPart(m) # 0 /\ PoolTop(m) < Word
  /\ \A c \in 2..8 : m[c].start + m[c].len < Word

(* If there is room, the new sizes are the true differences: fixed space,   *)
(* 2 to 7, swap space and the main root lie in a row from the first block   *)
(* of the pool to its last.                                                 *)
LEMMA NewFacts ==
  ASSUME NEW m, Fits(m), NEW mega \in Nat, EnoughRoom(m, SwapBlocks(mega)),
         NEW C, C = Consolidated(m, SwapBlocks(mega))
  PROVE  /\ Map(C) /\ Len(C) = Len(m)
         /\ Base(m) \in Nat /\ m[2].start <= Base(m) /\ PoolTop(m) \in 0..(Word - 1)
         /\ C[2].start = Base(m)
         /\ \A c \in 2..7 : C[c + 1].start = C[c].start + C[c].len
         /\ C[1].start = C[8].start + C[8].len /\ C[1].start + C[1].len = PoolTop(m)
         /\ C[8].len = SwapBlocks(mega) /\ C[1].name = "Main root"
<1> DEFINE swap == SwapBlocks(mega)
           fix  == IF Fixes(m) THEN FixFree ELSE 0
<1>1. /\ Word \in Nat /\ FixFree \in Nat /\ SmallSizes \in Nat /\ MinRoot \in Nat
  BY WidthAssumption, SizeFacts
<1>2. swap \in 0..(Word - 1) /\ SmallSizes + FixFree + swap < Word
  BY SwapFacts
<1>3. Map(m) /\ Contiguous(m) /\ LastPart(m) # 0 /\ PoolTop(m) < Word
  BY DEF Fits
<1>4. /\ Total(m) \in Nat /\ PoolEnd(m) = m[2].start + Total(m)
      /\ m[2].start \in Nat /\ m[LastPart(m)].len \in Nat
  <2>1. Total(m) \in Nat
    BY <1>3, PoolFacts
  <2>2. PoolEnd(m) = m[2].start + Total(m)
    BY ChainFacts DEF Fits
  <2>3. m[2].start \in Nat
    BY <1>3, EightFacts
  <2>4. LastPart(m) \in 1..Len(m)
    BY <1>3, LastPartFacts
  <2>5. m[LastPart(m)].len \in Nat
    BY <1>3, <2>4, MapFacts
  <2> QED
    BY <2>1, <2>2, <2>3, <2>5
<1>5. fix \in Nat /\ fix <= FixFree /\ Base(m) = m[2].start + fix
  BY <1>1 DEF Base
<1>6. PoolTop(m) \in 0..(Word - 1) /\ PoolBlocks(m) = PoolTop(m) - m[2].start
  <2>1. PICK x : x = IF LastInPool(m) THEN m[LastPart(m)].len ELSE 0
    OBVIOUS
  <2>2. x \in Nat /\ PoolTop(m) = m[2].start + Total(m) + x /\ PoolBlocks(m) = Unsigned(Total(m) + x)
    BY <1>4, <2>1 DEF PoolTop, PoolBlocks
  <2>3. Total(m) + x \in 0..(Word - 1) /\ PoolTop(m) \in 0..(Word - 1)
    BY <1>1, <1>3, <1>4, <2>2
  <2> QED
    BY <1>4, <2>2, <2>3, UnsignedFacts
<1>7. MainRoot(m, swap) = PoolBlocks(m) - SmallSizes - swap - fix
  <2>1. PICK x : x = PoolBlocks(m) - SmallSizes - swap - fix
    OBVIOUS
  <2>2. PoolBlocks(m) \in Nat /\ x \in Int /\ x <= PoolBlocks(m) /\ x < Word /\ -Word <= x
        /\ PoolBlocks(m) < x + Word
    <3> HIDE DEF swap, fix
    <3>0. PoolBlocks(m) \in 0..(Word - 1)
      BY <1>3, PoolFacts
    <3>1. PICK n : n = PoolBlocks(m)
      OBVIOUS
    <3>2. n \in Nat /\ n < Word
      BY <1>1, <3>0, <3>1
    <3> QED
      BY <1>1, <1>2, <1>5, <3>1, <3>2, <2>1
  <2>3. MainRoot(m, swap) = Unsigned(x) /\ Unsigned(x) <= PoolBlocks(m)
    BY <2>1 DEF MainRoot, EnoughRoom
  <2>4. x >= 0
    <3>1. SUFFICES ASSUME x < 0 PROVE FALSE
      BY <2>2
    <3>2. Unsigned(x) = x + Word
      BY <2>2, <3>1, UnsignedFacts
    <3> QED
      BY <1>1, <2>2, <2>3, <3>2
  <2>5. Unsigned(x) = x
    BY <1>1, <2>2, <2>4, UnsignedFacts
  <2> QED
    BY <2>1, <2>3, <2>5
<1>8. MainRoot(m, swap) \in Nat
  BY <1>2, <1>3, PoolFacts, <1>1
<1> HIDE DEF swap, fix
<1>9. NewEntries(C, m, swap)
  BY <1>2, <1>3, ConsolidatedFacts DEF swap
<1>10. Base(m) + SmallSizes + swap + MainRoot(m, swap) = PoolTop(m)
  BY <1>1, <1>2, <1>4, <1>5, <1>6, <1>7
<1>11. /\ \A c \in 2..8 : Ahead(c) \in Nat /\ Ahead(c) <= SmallSizes
       /\ Ahead(2) = 0 /\ Ahead(8) = SmallSizes
       /\ \A c \in 2..7 : Size[c] \in Nat /\ Ahead(c + 1) = Ahead(c) + Size[c]
  <2>1. \A c \in 2..7 : Size[c] \in Nat /\ Ahead(c + 1) = Ahead(c) + Size[c]
                        /\ Ahead(c) + Size[c] <= SmallSizes
    BY SizeFacts
  <2>2. \A c \in 2..8 : Ahead(c) \in Nat
    BY SizeFacts
  <2>3. Ahead(2) = 0 /\ Ahead(8) = SmallSizes
    BY SizeFacts DEF SmallSizes
  <2>4. \A c \in 2..8 : Ahead(c) <= SmallSizes
    <3> TAKE c \in 2..8
    <3>1. CASE c = 8
      BY <1>1, <2>3, <3>1
    <3>2. CASE c # 8
      <4>1. c \in 2..7
        BY <3>2
      <4> QED
        BY <1>1, <2>1, <2>2, <4>1
    <3> QED
      BY <3>1, <3>2
  <2> QED
    BY <2>1, <2>2, <2>3, <2>4
<1>12. Base(m) \in Nat
  BY <1>3, PoolFacts
<1>13. \A c \in 2..8 : C[c].start = Base(m) + Ahead(c)
  <2> TAKE c \in 2..8
  <2>1. Base(m) + Ahead(c) \in 0..(Word - 1)
    BY <1>1, <1>2, <1>6, <1>8, <1>10, <1>11, <1>12
  <2> QED
    BY <1>9, <2>1, UnsignedFacts DEF NewEntries
<1>14. C[1].start = Base(m) + SmallSizes + swap
  <2>1. Base(m) + SmallSizes + swap \in 0..(Word - 1)
    BY <1>1, <1>2, <1>6, <1>8, <1>10, <1>12
  <2> QED
    BY <1>9, <2>1, UnsignedFacts DEF NewEntries
<1>15. \A c \in 2..7 : C[c + 1].start = C[c].start + C[c].len
  <2> TAKE c \in 2..7
  <2>1. c + 1 \in 2..8 /\ c \in 2..8 /\ c # 8
    OBVIOUS
  <2>2. /\ C[c + 1].start = Base(m) + Ahead(c + 1) /\ C[c].start = Base(m) + Ahead(c)
        /\ C[c].len = Size[c] /\ Ahead(c + 1) = Ahead(c) + Size[c] /\ Size[c] \in Nat
        /\ Ahead(c) \in Nat
    BY <1>9, <1>11, <1>13, <2>1 DEF NewEntries
  <2> QED
    BY <1>12, <2>2
<1>16. C[8].len = swap /\ C[8].start = Base(m) + SmallSizes /\ C[2].start = Base(m)
  <2>1. 8 \in 2..8 /\ 2 \in 2..8
    OBVIOUS
  <2>2. C[8].len = swap
    BY <1>9, <2>1 DEF NewEntries
  <2>3. C[8].start = Base(m) + Ahead(8) /\ C[2].start = Base(m) + Ahead(2)
    BY <1>13, <2>1
  <2>4. C[2].start = Base(m)
    BY <1>11, <1>12, <2>3
  <2> QED
    BY <1>11, <2>2, <2>3, <2>4
<1>17. m[2].start <= Base(m)
  BY <1>4, <1>5
<1>18. C[1].start = C[8].start + C[8].len /\ C[1].start + C[1].len = PoolTop(m)
  BY <1>1, <1>2, <1>9, <1>10, <1>12, <1>14, <1>16 DEF NewEntries
<1> QED
  BY <1>6, <1>9, <1>12, <1>15, <1>16, <1>17, <1>18 DEF swap, NewEntries

-----------------------------------------------------------------------------
(* What becomes of the first map.  If 2 to 8 follow one another and there  *)
(* is a partition for the main root, only that one and the first eight are *)
(* ever changed, and only to lie in the pool of the first map; if not,     *)
(* nothing is written.                                                     *)
Convertible == LastPart(first) # 0 /\ Contiguous(first)

Lo == first[2].start
Hi == PoolTop(first)

Inside(e) == Lo <= e.start /\ e.start + e.len <= Hi
Apart(e)  == Hi <= e.start \/ e.start + e.len <= Lo

\* Is c of the pool, but for the first eight?
Taken(c) == c = LastPart(first) /\ LastInPool(first)

Good(m) ==
  /\ m[1] = first[1] \/ (Inside(m[1]) /\ m[1].name = "Main root")
  /\ \A c \in 2..8 : Inside(m[c]) /\ m[c].name \notin RootNames
  /\ \A c \in 9..Len(first) :
       m[c] = first[c] \/ (Taken(c) /\ Inside(m[c]) /\ m[c].name \in RootNames /\ m[c].len > 0)

LEMMA MadeFacts ==
  ASSUME TypeOK
  PROVE  /\ Map(first) /\ AsMade(first)
         /\ \A c \in 1..Len(first) : /\ first[c].len \in Nat /\ first[c].len > 0
                                     /\ first[c].start \in Nat
                                     /\ first[c].start + first[c].len < Word
         /\ \A c, d \in 1..Len(first) : c # d => ~Overlap(first[c], first[d])
         /\ \A c \in 1..8 : c \in 1..Len(first)
         /\ \A c \in 9..Len(first) : c \in 1..Len(first)
         /\ Len(first) \in Nat
<1>1. Map(first) /\ AsMade(first)
  BY MapsAssumption DEF TypeOK
<1>2. \A c \in 1..Len(first) : first[c].len \in Nat /\ first[c].start \in Nat
  BY <1>1, MapFacts
<1>3. (\A c \in 1..8 : c \in 1..Len(first)) /\ Len(first) \in Nat
  BY <1>1, MapFacts
<1>4. \A c \in 9..Len(first) : c \in 1..Len(first)
  BY <1>3
<1> QED
  BY <1>1, <1>2, <1>3, <1>4 DEF AsMade, Disjoint

LEMMA FirstFacts ==
  ASSUME TypeOK, Convertible
  PROVE  /\ Fits(first) /\ Lo \in Nat /\ Hi \in 0..(Word - 1)
         /\ LastPart(first) \in 1..Len(first) /\ LastPart(first) \notin 2..8
         /\ LastInPool(first) => Inside(first[LastPart(first)])
         /\ \A c \in 2..8 : Inside(first[c])
         /\ \A c \in 1..Len(first) : c \notin 2..8 /\ ~Taken(c) => Apart(first[c])
<1> DEFINE l == LastPart(first)
<1>1. /\ Map(first) /\ AsMade(first) /\ Contiguous(first) /\ l # 0 /\ Word \in Nat
      /\ \A c \in 1..Len(first) : /\ first[c] \in Entry
                                  /\ first[c].len \in Nat /\ first[c].len > 0
                                  /\ first[c].start \in Nat
                                  /\ first[c].start + first[c].len < Word
      /\ \A c, d \in 1..Len(first) : c # d => ~Overlap(first[c], first[d])
      /\ \A c \in 2..8 : c \in 1..Len(first)
  <2>1. \A c \in 2..8 : c \in 1..8
    OBVIOUS
  <2> QED
    BY <2>1, MadeFacts, MapFacts, WidthAssumption DEF Convertible
<1>2. l \in 1..Len(first) /\ first[l].name \in RootNames /\ l \notin 2..8
  <2>1. l \in 1..Len(first) /\ first[l].name \in RootNames
    BY <1>1, LastPartFacts
  <2> QED
    BY <1>1, <2>1 DEF AsMade
<1>3. \A c \in 2..8 : first[c].start + first[c].len < Word
  BY <1>1
<1>4. /\ PoolEnd(first) \in Nat /\ PoolEnd(first) < Word /\ Lo \in Nat
      /\ \A c \in 2..8 : Lo <= first[c].start /\ first[c].start + first[c].len <= PoolEnd(first)
  <2>1. PoolEnd(first) \in 0..(Word - 1)
    BY <1>1, PoolFacts
  <2>2. \A c \in 2..8 : first[2].start <= first[c].start
                        /\ first[c].start + first[c].len <= PoolEnd(first)
    BY <1>1, <1>3, ChainFacts
  <2>3. first[2].start \in Nat
    BY <1>1, EightFacts
  <2> QED
    BY <1>1, <2>1, <2>2, <2>3 DEF Lo
<1>5. /\ Hi \in Nat /\ Hi < Word /\ PoolEnd(first) <= Hi
      /\ LastInPool(first) => /\ Hi = first[l].start + first[l].len
                              /\ first[l].start = PoolEnd(first)
      /\ ~LastInPool(first) => Hi = PoolEnd(first)
  <2>1. CASE LastInPool(first)
    <3>1. first[l].start = PoolEnd(first) /\ Hi = PoolEnd(first) + first[l].len
      BY <2>1 DEF Hi, PoolTop, LastInPool
    <3>2. first[l].len \in Nat /\ first[l].start + first[l].len < Word
      BY <1>1, <1>2
    <3> HIDE DEF l
    <3> QED
      BY <1>4, <2>1, <3>1, <3>2
  <2>2. CASE ~LastInPool(first)
    <3>1. Hi = PoolEnd(first) + 0
      BY <2>2 DEF Hi, PoolTop
    <3> QED
      BY <1>4, <2>2, <3>1
  <2> QED
    BY <2>1, <2>2
<1>6. \A c \in 2..8 : Inside(first[c])
  <2> TAKE c \in 2..8
  <2>1. Lo <= first[c].start /\ first[c].start + first[c].len <= PoolEnd(first)
    BY <1>4
  <2>2. first[c].start \in Nat /\ first[c].len \in Nat
    BY <1>1
  <2> QED
    BY <1>4, <1>5, <2>1, <2>2 DEF Inside
<1>7. LastInPool(first) => Inside(first[l])
  <2> HAVE LastInPool(first)
  <2>1. Hi = first[l].start + first[l].len /\ first[l].start = PoolEnd(first)
    BY <1>5
  <2>2. Lo <= PoolEnd(first)
    <3>1. 8 \in 2..8
      OBVIOUS
    <3>2. Lo <= first[8].start /\ first[8].start + first[8].len <= PoolEnd(first)
          /\ first[8].start \in Nat /\ first[8].len \in Nat
      BY <1>1, <1>4, <3>1
    <3> QED
      BY <1>4, <3>2
  <2> QED
    BY <1>1, <1>2, <1>5, <2>1, <2>2 DEF Inside
<1>8. \A c \in 1..Len(first) : c \notin 2..8 /\ ~Taken(c) => Apart(first[c])
  <2> SUFFICES ASSUME NEW c \in 1..Len(first), c \notin 2..8, ~Taken(c)
               PROVE  Apart(first[c])
    OBVIOUS
  <2>1. \A d \in 2..8 : ~Overlap(first[c], first[d])
    BY <1>1
  <2>2. first[c].start >= PoolEnd(first) \/ first[c].start + first[c].len <= Lo
    BY <1>1, <1>3, <2>1, ChainOutside DEF Lo
  <2>3. CASE LastInPool(first)
    <3>1. c # l /\ first[l].start = PoolEnd(first) /\ Hi = first[l].start + first[l].len
      BY <1>5, <2>3 DEF Taken
    <3>2. ~Overlap(first[c], first[l])
      BY <1>1, <1>2, <3>1
    <3>3. /\ first[c].start \in Nat /\ first[c].len \in Nat /\ first[c].len > 0
          /\ first[l].start \in Nat /\ first[l].len \in Nat
      BY <1>1, <1>2
    <3>4. first[c].start >= Hi \/ first[l].start >= first[c].start + first[c].len
      <4> HIDE DEF l
      <4> QED
        BY <3>1, <3>2, <3>3 DEF Overlap
    <3>5. first[c].start >= Hi \/ first[c].start + first[c].len <= Lo
      <4> HIDE DEF l
      <4> QED
        BY <1>4, <2>2, <3>1, <3>3, <3>4
    <3> QED
      BY <1>4, <1>5, <3>3, <3>5 DEF Apart
  <2>4. CASE ~LastInPool(first)
    BY <1>1, <1>4, <1>5, <2>2, <2>4 DEF Apart
  <2> QED
    BY <2>3, <2>4
<1>9. Fits(first)
  BY <1>1, <1>3, <1>5 DEF Fits, Hi
<1> QED
  BY <1>1, <1>2, <1>4, <1>5, <1>6, <1>7, <1>8, <1>9

LEMMA FirstIsGood ==
  ASSUME TypeOK, Convertible
  PROVE  Good(first)
<1>1. \A c \in 2..8 : Inside(first[c])
  BY FirstFacts
<1>2. \A c \in 2..8 : first[c].name \notin RootNames
  BY MadeFacts DEF AsMade
<1> QED
  BY <1>1, <1>2 DEF Good

(* The partition for the main root of a good map is its first one or the   *)
(* one of the first map, and if it is of the pool it was of the first one.  *)
LEMMA GoodLast ==
  ASSUME TypeOK, Convertible, NEW m, Sized(m), Good(m)
  PROVE  /\ LastPart(m) # 0 /\ LastPart(m) \in {1, LastPart(first)}
         /\ LastPart(m) \in 1..Len(first)
         /\ \/ m[LastPart(m)] = first[LastPart(first)] /\ LastPart(m) = LastPart(first)
            \/ Inside(m[LastPart(m)])
         /\ LastPart(m) # 1 => LastPart(m) = LastPart(first) /\ LastPart(first) \in 9..Len(first)
<1> DEFINE l == LastPart(first)
<1>1. /\ l \in 1..Len(first) /\ first[l].name \in RootNames /\ l \notin 2..8
      /\ \A d \in 1..Len(first) : first[d].name \in RootNames => l <= d
      /\ Map(m) /\ Len(m) = Len(first) /\ Len(first) \in Nat
      /\ \A c \in 1..8 : c \in 1..Len(first)
      /\ \A c \in 9..Len(first) : c \in 1..Len(first)
  BY FirstFacts, LastPartFacts, MadeFacts DEF Sized, Convertible
<1>2. CASE m[1].name \in RootNames
  <2>1. 1 \in 1..Len(m) /\ \A d \in 1..Len(m) : 1 <= d
    BY <1>1
  <2>2. LastPart(m) = 1
    BY <1>1, <1>2, <2>1, LastPartIs
  <2>3. CASE m[1] = first[1]
    <3>1. l <= 1 /\ 1 <= l
      BY <1>1, <1>2, <2>1, <2>3
    <3>2. l = 1
      BY <1>1, <3>1
    <3> QED
      BY <1>1, <2>1, <2>2, <2>3, <3>2
  <2>4. CASE Inside(m[1])
    BY <1>1, <2>1, <2>2, <2>4
  <2> QED
    BY <2>3, <2>4 DEF Good
<1>3. CASE m[1].name \notin RootNames
  <2>1. m[1] = first[1]
    BY <1>3 DEF Good, RootNames
  <2>2. l # 1 /\ l \in 9..Len(first)
    BY <1>1, <1>3, <2>1
  <2>3. m[l] = first[l] \/ (Inside(m[l]) /\ m[l].name \in RootNames)
    BY <2>2 DEF Good
  <2>4. l \in 1..Len(m) /\ m[l].name \in RootNames
    BY <1>1, <2>3
  <2>5. \A d \in 1..Len(m) : m[d].name \in RootNames => l <= d
    <3> SUFFICES ASSUME NEW d \in 1..Len(m), m[d].name \in RootNames PROVE l <= d
      OBVIOUS
    <3>1. d # 1 /\ d \notin 2..8
      BY <1>3 DEF Good
    <3>2. d \in 9..Len(first)
      BY <1>1, <3>1
    <3>3. m[d] = first[d] \/ d = l
      BY <3>2 DEF Good, Taken
    <3> QED
      BY <1>1, <3>3
  <2>6. LastPart(m) = l
    <3> HIDE DEF l
    <3> QED
      BY <1>1, <2>4, <2>5, LastPartIs
  <2> QED
    BY <1>1, <2>2, <2>3, <2>6
<1> QED
  BY <1>2, <1>3

(* The pool of a good map lies in the first one.                            *)
LEMMA GoodPool ==
  ASSUME TypeOK, Convertible, NEW m, Sized(m), Good(m), Contiguous(m)
  PROVE  /\ Fits(m) /\ Lo <= m[2].start /\ PoolTop(m) <= Hi /\ PoolTop(m) \in Nat
         /\ LastInPool(m) => /\ Inside(m[LastPart(m)])
                             /\ m[LastPart(m)].start = PoolEnd(m)
                             /\ PoolTop(m) = PoolEnd(m) + m[LastPart(m)].len
         /\ LastInPool(m) /\ LastPart(m) # 1 => Taken(LastPart(m))
<1> DEFINE k == LastPart(m)
           l == LastPart(first)
<1>1. /\ Map(m) /\ Len(m) = Len(first) /\ k # 0 /\ k \in {1, l} /\ k \in 1..Len(first)
      /\ (m[k] = first[l] /\ k = l) \/ Inside(m[k])
      /\ k # 1 => k = l /\ l \in 9..Len(first)
  BY GoodLast DEF Sized
<1>2. /\ Fits(first) /\ Lo \in Nat /\ Hi \in Nat /\ Hi < Word /\ Word \in Nat
      /\ l \in 1..Len(first) /\ l \notin 2..8
  BY FirstFacts, WidthAssumption
<1>3. \A c \in 2..8 : /\ m[c].start \in Nat /\ m[c].len \in Nat
                      /\ Lo <= m[c].start /\ m[c].start + m[c].len <= Hi
  <2> TAKE c \in 2..8
  <2>1. c \in 1..8
    OBVIOUS
  <2> QED
    BY <1>1, <2>1, EightFacts DEF Good, Inside
<1>4. \A c \in 2..8 : m[c].start + m[c].len < Word
  <2> TAKE c \in 2..8
  <2>1. m[c].start \in Nat /\ m[c].len \in Nat /\ m[c].start + m[c].len <= Hi
    BY <1>3
  <2> QED
    BY <1>2, <2>1
<1>5. PoolEnd(m) \in Nat /\ Lo <= PoolEnd(m) /\ PoolEnd(m) <= Hi /\ Lo <= m[2].start
  <2>1. 8 \in 2..8 /\ 2 \in 2..8
    OBVIOUS
  <2>2. PoolEnd(m) = m[8].start + m[8].len
    BY <1>1, <1>4, ChainFacts
  <2>3. /\ m[8].start \in Nat /\ m[8].len \in Nat /\ Lo <= m[8].start /\ m[8].start + m[8].len <= Hi
        /\ Lo <= m[2].start
    BY <1>3, <2>1
  <2>4. Lo \in Nat /\ Hi \in Nat
    BY <1>2
  <2> QED
    BY ONLY <2>2, <2>3, <2>4
<1>6. m[k].start \in Nat /\ m[k].len \in Nat
  BY <1>1, MapFacts
<1>7. LastInPool(m) => Inside(m[k]) /\ (k # 1 => LastInPool(first))
  <2> SUFFICES ASSUME LastInPool(m) PROVE Inside(m[k]) /\ (k # 1 => LastInPool(first))
    OBVIOUS
  <2>1. m[k].start = PoolEnd(m)
    BY DEF LastInPool
  <2>2. CASE LastInPool(first)
    BY <1>1, <2>2, FirstFacts
  <2>3. CASE ~LastInPool(first)
    <3>1. Apart(first[l])
      BY <1>2, <2>3, FirstFacts DEF Taken
    <3>2. /\ first[l].len \in Nat /\ first[l].len > 0 /\ first[l].start \in Nat
      BY <1>2, MadeFacts
    <3>3. Hi = PoolEnd(first)
      <4>1. Hi = PoolEnd(first) + 0 /\ PoolEnd(first) \in 0..(Word - 1)
        BY <1>2, <2>3, PoolFacts DEF Hi, PoolTop, Fits
      <4> QED
        BY <1>2, <4>1
    <3>4. ASSUME m[k] = first[l] PROVE FALSE
      <4>1. first[l].start = PoolEnd(m)
        BY <2>1, <3>4
      <4>2. first[l].start + first[l].len > Lo
        BY <1>2, <1>5, <3>2, <4>1
      <4>3. Hi <= first[l].start
        BY <1>2, <3>1, <3>2, <4>2 DEF Apart
      <4>4. first[l].start = PoolEnd(first)
        BY <1>2, <1>5, <3>3, <4>1, <4>3
      <4> QED
        BY <2>3, <4>4 DEF LastInPool
    <3>5. Inside(m[k])
      BY <1>1, <3>4
    <3>6. k = 1
      <4>1. SUFFICES ASSUME k # 1 PROVE FALSE
        OBVIOUS
      <4>2. k = l /\ (m[k] = first[k] \/ Taken(k))
        BY <1>1, <4>1 DEF Good
      <4> QED
        BY <2>3, <3>4, <4>2 DEF Taken
    <3> QED
      BY <3>5, <3>6
  <2> QED
    BY <2>2, <2>3
<1>8. LastInPool(m) => m[k].start = PoolEnd(m) /\ PoolTop(m) = PoolEnd(m) + m[k].len
  BY DEF LastInPool, PoolTop
<1>9. PoolTop(m) <= Hi /\ PoolTop(m) \in Nat
  <2>1. CASE LastInPool(m)
    BY <1>2, <1>5, <1>6, <1>7, <1>8, <2>1 DEF Inside
  <2>2. CASE ~LastInPool(m)
    <3>1. PoolTop(m) = PoolEnd(m) + 0
      BY <2>2 DEF PoolTop
    <3> QED
      BY <1>2, <1>5, <3>1
  <2> QED
    BY <2>1, <2>2
<1>10. Fits(m)
  BY <1>1, <1>2, <1>4, <1>9 DEF Fits
<1>11. LastInPool(m) /\ k # 1 => Taken(k)
  BY <1>1, <1>7 DEF Taken
<1> QED
  BY <1>5, <1>7, <1>8, <1>9, <1>10, <1>11

-----------------------------------------------------------------------------
(* The new partitions.                                                      *)

LEMMA NewApart ==
  ASSUME NEW m, Fits(m), NEW mega \in Nat, EnoughRoom(m, SwapBlocks(mega)),
         NEW C, C = Consolidated(m, SwapBlocks(mega))
  PROVE  /\ \A c \in 1..8 : /\ C[c].start \in Nat /\ C[c].len \in Nat
                            /\ m[2].start <= C[c].start
                            /\ Base(m) <= C[c].start /\ C[c].start + C[c].len <= PoolTop(m)
         /\ \A c, d \in 1..8 : c # d => ~Overlap(C[c], C[d])
<1>1. /\ Map(C) /\ Base(m) \in Nat /\ PoolTop(m) \in Nat /\ m[2].start <= Base(m) /\ Map(m)
      /\ C[2].start = Base(m)
      /\ \A c \in 2..7 : C[c + 1].start = C[c].start + C[c].len
      /\ C[1].start = C[8].start + C[8].len /\ C[1].start + C[1].len = PoolTop(m)
  <2>1. /\ Map(C) /\ Base(m) \in Nat /\ PoolTop(m) \in 0..(Word - 1) /\ m[2].start <= Base(m)
        /\ C[2].start = Base(m)
        /\ C[1].start = C[8].start + C[8].len /\ C[1].start + C[1].len = PoolTop(m)
    BY NewFacts
  <2>2. \A c \in 2..7 : C[c + 1].start = C[c].start + C[c].len
    BY NewFacts
  <2>3. Map(m) /\ PoolTop(m) \in Nat
    BY <2>1, WidthAssumption DEF Fits
  <2> QED
    BY <2>1, <2>2, <2>3
<1>2. /\ C[3].start = C[2].start + C[2].len
      /\ C[4].start = C[3].start + C[3].len
      /\ C[5].start = C[4].start + C[4].len
      /\ C[6].start = C[5].start + C[5].len
      /\ C[7].start = C[6].start + C[6].len
      /\ C[8].start = C[7].start + C[7].len
  <2>1. /\ 2 + 1 = 3 /\ 3 + 1 = 4 /\ 4 + 1 = 5 /\ 5 + 1 = 6 /\ 6 + 1 = 7 /\ 7 + 1 = 8
        /\ 2 \in 2..7 /\ 3 \in 2..7 /\ 4 \in 2..7 /\ 5 \in 2..7 /\ 6 \in 2..7 /\ 7 \in 2..7
    OBVIOUS
  <2> QED
    BY <1>1, <2>1
<1>3. \A c \in 1..8 : C[c].start \in Nat /\ C[c].len \in Nat
  BY <1>1, EightFacts
<1>4. m[2].start \in Nat
  BY <1>1, EightFacts
<1>5. \A c \in 1..8 : c = 1 \/ c = 2 \/ c = 3 \/ c = 4 \/ c = 5 \/ c = 6 \/ c = 7 \/ c = 8
  OBVIOUS
<1>6. /\ C[1].start \in Nat /\ C[2].start \in Nat /\ C[3].start \in Nat /\ C[4].start \in Nat
      /\ C[5].start \in Nat /\ C[6].start \in Nat /\ C[7].start \in Nat /\ C[8].start \in Nat
      /\ C[1].len \in Nat /\ C[2].len \in Nat /\ C[3].len \in Nat /\ C[4].len \in Nat
      /\ C[5].len \in Nat /\ C[6].len \in Nat /\ C[7].len \in Nat /\ C[8].len \in Nat
  BY <1>3
<1>7. \A c \in 1..8 : Base(m) <= C[c].start /\ C[c].start + C[c].len <= PoolTop(m)
  <2> TAKE c \in 1..8
  <2> QED
    BY <1>1, <1>2, <1>5, <1>6
<1>8. \A c, d \in 2..8 : c < d => C[c].start + C[c].len <= C[d].start
  <2> SUFFICES ASSUME NEW c \in 2..8, NEW d \in 2..8, c < d
               PROVE  C[c].start + C[c].len <= C[d].start
    OBVIOUS
  <2>1. c = 2 \/ c = 3 \/ c = 4 \/ c = 5 \/ c = 6 \/ c = 7
    OBVIOUS
  <2>2. d = 3 \/ d = 4 \/ d = 5 \/ d = 6 \/ d = 7 \/ d = 8
    OBVIOUS
  <2> QED
    BY <1>2, <1>6, <2>1, <2>2
<1>9. \A c \in 2..8 : C[c].start + C[c].len <= C[1].start
  <2> TAKE c \in 2..8
  <2>1. c = 2 \/ c = 3 \/ c = 4 \/ c = 5 \/ c = 6 \/ c = 7 \/ c = 8
    OBVIOUS
  <2> QED
    BY <1>1, <1>2, <1>6, <2>1
<1>10. \A c, d \in 1..8 : c # d => ~Overlap(C[c], C[d])
  <2> SUFFICES ASSUME NEW c \in 1..8, NEW d \in 1..8, c # d
               PROVE  ~Overlap(C[c], C[d])
    OBVIOUS
  <2>1. /\ C[c].start \in Nat /\ C[c].len \in Nat /\ C[d].start \in Nat /\ C[d].len \in Nat
    BY <1>3
  <2>2. C[c].start + C[c].len <= C[d].start \/ C[d].start + C[d].len <= C[c].start
    <3>1. CASE c = 1
      <4>1. d \in 2..8
        BY <3>1
      <4> QED
        BY <1>9, <3>1, <4>1
    <3>2. CASE d = 1
      <4>1. c \in 2..8
        BY <3>2
      <4> QED
        BY <1>9, <3>2, <4>1
    <3>3. CASE c # 1 /\ d # 1
      <4>1. c \in 2..8 /\ d \in 2..8 /\ (c < d \/ d < c)
        BY <3>3
      <4> QED
        BY <1>8, <4>1
    <3> QED
      BY <3>1, <3>2, <3>3
  <2> QED
    BY <2>1, <2>2 DEF Overlap
<1>11. \A c \in 1..8 : m[2].start <= C[c].start
  <2> TAKE c \in 1..8
  <2>1. Base(m) <= C[c].start /\ C[c].start \in Nat
    BY <1>3, <1>7
  <2> QED
    BY <1>1, <1>4, <2>1
<1> QED
  BY <1>3, <1>7, <1>10, <1>11

(* What a good map becomes is good.                                         *)
LEMMA GoodConsolidated ==
  ASSUME TypeOK, Convertible, NEW m, Sized(m), Good(m), Contiguous(m),
         NEW mega \in Nat, EnoughRoom(m, SwapBlocks(mega)),
         NEW C, C = Consolidated(m, SwapBlocks(mega))
  PROVE  Good(C)
<1>1. /\ Fits(m) /\ Lo <= m[2].start /\ PoolTop(m) <= Hi /\ PoolTop(m) \in Nat
      /\ LastInPool(m) /\ LastPart(m) # 1 => Taken(LastPart(m))
  BY GoodPool, Zenon
<1>2. /\ \A c \in 1..8 : /\ C[c].start \in Nat /\ C[c].len \in Nat
                         /\ m[2].start <= C[c].start
                         /\ C[c].start + C[c].len <= PoolTop(m)
      /\ Base(m) \in Nat /\ C[2].start = Base(m)
  BY <1>1, NewApart, NewFacts
<1>3. NewEntries(C, m, SwapBlocks(mega))
  BY <1>1, SwapFacts, ConsolidatedFacts DEF Fits
<1>4. /\ Map(m) /\ Len(m) = Len(first) /\ m[2].start \in Nat /\ Lo \in Nat /\ Hi \in Nat
      /\ FixFree \in Nat /\ FixFree > 0
  <2>1. Lo \in Nat /\ Hi \in Nat
    <3>1. Lo \in Nat /\ Hi \in 0..(Word - 1)
      BY FirstFacts
    <3> QED
      BY <3>1
  <2>2. Map(m) /\ Len(m) = Len(first)
    BY DEF Sized
  <2>3. m[2].start \in Nat
    <3>1. Map(m) /\ 2 \in 1..8
      BY <2>2
    <3> QED
      BY <3>1, EightFacts
  <2>4. FixFree \in Nat /\ FixFree > 0
    BY WidthAssumption
  <2> QED
    BY <2>1, <2>2, <2>3, <2>4, Zenon
<1>5. \A c \in 1..8 : Inside(C[c])
  <2> TAKE c \in 1..8
  <2>1. /\ C[c].start \in Nat /\ C[c].len \in Nat
        /\ m[2].start <= C[c].start
        /\ C[c].start + C[c].len <= PoolTop(m)
    BY <1>2
  <2> QED
    BY <1>1, <1>4, <2>1 DEF Inside
<1>6. \A c \in 2..8 : C[c].name \notin RootNames
  <2> TAKE c \in 2..8
  <2>1. C[c].name \in {"Decoy", m[c].name}
    BY <1>3 DEF NewEntries
  <2>2. m[c].name \notin RootNames
    BY DEF Good
  <2> QED
    BY <2>1, <2>2 DEF RootNames
<1>7. ASSUME NEW c \in 9..Len(first)
      PROVE  C[c] = first[c] \/ (Taken(c) /\ Inside(C[c]) /\ C[c].name \in RootNames /\ C[c].len > 0)
  <2>1. CASE ~(c = LastPart(m) /\ Fixes(m))
    <3>1. C[c] = m[c]
      BY <1>3, <1>4, <2>1 DEF NewEntries
    <3> QED
      BY <3>1 DEF Good
  <2>2. CASE c = LastPart(m) /\ Fixes(m)
    <3>1. C[c].start = m[2].start /\ C[c].len = FixFree /\ C[c].name = "Extra"
      BY <1>3, <1>4, <2>2 DEF NewEntries
    <3>2. LastInPool(m) /\ LastPart(m) # 1 /\ Base(m) = m[2].start + FixFree
      BY <2>2 DEF Fixes, Base
    <3>3. Taken(c)
      BY <1>1, <2>2, <3>2
    <3>4. Base(m) <= PoolTop(m)
      <4>1. 2 \in 1..8
        OBVIOUS
      <4>2. C[2].start + C[2].len <= PoolTop(m) /\ C[2].len \in Nat
        BY <1>2, <4>1
      <4>3. C[2].start = Base(m) /\ Base(m) \in Nat /\ PoolTop(m) \in Nat
        BY <1>1, <1>2
      <4> QED
        BY <4>2, <4>3
    <3>5. Inside(C[c])
      BY <1>1, <1>2, <1>4, <3>1, <3>2, <3>4 DEF Inside
    <3> QED
      BY <1>4, <3>1, <3>3, <3>5 DEF RootNames
  <2> QED
    BY <2>1, <2>2
<1>8. C[1].name = "Main root" /\ Inside(C[1])
  <2>1. 1 \in 1..8
    OBVIOUS
  <2>2. C[1].name = "Main root"
    BY <1>3 DEF NewEntries
  <2> QED
    BY <1>5, <2>1, <2>2
<1>9. \A c \in 2..8 : Inside(C[c])
  <2> TAKE c \in 2..8
  <2>1. c \in 1..8
    OBVIOUS
  <2> QED
    BY <1>5, <2>1
<1> QED
  BY <1>6, <1>7, <1>8, <1>9 DEF Good

(* In a good map, nothing overlaps a partition consolidate does not touch.  *)
LEMMA GoodApart ==
  ASSUME TypeOK, Convertible, NEW m, Sized(m), Good(m), NEW c \in Others
  PROVE  m[c] = first[c] /\ \A d \in 1..Len(first) : d # c => ~Overlap(m[d], m[c])
<1>1. c \in 9..Len(first) /\ ~Taken(c)
  BY DEF Others, Taken
<1>2. m[c] = first[c]
  BY <1>1 DEF Good
<1>3. /\ c \in 1..Len(first) /\ c \notin 2..8 /\ Apart(first[c])
      /\ first[c].start \in Nat /\ first[c].len \in Nat
      /\ Lo \in Nat /\ Hi \in Nat /\ Len(first) \in Nat /\ Map(m) /\ Len(m) = Len(first)
  <2>1. c \in 1..Len(first) /\ Len(first) \in Nat
    BY <1>1, MadeFacts
  <2>2. c \notin 2..8
    BY <1>1
  <2>3. first[c].start \in Nat /\ first[c].len \in Nat
    BY <2>1, MadeFacts
  <2>4. Lo \in Nat /\ Hi \in Nat /\ Apart(first[c])
    BY <1>1, <2>1, <2>2, FirstFacts, WidthAssumption
  <2> QED
    BY <2>1, <2>2, <2>3, <2>4 DEF Sized
<1>4. ASSUME NEW d \in 1..Len(first), d # c PROVE ~Overlap(m[d], first[c])
  <2>1. m[d] = first[d] \/ Inside(m[d])
    <3>1. d = 1 \/ d \in 2..8 \/ d \in 9..Len(first)
      BY <1>3
    <3> QED
      BY <3>1 DEF Good
  <2>2. CASE m[d] = first[d]
    BY <1>3, <1>4, <2>2, MadeFacts
  <2>3. CASE Inside(m[d])
    <3>1. m[d].start \in Nat /\ m[d].len \in Nat
      BY <1>3, MapFacts
    <3> QED
      BY <1>3, <2>3, <3>1 DEF Inside, Apart, Overlap
  <2> QED
    BY <2>1, <2>2, <2>3
<1> QED
  BY <1>2, <1>4

(* What is not given out anew lies in front of or behind the pool.          *)
LEMMA RestApart ==
  ASSUME TypeOK, Convertible, NEW m, Sized(m), Good(m), Contiguous(m), Disjoint(m),
         NEW d \in 9..Len(first), ~(d = LastPart(m) /\ Fixes(m))
  PROVE  PoolTop(m) <= m[d].start \/ m[d].start + m[d].len <= m[2].start
<1> DEFINE k == LastPart(m)
<1>1. /\ Map(m) /\ Len(m) = Len(first) /\ Fits(m) /\ Len(first) \in Nat
      /\ d \in 1..Len(m) /\ \A c \in 2..8 : c \in 1..Len(m)
      /\ k \in 1..Len(m)
  BY GoodPool, GoodLast, MadeFacts DEF Sized
<1>2. m[d] \in Entry /\ m[d].start \in Nat /\ m[d].len \in Nat /\ m[d].len > 0
  <2>1. m[d] = first[d] \/ m[d].len > 0
    BY DEF Good
  <2>2. m[d] \in Entry /\ m[d].start \in Nat /\ m[d].len \in Nat
    BY <1>1, MapFacts
  <2>3. first[d].len > 0
    BY <1>1, MadeFacts
  <2> QED
    BY <2>1, <2>2, <2>3
<1>3. \A c \in 2..8 : ~Overlap(m[d], m[c])
  BY <1>1 DEF Disjoint
<1>4. m[d].start >= PoolEnd(m) \/ m[d].start + m[d].len <= m[2].start
  BY <1>1, <1>2, <1>3, ChainOutside DEF Fits
<1>5. PoolEnd(m) \in Nat /\ m[2].start \in Nat
  <2>1. PoolEnd(m) \in 0..(Word - 1)
    BY <1>1, PoolFacts DEF Fits
  <2> QED
    BY <1>1, <2>1, EightFacts, WidthAssumption
<1>6. CASE LastInPool(m)
  <2>1. d # k
    BY <1>6 DEF Fixes
  <2>2. ~Overlap(m[d], m[k])
    BY <1>1, <2>1 DEF Disjoint
  <2>3. /\ m[k].start = PoolEnd(m) /\ PoolTop(m) = PoolEnd(m) + m[k].len
        /\ m[k].len \in Nat
    BY <1>1, <1>6, GoodPool, MapFacts
  <2> HIDE DEF k
  <2>4. m[d].start >= PoolTop(m) \/ PoolEnd(m) >= m[d].start + m[d].len
    BY <1>2, <1>5, <2>2, <2>3 DEF Overlap
  <2> QED
    BY <1>2, <1>4, <1>5, <2>3, <2>4
<1>7. CASE ~LastInPool(m)
  <2>1. PoolTop(m) = PoolEnd(m) + 0
    BY <1>7 DEF PoolTop
  <2> QED
    BY <1>2, <1>4, <1>5, <2>1
<1> QED
  BY <1>6, <1>7

(* The partitions that are given out anew lie in the pool, and do not       *)
(* overlap one another.                                                     *)
GivenOut(m) == {c \in 1..Len(m) : c <= 8 \/ (c = LastPart(m) /\ Fixes(m))}

LEMMA GivenOutApart ==
  ASSUME TypeOK, Convertible, NEW m, Sized(m), Good(m), Contiguous(m),
         NEW mega \in Nat, EnoughRoom(m, SwapBlocks(mega)),
         NEW C, C = Consolidated(m, SwapBlocks(mega))
  PROVE  /\ \A c \in GivenOut(m) : /\ C[c].start \in Nat /\ C[c].len \in Nat
                                   /\ m[2].start <= C[c].start
                                   /\ C[c].start + C[c].len <= PoolTop(m)
         /\ Fixes(m) => /\ LastPart(m) \in GivenOut(m) \cap 9..Len(m)
                        /\ C[LastPart(m)].start = m[2].start
                        /\ C[LastPart(m)].start + C[LastPart(m)].len = Base(m)
         /\ \A c, d \in GivenOut(m) : c # d => ~Overlap(C[c], C[d])
<1> DEFINE k == LastPart(m)
<1>1. /\ Fits(m) /\ PoolTop(m) \in Nat /\ Map(m) /\ Len(m) = Len(first)
      /\ Len(m) \in Nat /\ m[2].start \in Nat
      /\ k # 1 => k \in 9..Len(m)
  BY GoodPool, GoodLast, EightFacts, MadeFacts DEF Sized
<1>2. /\ \A c \in 1..8 : /\ C[c].start \in Nat /\ C[c].len \in Nat
                         /\ m[2].start <= C[c].start /\ Base(m) <= C[c].start
                         /\ C[c].start + C[c].len <= PoolTop(m)
      /\ \A c, d \in 1..8 : c # d => ~Overlap(C[c], C[d])
  BY <1>1, NewApart
<1>3. Base(m) \in Nat /\ Base(m) <= PoolTop(m)
  <2>1. Base(m) \in Nat /\ C[2].start = Base(m)
    BY <1>1, NewFacts
  <2>2. 2 \in 1..8
    OBVIOUS
  <2>3. C[2].start + C[2].len <= PoolTop(m) /\ C[2].len \in Nat
    BY <1>2, <2>2
  <2> QED
    BY <1>1, <2>1, <2>3
<1>4. Fixes(m) => /\ k \in 9..Len(m) /\ C[k].start = m[2].start /\ C[k].len = FixFree
                  /\ FixFree \in Nat /\ C[k].start + C[k].len = Base(m)
  <2> HAVE Fixes(m)
  <2>1. k \in 9..Len(m)
    BY <1>1 DEF Fixes
  <2>2. NewEntries(C, m, SwapBlocks(mega))
    BY <1>1, SwapFacts, ConsolidatedFacts DEF Fits
  <2>3. C[k].start = m[2].start /\ C[k].len = FixFree
    BY <2>1, <2>2 DEF NewEntries
  <2>4. Base(m) = m[2].start + FixFree
    BY DEF Base
  <2> QED
    BY <2>1, <2>3, <2>4, WidthAssumption
<1>5. \A c \in GivenOut(m) : c \in 1..8 \/ (c = k /\ Fixes(m) /\ c \notin 1..8)
  BY <1>1, <1>4 DEF GivenOut
<1> HIDE DEF k
<1>6. \A c \in GivenOut(m) : /\ C[c].start \in Nat /\ C[c].len \in Nat
                             /\ m[2].start <= C[c].start
                             /\ C[c].start + C[c].len <= PoolTop(m)
  <2> TAKE c \in GivenOut(m)
  <2>1. CASE c \in 1..8
    BY <1>2, <2>1
  <2>2. CASE c = k /\ Fixes(m)
    BY <1>1, <1>3, <1>4, <2>2
  <2> QED
    BY <1>5, <2>1, <2>2
<1>7. Fixes(m) => \A c \in 1..8 : ~Overlap(C[c], C[k]) /\ ~Overlap(C[k], C[c])
  <2> SUFFICES ASSUME Fixes(m), NEW c \in 1..8
               PROVE  ~Overlap(C[c], C[k]) /\ ~Overlap(C[k], C[c])
    OBVIOUS
  <2>1. C[c].start \in Nat /\ C[c].len \in Nat /\ Base(m) <= C[c].start
    BY <1>2
  <2> QED
    BY <1>1, <1>3, <1>4, <2>1 DEF Overlap
<1>8. \A c, d \in GivenOut(m) : c # d => ~Overlap(C[c], C[d])
  BY <1>2, <1>5, <1>7
<1>9. Fixes(m) => k \in GivenOut(m) \cap 9..Len(m)
  BY <1>1, <1>4 DEF GivenOut, k
<1> QED
  BY <1>4, <1>6, <1>8, <1>9 DEF k

(* Where no two partitions overlapped, none do when it is consolidated.     *)
LEMMA DisjointConsolidated ==
  ASSUME TypeOK, Convertible, NEW m, Sized(m), Good(m), Contiguous(m), Disjoint(m),
         NEW mega \in Nat, EnoughRoom(m, SwapBlocks(mega)),
         NEW C, C = Consolidated(m, SwapBlocks(mega))
  PROVE  Disjoint(C)
<1>1. /\ Fits(m) /\ PoolTop(m) \in Nat /\ Map(m) /\ Len(m) = Len(first)
      /\ Len(m) \in Nat /\ m[2].start \in Nat
  BY GoodPool, EightFacts, MadeFacts DEF Sized
<1>2. NewEntries(C, m, SwapBlocks(mega))
  BY <1>1, SwapFacts, ConsolidatedFacts DEF Fits
<1>3. Len(C) = Len(m)
  BY <1>2 DEF NewEntries
<1>4. \A d \in 1..Len(m) : d \notin GivenOut(m) =>
        /\ C[d] = m[d] /\ m[d].start \in Nat /\ m[d].len \in Nat
        /\ PoolTop(m) <= m[d].start \/ m[d].start + m[d].len <= m[2].start
  <2> SUFFICES ASSUME NEW d \in 1..Len(m), d \notin GivenOut(m)
               PROVE  /\ C[d] = m[d] /\ m[d].start \in Nat /\ m[d].len \in Nat
                      /\ PoolTop(m) <= m[d].start \/ m[d].start + m[d].len <= m[2].start
    OBVIOUS
  <2>1. d \in 9..Len(m) /\ ~(d = LastPart(m) /\ Fixes(m))
    BY <1>1 DEF GivenOut
  <2>2. C[d] = m[d]
    BY <1>2, <2>1 DEF NewEntries
  <2>3. m[d].start \in Nat /\ m[d].len \in Nat
    BY <1>1, MapFacts
  <2>4. PoolTop(m) <= m[d].start \/ m[d].start + m[d].len <= m[2].start
    BY <1>1, <2>1, RestApart
  <2> QED
    BY <2>2, <2>3, <2>4
<1>5. \A c \in GivenOut(m) : /\ C[c].start \in Nat /\ C[c].len \in Nat
                             /\ m[2].start <= C[c].start
                             /\ C[c].start + C[c].len <= PoolTop(m)
  BY GivenOutApart
<1>6. \A c, d \in GivenOut(m) : c # d => ~Overlap(C[c], C[d])
  BY GivenOutApart
<1>7. ASSUME NEW c \in GivenOut(m), NEW d \in 1..Len(m), d \notin GivenOut(m)
      PROVE  ~Overlap(C[c], C[d]) /\ ~Overlap(C[d], C[c])
  <2>1. /\ C[c].start \in Nat /\ C[c].len \in Nat /\ m[2].start <= C[c].start
        /\ C[c].start + C[c].len <= PoolTop(m)
    BY <1>5
  <2>2. /\ C[d].start \in Nat /\ C[d].len \in Nat
        /\ PoolTop(m) <= C[d].start \/ C[d].start + C[d].len <= m[2].start
    BY <1>4, <1>7
  <2>3. C[c].start + C[c].len <= C[d].start \/ C[d].start + C[d].len <= C[c].start
    <3>1. PoolTop(m) \in Nat /\ m[2].start \in Nat
      BY <1>1
    <3> QED
      BY ONLY <2>1, <2>2, <3>1
  <2> QED
    BY <2>1, <2>2, <2>3 DEF Overlap
<1>8. ASSUME NEW c \in 1..Len(m), NEW d \in 1..Len(m), c # d
      PROVE  ~Overlap(C[c], C[d])
  <2>1. CASE c \in GivenOut(m) /\ d \in GivenOut(m)
    BY <1>6, <1>8, <2>1
  <2>2. CASE c \in GivenOut(m) /\ d \notin GivenOut(m)
    BY <1>7, <2>2
  <2>3. CASE c \notin GivenOut(m) /\ d \in GivenOut(m)
    BY <1>7, <2>3
  <2>4. CASE c \notin GivenOut(m) /\ d \notin GivenOut(m)
    BY <1>4, <1>8, <2>4 DEF Disjoint
  <2> QED
    BY <2>1, <2>2, <2>3, <2>4
<1> QED
  BY <1>3, <1>8 DEF Disjoint

(* Partitions in a row cover every block from the first to the last.        *)
LEMMA RowCovers ==
  ASSUME NEW s, \A c \in 2..8 : s[c].start \in Nat /\ s[c].len \in Nat,
         \A c \in 2..7 : s[c + 1].start = s[c].start + s[c].len,
         NEW x \in Int, s[2].start <= x, x < s[8].start + s[8].len
  PROVE  \E c \in 2..8 : x \in Blocks(s[c])
<1>1. /\ s[3].start = s[2].start + s[2].len
      /\ s[4].start = s[3].start + s[3].len
      /\ s[5].start = s[4].start + s[4].len
      /\ s[6].start = s[5].start + s[5].len
      /\ s[7].start = s[6].start + s[6].len
      /\ s[8].start = s[7].start + s[7].len
  <2>1. /\ 2 + 1 = 3 /\ 3 + 1 = 4 /\ 4 + 1 = 5 /\ 5 + 1 = 6 /\ 6 + 1 = 7 /\ 7 + 1 = 8
        /\ 2 \in 2..7 /\ 3 \in 2..7 /\ 4 \in 2..7 /\ 5 \in 2..7 /\ 6 \in 2..7 /\ 7 \in 2..7
    OBVIOUS
  <2> QED
    BY <2>1
<1>2. \A c \in 2..8 : s[c].start <= x /\ x < s[c].start + s[c].len => x \in Blocks(s[c])
  BY DEF Blocks
<1>3. /\ 2 \in 2..8 /\ 3 \in 2..8 /\ 4 \in 2..8 /\ 5 \in 2..8 /\ 6 \in 2..8 /\ 7 \in 2..8
      /\ 8 \in 2..8
  OBVIOUS
<1>4. \/ s[2].start <= x /\ x < s[2].start + s[2].len
      \/ s[3].start <= x /\ x < s[3].start + s[3].len
      \/ s[4].start <= x /\ x < s[4].start + s[4].len
      \/ s[5].start <= x /\ x < s[5].start + s[5].len
      \/ s[6].start <= x /\ x < s[6].start + s[6].len
      \/ s[7].start <= x /\ x < s[7].start + s[7].len
      \/ s[8].start <= x /\ x < s[8].start + s[8].len
  BY <1>1, <1>3
<1> QED
  BY <1>2, <1>3, <1>4

(* What is taken is every block from the first of the pool to its last,     *)
LEMMA PoolIsRow ==
  ASSUME TypeOK, Convertible, NEW m, Sized(m), Good(m), Contiguous(m)
  PROVE  Pool(m) = m[2].start..(PoolTop(m) - 1)
<1> DEFINE k == LastPart(m)
           T == 2..8 \cup (IF LastInPool(m) THEN {k} ELSE {})
<1>1. /\ Fits(m) /\ Map(m) /\ PoolTop(m) \in Nat /\ m[2].start \in Nat
      /\ LastInPool(m) => m[k].start = PoolEnd(m) /\ PoolTop(m) = PoolEnd(m) + m[k].len
      /\ m[k].start \in Nat /\ m[k].len \in Nat
  <2>1. k \in 1..Len(m) /\ Map(m)
    BY GoodLast DEF Sized
  <2> QED
    BY <2>1, GoodPool, EightFacts, MapFacts
<1>2. \A c \in 2..8 : m[c].start \in Nat /\ m[c].len \in Nat
  <2> TAKE c \in 2..8
  <2>1. c \in 1..8
    OBVIOUS
  <2> QED
    BY <1>1, <2>1, EightFacts
<1>3. /\ \A c \in 3..8 : m[c].start = m[c - 1].start + m[c - 1].len
      /\ PoolEnd(m) = m[8].start + m[8].len
      /\ \A c \in 2..8 : m[2].start <= m[c].start /\ m[c].start + m[c].len <= PoolEnd(m)
  BY <1>1, ChainFacts DEF Fits
<1>4. \A c \in 2..7 : m[c + 1].start = m[c].start + m[c].len
  <2> TAKE c \in 2..7
  <2>1. c + 1 \in 3..8 /\ (c + 1) - 1 = c
    OBVIOUS
  <2> QED
    BY <1>3, <2>1
<1>5. PoolEnd(m) \in Nat /\ PoolEnd(m) <= PoolTop(m) /\ m[2].start <= PoolEnd(m)
      /\ (~LastInPool(m) => PoolTop(m) = PoolEnd(m))
  <2>1. 8 \in 2..8
    OBVIOUS
  <2>2. PoolEnd(m) \in Nat /\ m[2].start <= PoolEnd(m)
    <3>1. m[8].start \in Nat /\ m[8].len \in Nat /\ m[2].start <= m[8].start
      BY <1>2, <1>3, <2>1
    <3> QED
      BY <1>1, <1>3, <3>1
  <2>3. ~LastInPool(m) => PoolTop(m) = PoolEnd(m) + 0
    BY DEF PoolTop
  <2> QED
    BY <1>1, <2>2, <2>3
<1>6. Pool(m) = UNION {Blocks(m[c]) : c \in T}
  BY DEF Pool
<1>7. \A x : x \in UNION {Blocks(m[c]) : c \in T} <=> \E c \in T : x \in Blocks(m[c])
  <2> HIDE DEF T, Blocks
  <2> QED
    OBVIOUS
<1> HIDE DEF k
<1>8. ASSUME NEW c \in T, NEW x \in Blocks(m[c]) PROVE x \in m[2].start..(PoolTop(m) - 1)
  <2>1. CASE c \in 2..8
    <3>1. /\ m[c].start \in Nat /\ m[c].len \in Nat /\ m[2].start <= m[c].start
          /\ m[c].start + m[c].len <= PoolEnd(m)
      BY <1>2, <1>3, <2>1
    <3>2. x \in m[c].start..(m[c].start + m[c].len - 1)
      BY <1>8 DEF Blocks
    <3> QED
      BY <1>1, <1>5, <3>1, <3>2
  <2>2. CASE c \notin 2..8
    <3>1. LastInPool(m) /\ c = k
      BY <2>2
    <3>2. x \in m[k].start..(m[k].start + m[k].len - 1)
      BY <1>8, <3>1 DEF Blocks
    <3> QED
      BY <1>1, <1>5, <3>1, <3>2
  <2> QED
    BY <2>1, <2>2
<1>9. ASSUME NEW x \in m[2].start..(PoolTop(m) - 1) PROVE \E c \in T : x \in Blocks(m[c])
  <2>1. x \in Int /\ m[2].start <= x /\ x < PoolTop(m)
    BY <1>1
  <2>2. CASE x < PoolEnd(m)
    <3>1. \E c \in 2..8 : x \in Blocks(m[c])
      BY <1>2, <1>3, <1>4, <2>1, <2>2, RowCovers
    <3> QED
      BY <3>1
  <2>3. CASE ~(x < PoolEnd(m))
    <3>1. LastInPool(m)
      BY <1>1, <1>5, <2>1, <2>3
    <3>2. k \in T /\ x \in Blocks(m[k])
      BY <1>1, <1>5, <2>1, <2>3, <3>1 DEF Blocks
    <3> QED
      BY <3>2
  <2> QED
    BY <2>2, <2>3
<1> HIDE DEF T
<1> QED
  BY <1>6, <1>7, <1>8, <1>9

(* and so is what is given out.                                             *)
LEMMA GivenOutIsRow ==
  ASSUME TypeOK, Convertible, NEW m, Sized(m), Good(m), Contiguous(m),
         NEW mega \in Nat, EnoughRoom(m, SwapBlocks(mega)),
         NEW C, C = Consolidated(m, SwapBlocks(mega))
  PROVE  UNION {Blocks(C[c]) : c \in GivenOut(m)} = m[2].start..(PoolTop(m) - 1)
<1> DEFINE k == LastPart(m)
           G == GivenOut(m)
<1>0. Fits(m)
  BY GoodPool, Zenon
<1>1. /\ Fits(m) /\ Map(m) /\ PoolTop(m) \in Nat /\ m[2].start \in Nat
      /\ \A c \in 1..8 : c \in G
  <2>1. Map(m) /\ Len(m) = Len(first)
    BY DEF Sized
  <2>2. \A c \in 1..8 : c \in 1..Len(m) /\ c <= 8
    BY <2>1, MapFacts
  <2> QED
    BY <2>1, <2>2, GoodPool, EightFacts DEF GivenOut
<1>2. /\ Base(m) \in Nat /\ C[2].start = Base(m)
      /\ C[1].start = C[8].start + C[8].len /\ C[1].start + C[1].len = PoolTop(m)
  BY <1>0, NewFacts
<1>3. \A c \in 2..7 : C[c + 1].start = C[c].start + C[c].len
  BY <1>0, NewFacts
<1>4. \A c \in 1..8 : C[c].start \in Nat /\ C[c].len \in Nat
  BY <1>1, NewApart
<1>5. \A c \in G : /\ C[c].start \in Nat /\ C[c].len \in Nat
                   /\ m[2].start <= C[c].start /\ C[c].start + C[c].len <= PoolTop(m)
  BY GivenOutApart
<1>6. IF Fixes(m) THEN /\ k \in G /\ C[k].start = m[2].start
                       /\ C[k].start + C[k].len = Base(m)
                  ELSE m[2].start = Base(m)
  <2>1. CASE Fixes(m)
    BY <2>1, GivenOutApart
  <2>2. CASE ~Fixes(m)
    <3>1. Base(m) = m[2].start + 0
      BY <2>2 DEF Base
    <3> QED
      BY <1>1, <2>2, <3>1
  <2> QED
    BY <2>1, <2>2
<1>7. \A x : x \in UNION {Blocks(C[c]) : c \in G} <=> \E c \in G : x \in Blocks(C[c])
  <2> HIDE DEF G, Blocks
  <2> QED
    OBVIOUS
<1> HIDE DEF k, G
<1>8. ASSUME NEW c \in G, NEW x \in Blocks(C[c]) PROVE x \in m[2].start..(PoolTop(m) - 1)
  <2>1. /\ C[c].start \in Nat /\ C[c].len \in Nat
        /\ m[2].start <= C[c].start /\ C[c].start + C[c].len <= PoolTop(m)
    BY <1>5
  <2>2. x \in C[c].start..(C[c].start + C[c].len - 1)
    BY <1>8 DEF Blocks
  <2> QED
    BY <1>1, <2>1, <2>2
<1>9. ASSUME NEW x \in m[2].start..(PoolTop(m) - 1) PROVE \E c \in G : x \in Blocks(C[c])
  <2>1. x \in Int /\ m[2].start <= x /\ x < PoolTop(m)
    BY <1>1
  <2>2. 1 \in 1..8 /\ 8 \in 1..8 /\ \A c \in 2..8 : c \in 1..8
    OBVIOUS
  <2>3. C[1].start \in Nat /\ C[1].len \in Nat /\ C[8].start \in Nat /\ C[8].len \in Nat
    BY <1>4, <2>2
  <2>4. CASE x < Base(m)
    <3>1. Fixes(m)
      BY <1>1, <1>2, <1>6, <2>1, <2>4
    <3>2. k \in G /\ C[k].start = m[2].start /\ C[k].start + C[k].len = Base(m)
          /\ C[k].start \in Nat /\ C[k].len \in Nat
      BY <1>5, <1>6, <3>1
    <3>3. x \in Blocks(C[k])
      BY <1>1, <1>2, <2>1, <2>4, <3>2 DEF Blocks
    <3> QED
      BY <3>2, <3>3
  <2>5. CASE Base(m) <= x /\ x < C[8].start + C[8].len
    <3>1. \A c \in 2..8 : C[c].start \in Nat /\ C[c].len \in Nat
      BY <1>4, <2>2
    <3>2. \E c \in 2..8 : x \in Blocks(C[c])
      BY <1>2, <1>3, <2>1, <2>5, <3>1, RowCovers
    <3> QED
      BY <1>1, <2>2, <3>2
  <2>6. CASE C[8].start + C[8].len <= x
    <3>1. x \in Blocks(C[1])
      BY <1>1, <1>2, <2>1, <2>3, <2>6 DEF Blocks
    <3> QED
      BY <1>1, <2>2, <3>1
  <2> QED
    BY <1>2, <2>1, <2>3, <2>4, <2>5, <2>6
<1> QED
  BY <1>7, <1>8, <1>9 DEF G

-----------------------------------------------------------------------------
(* The drive as long as -f was not used: what is on it is good, and so is   *)
(* what is being written; without a fault, no two partitions overlap when   *)
(* nothing is being written.                                                *)
Undisturbed ==
  IF tool.at = "write"
  THEN Disjoint(tool.map) /\ \A c \in 1..(tool.k - 1) : disk[c] = tool.map[c]
  ELSE Disjoint(disk)

Writing ==
  tool.at = "write" => /\ Good(tool.map) /\ Good(tool.old)
                       /\ Sound(tool.old, SwapBlocks(tool.mega))

Intact ==
  ~forced => IF Convertible THEN Good(disk) /\ Writing /\ (faults = 0 => Undisturbed)
             ELSE disk = first /\ tool.at # "write"

DInv == KInv /\ Intact

LEMMA SameFirst ==
  ASSUME first' = first
  PROVE  /\ Convertible' <=> Convertible
         /\ Good(disk)' <=> Good(disk')
         /\ Good(tool.map)' <=> Good(tool'.map)
         /\ Good(tool.old)' <=> Good(tool'.old)
<1>1. Lo' = Lo /\ Hi' = Hi
  BY DEF Lo, Hi
<1>2. \A c : Taken(c)' <=> Taken(c)
  BY DEF Taken
<1>3. Convertible' <=> Convertible
  BY DEF Convertible
<1> QED
  BY <1>1, <1>2, <1>3 DEF Good, Inside

(* Nothing is written.                                                      *)
LEMMA QuietIntact ==
  ASSUME Intact, UNCHANGED <<first, disk, forced>>, tool'.at # "write",
         faults' = 0 => faults = 0 /\ tool.at # "write"
  PROVE  Intact'
<1> SUFFICES ASSUME ~forced
             PROVE  IF Convertible' THEN Good(disk)' /\ Writing' /\ (faults' = 0 => Undisturbed')
                    ELSE disk' = first' /\ tool'.at # "write"
  BY DEF Intact
<1>1. CASE Convertible
  <2>1. Good(disk)' /\ Convertible'
    BY <1>1, SameFirst DEF Intact
  <2>2. Writing'
    BY DEF Writing
  <2>3. faults' = 0 => Undisturbed'
    BY <1>1 DEF Intact, Undisturbed
  <2> QED
    BY <2>1, <2>2, <2>3
<1>2. CASE ~Convertible
  <2>1. ~Convertible' /\ disk' = first'
    BY <1>2, SameFirst DEF Intact
  <2> QED
    BY <2>1
<1> QED
  BY <1>1, <1>2

LEMMA SameIntact ==
  ASSUME Intact, UNCHANGED <<first, disk, forced, tool, faults>>
  PROVE  Intact'
<1>1. CASE tool.at # "write"
  BY <1>1, QuietIntact
<1>2. CASE tool.at = "write"
  <2> SUFFICES ASSUME ~forced
               PROVE  IF Convertible' THEN Good(disk)' /\ Writing' /\ (faults' = 0 => Undisturbed')
                      ELSE disk' = first' /\ tool'.at # "write"
    BY DEF Intact
  <2>1. Convertible /\ Good(disk) /\ Writing /\ (faults = 0 => Undisturbed)
    BY <1>2 DEF Intact
  <2>2. Convertible' /\ Good(disk)' /\ Good(tool.map)' /\ Good(tool.old)'
    BY <1>2, <2>1, SameFirst DEF Writing
  <2>3. Writing'
    BY <1>2, <2>1, <2>2 DEF Writing
  <2>4. faults' = 0 => Undisturbed'
    BY <2>1 DEF Undisturbed
  <2> QED
    BY <2>2, <2>3, <2>4
<1> QED
  BY <1>1, <1>2

LEMMA ConsolidateIntact ==
  ASSUME DInv, NEW mega \in Swaps, NEW force \in BOOLEAN, Consolidate(mega, force)
  PROVE  Intact'
<1> DEFINE swap == SwapBlocks(mega)
           goes == LastPart(disk) # 0 /\ (Sound(disk, swap) \/ force)
           w == [at |-> "write", map |-> Consolidated(disk, swap), k |-> 1, old |-> disk,
                 mega |-> mega]
<1>1. /\ Idle /\ tool' = (IF goes THEN w ELSE Said(FALSE))
      /\ forced' = (forced \/ (goes /\ ~Sound(disk, swap)))
      /\ UNCHANGED <<first, disk, kern, used, flipped, faults>>
  BY DEF Consolidate
<1>2. Intact /\ TypeOK /\ tool.at # "write"
  BY <1>1 DEF DInv, KInv, Idle
<1>3. CASE ~goes
  <2>1. tool'.at # "write" /\ (forced' <=> forced)
    BY <1>1, <1>3, SaidFacts
  <2>2. forced' = forced
    <3>1. forced \in BOOLEAN /\ forced' \in BOOLEAN
      BY <1>1, <1>2 DEF TypeOK
    <3> QED
      BY <2>1, <3>1
  <2> QED
    BY <1>1, <1>2, <2>1, <2>2, QuietIntact
<1>4. CASE goes
  <2> SUFFICES ASSUME ~forced'
               PROVE  IF Convertible' THEN Good(disk)' /\ Writing' /\ (faults' = 0 => Undisturbed')
                      ELSE disk' = first' /\ tool'.at # "write"
    BY DEF Intact
  <2>1. ~forced /\ Sound(disk, swap) /\ LastPart(disk) # 0
    BY <1>1, <1>4
  <2>2. /\ w.at = "write" /\ w.map = Consolidated(disk, swap) /\ w.old = disk /\ w.k = 1
        /\ w.mega = mega
    OBVIOUS
  <2> HIDE DEF w
  <2>3. tool' = w
    BY <1>1, <1>4
  <2>4. Convertible
    <3>1. SUFFICES ASSUME ~Convertible PROVE FALSE
      OBVIOUS
    <3>2. disk = first
      BY <1>2, <2>1, <3>1 DEF Intact
    <3> QED
      BY <2>1, <3>1, <3>2 DEF Convertible, Sound
  <2>5. /\ Good(disk) /\ (faults = 0 => Disjoint(disk)) /\ Sized(disk) /\ mega \in Nat
        /\ Contiguous(disk) /\ EnoughRoom(disk, SwapBlocks(mega))
    BY <1>2, <2>1, <2>4, UseAssumption DEF Intact, Undisturbed, TypeOK, Sound
  <2>6. PICK C : C = Consolidated(disk, SwapBlocks(mega))
    OBVIOUS
  <2>7. Good(C)
    BY <1>2, <2>4, <2>5, <2>6, GoodConsolidated
  <2>8. faults = 0 => Disjoint(C)
    BY <1>2, <2>4, <2>5, <2>6, DisjointConsolidated
  <2>9. tool'.map = C /\ tool'.old = disk /\ tool'.mega = mega /\ tool'.k = 1 /\ tool'.at = "write"
    BY <2>2, <2>3, <2>6
  <2>10. Convertible' /\ Good(disk)' /\ Good(tool.map)' /\ Good(tool.old)'
    BY <1>1, <2>4, <2>5, <2>7, <2>9, SameFirst
  <2>11. Writing'
    BY <1>1, <2>1, <2>9, <2>10 DEF Writing
  <2>12. faults' = 0 => Undisturbed'
    <3>1. \A c \in 1..(tool'.k - 1) : FALSE
      BY <2>9
    <3> QED
      BY <1>1, <2>8, <2>9, <3>1 DEF Undisturbed
  <2> QED
    BY <2>10, <2>11, <2>12
<1> QED
  BY <1>3, <1>4

(* An entry is written, or not: what is on the drive is a mixture of two    *)
(* good maps.                                                               *)
LEMMA WriteIntact ==
  ASSUME DInv, WriteEntry \/ WriteFails
  PROVE  Intact'
<1>1. /\ tool.at = "write" /\ tool' = Written /\ UNCHANGED <<first, kern, used, flipped, forced>>
      /\ Intact /\ TypeOK /\ faults \in Nat
      /\ tool \in WriteTool /\ Sized(tool.map) /\ tool.k \in 1..Len(first)
      /\ Len(disk) = Len(first) /\ Len(tool.map) = Len(first)
  BY DEF WriteEntry, WriteFails, DInv, KInv, TypeOK, ToolOK, Sized
<1>2. SUFFICES ASSUME ~forced
               PROVE  IF Convertible' THEN Good(disk)' /\ Writing' /\ (faults' = 0 => Undisturbed')
                      ELSE disk' = first' /\ tool'.at # "write"
  BY <1>1 DEF Intact
<1>3. Convertible /\ Good(disk) /\ Writing /\ (faults = 0 => Undisturbed)
  BY <1>1, <1>2 DEF Intact
<1>4. Good(tool.map) /\ Good(tool.old) /\ Sound(tool.old, SwapBlocks(tool.mega))
  BY <1>1, <1>3 DEF Writing
<1>5. \/ tool'.at = "del"
      \/ /\ tool'.at = "write" /\ tool'.map = tool.map /\ tool'.old = tool.old
         /\ tool'.mega = tool.mega /\ tool'.k = tool.k + 1 /\ tool.k # Len(first)
  BY <1>1 DEF Written, WriteTool
<1>6. Convertible' /\ Writing'
  <2>1. CASE tool'.at = "del"
    BY <1>1, <1>3, <2>1, SameFirst DEF Writing
  <2>2. CASE tool'.at # "del"
    <3>1. Good(tool.map)' /\ Good(tool.old)'
      BY <1>1, <1>4, <1>5, <2>2, SameFirst
    <3> QED
      BY <1>1, <1>3, <1>4, <1>5, <2>2, <3>1, SameFirst DEF Writing
  <2> QED
    BY <2>1, <2>2
<1>7. CASE WriteFails
  <2>1. disk' = disk /\ faults' = faults + 1
    BY <1>7 DEF WriteFails
  <2>2. Good(disk)'
    BY <1>1, <1>3, <2>1, SameFirst
  <2>3. faults' # 0
    BY <1>1, <2>1
  <2> QED
    BY <1>6, <2>2, <2>3
<1>8. CASE WriteEntry
  <2>1. disk' = [disk EXCEPT ![tool.k] = tool.map[tool.k]] /\ faults' = faults
    BY <1>8 DEF WriteEntry
  <2>2. /\ Len(disk') = Len(first) /\ Len(first) \in Nat
        /\ \A c \in 1..Len(first) : disk'[c] = IF c = tool.k THEN tool.map[c] ELSE disk[c]
    BY <1>1, <2>1, EntryWritten, MadeFacts DEF Sized
  <2>3. \A c \in 1..Len(first) : disk'[c] = tool.map[c] \/ disk'[c] = disk[c]
    BY <2>2
  <2>4. Good(disk')
    <3>1. /\ \A c \in 1..8 : c \in 1..Len(first)
          /\ \A c \in 9..Len(first) : c \in 1..Len(first)
      BY <1>1, MadeFacts
    <3>2. disk'[1] = first[1] \/ (Inside(disk'[1]) /\ disk'[1].name = "Main root")
      <4>1. 1 \in 1..Len(first)
        BY <3>1
      <4> QED
        BY <1>3, <1>4, <2>3, <4>1 DEF Good
    <3>3. \A c \in 2..8 : Inside(disk'[c]) /\ disk'[c].name \notin RootNames
      <4> TAKE c \in 2..8
      <4>1. c \in 1..Len(first)
        BY <3>1
      <4> QED
        BY <1>3, <1>4, <2>3, <4>1 DEF Good
    <3>4. \A c \in 9..Len(first) :
            disk'[c] = first[c]
              \/ (Taken(c) /\ Inside(disk'[c]) /\ disk'[c].name \in RootNames /\ disk'[c].len > 0)
      <4> TAKE c \in 9..Len(first)
      <4>1. c \in 1..Len(first)
        BY <3>1
      <4> QED
        BY <1>3, <1>4, <2>3, <4>1 DEF Good
    <3> QED
      BY <3>2, <3>3, <3>4 DEF Good
  <2>5. Good(disk)'
    BY <1>1, <2>4, SameFirst
  <2>6. faults' = 0 => Undisturbed'
    <3> HAVE faults' = 0
    <3>1. Disjoint(tool.map) /\ \A c \in 1..(tool.k - 1) : disk[c] = tool.map[c]
      BY <1>1, <1>3, <2>1 DEF Undisturbed
    <3>2. \A c \in 1..tool.k : disk'[c] = tool.map[c]
      <4> TAKE c \in 1..tool.k
      <4>1. c \in 1..Len(first) /\ (c = tool.k \/ c \in 1..(tool.k - 1))
        BY <1>1, <2>2
      <4> QED
        BY <2>2, <3>1, <4>1
    <3>3. CASE tool'.at = "write"
      <4>1. tool'.map = tool.map /\ tool'.k - 1 = tool.k
        BY <1>1, <1>5, <2>2, <3>3
      <4> QED
        BY <3>1, <3>2, <3>3, <4>1 DEF Undisturbed
    <3>4. CASE tool'.at # "write"
      <4>1. tool.k = Len(first)
        BY <1>1, <3>4 DEF Written, WriteTool
      <4>2. \A c \in 1..Len(first) : disk'[c] = tool.map[c]
        BY <3>2, <4>1
      <4>3. Disjoint(disk')
        BY <1>1, <2>2, <3>1, <4>2 DEF Disjoint
      <4> QED
        BY <3>4, <4>3 DEF Undisturbed
    <3> QED
      BY <3>3, <3>4
  <2> QED
    BY <1>6, <2>5, <2>6
<1> QED
  BY <1>7, <1>8

LEMMA InitDrive == Init => DInv
<1> SUFFICES ASSUME Init PROVE DInv
  OBVIOUS
<1>1. KInv
  BY InitKernel
<1>2. TypeOK /\ disk = first /\ tool.at = "off"
  BY <1>1, SaidFacts DEF KInv, Init
<1>3. Disjoint(disk)
  BY <1>2, MadeFacts DEF AsMade
<1>4. Convertible => Good(disk)
  BY <1>2, FirstIsGood
<1> QED
  BY <1>1, <1>2, <1>3, <1>4 DEF DInv, Intact, Writing, Undisturbed

LEMMA NextDrive == DInv /\ [Next]_vars => DInv'
<1> SUFFICES ASSUME DInv, [Next]_vars PROVE DInv'
  OBVIOUS
<1>1. KInv' /\ KInv /\ Intact /\ TypeOK
  BY NextKernel DEF DInv, KInv
<1>2. CASE \E mega \in Swaps, force \in BOOLEAN : Consolidate(mega, force)
  BY <1>1, <1>2, ConsolidateIntact DEF DInv
<1>3. CASE WriteEntry \/ WriteFails
  BY <1>1, <1>3, WriteIntact DEF DInv
<1>4. CASE Revalidate
  <2>1. UNCHANGED <<first, disk, forced, faults>> /\ tool'.at # "write" /\ tool.at # "write"
    BY <1>4 DEF Revalidate, Idle
  <2> QED
    BY <1>1, <2>1, QuietIntact DEF DInv
<1>5. CASE DelPart
  <2>1. /\ UNCHANGED <<first, disk, forced, faults>> /\ tool.at = "del" /\ tool \in DelTool
        /\ tool' = IF tool.k = NPart THEN [at |-> "add", map |-> tool.map, k |-> 1, ok |-> TRUE]
                   ELSE [tool EXCEPT !.k = @ + 1]
    BY <1>1, <1>5 DEF DelPart, TypeOK, ToolOK
  <2>2. tool'.at # "write"
    BY <2>1 DEF DelTool
  <2> QED
    BY <1>1, <2>1, <2>2, QuietIntact DEF DInv
<1>6. CASE AddPart
  <2>1. UNCHANGED <<first, disk, forced, faults>> /\ tool.at = "add"
    BY <1>6 DEF AddPart
  <2>2. tool'.at # "write"
    <3>1. tool.k = NPart => tool' = [at |-> "said", ok |-> AddOK, map |-> tool.map]
      BY <1>1, <1>6, AddFacts
    <3>2. tool.k # NPart => tool'.at = "add"
      BY <1>1, <1>6, AddFacts
    <3> HIDE DEF AddOK
    <3> QED
      BY <3>1, <3>2
  <2> QED
    BY <1>1, <2>1, <2>2, QuietIntact DEF DInv
<1>7. CASE \E part \in Tried : Test(part)
  <2>1. PICK part \in Tried : Test(part)
    BY <1>7
  <2>2. UNCHANGED <<first, disk, forced, faults>> /\ tool.at # "write"
    BY <2>1 DEF Test, Idle
  <2>3. \/ tool' = Said(FALSE)
        \/ tool' = [at |-> "test", part |-> part, pass |-> 0, block |-> disk[part].start]
    BY <2>1 DEF Test
  <2>4. tool'.at # "write"
    BY <2>3 DEF Said
  <2> QED
    BY <1>1, <2>2, <2>4, QuietIntact DEF DInv
<1>8. CASE \E same \in BOOLEAN : FirstPass(same)
  <2>1. PICK same \in BOOLEAN : FirstPass(same)
    BY <1>8
  <2>2. UNCHANGED <<first, disk, forced, faults>> /\ tool.at = "test" /\ tool \in TestTool
    BY <1>1, <2>1 DEF FirstPass, TypeOK, ToolOK
  <2>3. tool' = Said(FALSE) \/ tool' = [tool EXCEPT !.pass = 1]
    BY <2>1 DEF FirstPass
  <2>4. tool'.at # "write"
    BY <2>2, <2>3, SaidFacts DEF TestTool
  <2> QED
    BY <1>1, <2>2, <2>4, QuietIntact DEF DInv
<1>9. CASE SecondPass
  <2>1. UNCHANGED <<first, disk, forced, faults>> /\ tool.at # "write"
    BY <1>9 DEF SecondPass
  <2>2. tool' = [at |-> "said", ok |-> SecondAgrees, part |-> tool.part, block |-> tool.block]
    BY <1>9 DEF SecondPass
  <2>3. tool'.at # "write"
    <3> HIDE DEF SecondAgrees
    <3> QED
      BY <2>2
  <2> QED
    BY <1>1, <2>1, <2>3, QuietIntact DEF DInv
<1>10. CASE TestFails \/ Stop
  <2>1. /\ UNCHANGED <<first, disk, forced>> /\ faults' = faults + 1 /\ faults \in Nat
        /\ tool' = Said(FALSE) \/ tool' = Off
    BY <1>1, <1>10 DEF TestFails, Stop, TypeOK
  <2>2. tool'.at # "write"
    BY <2>1 DEF Said, Off
  <2>3. faults' # 0
    BY <2>1
  <2> QED
    BY <1>1, <2>1, <2>2, <2>3, QuietIntact DEF DInv
<1>11. CASE (\E c \in InUse : Mount(c)) \/ (\E c \in InUse : Unmount(c))
  <2>1. UNCHANGED <<first, disk, forced, tool, faults>>
    BY <1>11 DEF Mount, Unmount
  <2> QED
    BY <1>1, <2>1, SameIntact DEF DInv
<1>12. CASE Reboot
  <2>1. UNCHANGED <<first, disk, forced, faults>> /\ tool'.at # "write" /\ tool.at # "write"
    BY <1>12, SaidFacts DEF Reboot, Idle
  <2> QED
    BY <1>1, <2>1, QuietIntact DEF DInv
<1>13. CASE UNCHANGED vars
  <2>1. UNCHANGED <<first, disk, forced, tool, faults>>
    BY <1>13 DEF vars
  <2> QED
    BY <1>1, <2>1, SameIntact DEF DInv
<1> QED
  BY <1>2, <1>3, <1>4, <1>5, <1>6, <1>7, <1>8, <1>9, <1>10, <1>11, <1>12, <1>13 DEF Next

LEMMA DriveIntact ==
  ASSUME DInv
  PROVE  MfsIntact
<1>1. /\ TypeOK /\ Intact /\ Sized(disk) /\ Len(disk) = Len(first)
  BY DEF DInv, KInv, TypeOK, Sized
<1> SUFFICES ASSUME ~forced
             PROVE  /\ \A c \in Others : /\ disk[c] = first[c]
                                         /\ \A d \in 1..Len(disk) : d # c => ~Overlap(disk[d], disk[c])
                    /\ faults = 0 /\ tool.at # "write" => Disjoint(disk)
  BY DEF MfsIntact
<1>2. CASE Convertible
  <2>1. Good(disk) /\ (faults = 0 => Undisturbed)
    BY <1>1, <1>2 DEF Intact
  <2>2. \A c \in Others : /\ disk[c] = first[c]
                          /\ \A d \in 1..Len(disk) : d # c => ~Overlap(disk[d], disk[c])
    BY <1>1, <1>2, <2>1, GoodApart
  <2> QED
    BY <2>1, <2>2 DEF Undisturbed
<1>3. CASE ~Convertible
  <2>1. disk = first
    BY <1>1, <1>3 DEF Intact
  <2>2. \A c \in Others : c \in 1..Len(first)
    BY <1>1, MadeFacts DEF Others
  <2>3. \A c, d \in 1..Len(first) : d # c => ~Overlap(first[d], first[c])
    BY <1>1, MadeFacts
  <2>4. Disjoint(first)
    BY <1>1, MadeFacts DEF AsMade
  <2> QED
    BY <2>1, <2>2, <2>3, <2>4
<1> QED
  BY <1>2, <1>3

LEMMA DriveGivenOut ==
  ASSUME DInv
  PROVE  PoolGivenOut
<1> SUFFICES ASSUME tool.at = "write", ~forced
             PROVE  LET new == {c \in 1..Len(disk) : c <= 8 \/ (c = LastPart(tool.old) /\ Fixes(tool.old))}
                    IN  /\ UNION {Blocks(tool.map[c]) : c \in new} = Pool(tool.old)
                        /\ \A c, d \in new : c # d => ~Overlap(tool.map[c], tool.map[d])
                        /\ tool.mega * Mega < Word => tool.map[8].len = (tool.mega * Mega) \div Block
  BY DEF PoolGivenOut
<1>1. /\ TypeOK /\ Intact /\ Len(disk) = Len(first) /\ Sized(tool.old)
      /\ LastPart(tool.old) # 0 /\ tool \in WriteTool
      /\ tool.map = Consolidated(tool.old, SwapBlocks(tool.mega))
  BY DEF DInv, KInv, TypeOK, ToolOK, Sized
<1>2. /\ Convertible /\ Good(tool.old)
      /\ Contiguous(tool.old) /\ EnoughRoom(tool.old, SwapBlocks(tool.mega))
  BY <1>1 DEF Intact, Writing, Sound
<1>3. PICK m, C, mega : m = tool.old /\ C = tool.map /\ mega = tool.mega
  OBVIOUS
<1>4. /\ Sized(m) /\ Good(m) /\ Contiguous(m) /\ mega \in Nat /\ EnoughRoom(m, SwapBlocks(mega))
      /\ C = Consolidated(m, SwapBlocks(mega))
  BY <1>1, <1>2, <1>3 DEF WriteTool
<1>5. {c \in 1..Len(disk) : c <= 8 \/ (c = LastPart(tool.old) /\ Fixes(tool.old))} = GivenOut(m)
  BY <1>1, <1>3 DEF GivenOut, Sized
<1>6. Pool(m) = m[2].start..(PoolTop(m) - 1)
  BY <1>1, <1>2, <1>4, PoolIsRow
<1>7. UNION {Blocks(C[c]) : c \in GivenOut(m)} = m[2].start..(PoolTop(m) - 1)
  BY <1>1, <1>2, <1>4, GivenOutIsRow
<1>8. \A c, d \in GivenOut(m) : c # d => ~Overlap(C[c], C[d])
  BY <1>1, <1>2, <1>4, GivenOutApart
<1>9. mega * Mega < Word => C[8].len = (mega * Mega) \div Block
  <2>1. Fits(m)
    BY <1>1, <1>2, <1>4, GoodPool
  <2>2. C[8].len = SwapBlocks(mega)
    BY <1>4, <2>1, NewFacts
  <2> QED
    BY <1>4, <2>2, SwapFacts
<1> HIDE DEF Blocks, Overlap
<1> QED
  BY <1>3, <1>5, <1>6, <1>7, <1>8, <1>9

(* However often consolidate is run, wherever it is stopped and whichever  *)
(* writes fail, the partitions behind the first eight stay where they are  *)
(* and nothing overlaps them; undisturbed, no two partitions overlap.      *)
THEOREM IntactTheorem == Spec => []MfsIntact
<1>1. DInv => MfsIntact
  BY DriveIntact
<1> QED
  BY <1>1, InitDrive, NextDrive, PTL DEF Spec

(* The blocks of the partitions that are given out are those of the        *)
(* partitions that are taken, each once, and swap space has the size asked *)
(* for.                                                                    *)
THEOREM GivenOutTheorem == Spec => []PoolGivenOut
<1>1. DInv => PoolGivenOut
  BY DriveGivenOut
<1> QED
  BY <1>1, InitDrive, NextDrive, PTL DEF Spec
=============================================================================
