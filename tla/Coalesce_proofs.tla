---------------------------- MODULE Coalesce_proofs ----------------------------
(***************************************************************************)
(* Whatever the map, the partitions and the moment tivo_coalesce.sh is     *)
(* stopped at, it keeps the data: the map is, at every moment, the map it  *)
(* started from with the entries below the current one slid down.          *)
(***************************************************************************)
EXTENDS Coalesce, TLAPS

Running == run \notin {Idle, Stopped}

\* What the prologue has found out: a script runs on a map it is right for.
Planned ==
  /\ before \in [1..Slots -> Entry] /\ Clean(before) /\ (Small(before) \/ Series4(before))
  /\ run \in Runs
  /\ run.count = before[1].count /\ run.count \in 2..Slots
  /\ 1 < run.a /\ run.a < run.b /\ run.b <= run.count /\ run.b # Fixed
  /\ run.a # Fixed
  /\ before[run.a].type = "MFS" /\ before[run.b].type = "MFS"
  /\ before[run.a].first + before[run.a].size = before[run.b].first
  /\ run.size = before[run.a].size + before[run.b].size

\* Entry k of the map once the entries below n have moved.
Grown(k)   == IF k = run.a THEN [before[k] EXCEPT !.size = run.size] ELSE before[k]
Slid(n, k) == IF run.b <= k /\ k < n THEN before[Source(k)] ELSE Grown(k)

\* Where the loop ends: it does nothing if b is behind Fixed.
LoopEnd == IF run.b < Fixed THEN Fixed ELSE run.b

\* Entry k of the map once the entries below n have been told the count.
Counted(n, k) ==
  IF k = run.count THEN Empty
  ELSE IF k < n THEN [Slid(LoopEnd, k) EXCEPT !.count = run.count - 1]
  ELSE Slid(LoopEnd, k)

\* The map on the drive as a function of the one it was and of how far the script is.
Shape ==
  /\ run.at = "size" => disk = before
  /\ run.at = "move" => /\ run.i \in run.b..LoopEnd
                        /\ disk = [k \in 1..Slots |-> Slid(run.i, k)]
  /\ run.at = "count" => /\ run.i \in 1..run.count
                         /\ disk = [k \in 1..Slots |-> Counted(run.i, k)]

\* A map the script may be run on, or one it has to leave alone.
AtRest ==
  /\ disk \in [1..Slots -> Entry] /\ Clean(disk)
  /\ \/ Small(disk) \/ Series4(disk)
     \/ disk[Fixed].name = "SQLite" /\ disk[1].count = Fixed

IInv ==
  /\ run = Idle => AtRest
  /\ Running => Planned /\ Shape
  /\ KeepsData
-----------------------------------------------------------------------------
(* Lemmas about the operators.                                              *)

\* The entry that moves to i lies behind it, is never Fixed, and no two are the same.
LEMMA SourceFacts ==
  ASSUME NEW i \in 1..Slots, i < Fixed
  PROVE  /\ Source(i) \in 1..Slots /\ Source(i) > i /\ Source(i) # Fixed
         /\ i # Fixed - 1 => Source(i) = i + 1
         /\ i = Fixed - 1 => Source(i) = Fixed + 1
BY FixedAssumption DEF Source

\* What every entry of the slid map was before.
LEMMA GrownFacts ==
  ASSUME Planned, NEW k \in 1..Slots
  PROVE  /\ Grown(k) \in Entry
         /\ Grown(k).type = before[k].type /\ Grown(k).name = before[k].name
         /\ Grown(k).first = before[k].first /\ Grown(k).count = before[k].count
         /\ Grown(k).size = IF k = run.a THEN run.size ELSE before[k].size
BY DEF Planned, Grown, Entry, Runs

\* The map of a running script is one of entries, and entry 1 stays what it is.
LEMMA SlidFacts ==
  ASSUME Planned, NEW n \in 1..Slots, n <= LoopEnd, NEW k \in 1..Slots
  PROVE  /\ Slid(n, k) \in Entry
         /\ k < run.b => Slid(n, k) = Grown(k)
         /\ k >= n => Slid(n, k) = Grown(k)
         /\ run.b <= k /\ k < n => Slid(n, k) = before[Source(k)] /\ Source(k) \in 1..Slots
<1>1. Grown(k) \in Entry
  BY GrownFacts
<1>2. ASSUME run.b <= k, k < n  PROVE k < Fixed
  BY <1>2, FixedAssumption DEF LoopEnd, Planned, Runs
<1>3. ASSUME run.b <= k, k < n  PROVE Source(k) \in 1..Slots /\ before[Source(k)] \in Entry
  BY <1>2, <1>3, SourceFacts DEF Planned
<1>4. run.b \in Nat
  BY DEF Planned, Runs
<1>5. QED
  BY <1>1, <1>3, <1>4 DEF Slid

\* An entry that is told the count is the same otherwise.
LEMMA ToldFacts ==
  ASSUME NEW e \in Entry, NEW n \in Nat
  PROVE  /\ [e EXCEPT !.count = n] \in Entry
         /\ [e EXCEPT !.count = n].count = n
         /\ [e EXCEPT !.count = n].type = e.type /\ [e EXCEPT !.count = n].name = e.name
         /\ [e EXCEPT !.count = n].first = e.first /\ [e EXCEPT !.count = n].size = e.size
BY DEF Entry

\* The blocks of the second partition join those of the first.
LEMMA JoinedBlocks ==
  ASSUME Planned
  PROVE  Blocks(Grown(run.a)) = Blocks(before[run.a]) \cup Blocks(before[run.b])
<1>1. run.a \in 1..Slots /\ run.b \in 1..Slots /\ before[run.a] \in Entry /\ before[run.b] \in Entry
  BY DEF Planned, Runs
<1>2. /\ Grown(run.a).first = before[run.a].first
      /\ Grown(run.a).size = before[run.a].size + before[run.b].size
      /\ before[run.a].first + before[run.a].size = before[run.b].first
  BY <1>1, GrownFacts DEF Planned
<1> QED
  BY <1>1, <1>2 DEF Blocks, Entry
-----------------------------------------------------------------------------
(* Wherever the script is, the map keeps its data.                          *)

\* Entry 1 is the map's own: it is never joined, and tells the count until it is told.
LEMMA CountFacts ==
  ASSUME Planned, Shape
  PROVE  /\ disk \in [1..Slots -> Entry]
         /\ disk[1].count = IF run.at = "count" /\ run.i > 1 THEN run.count - 1 ELSE run.count
<1>1. LoopEnd \in 1..Slots /\ 1 < run.b /\ run.i \in Nat /\ run.a # 1 /\ 1 \in 1..Slots
  BY FixedAssumption DEF LoopEnd, Planned, Runs
<1>2. \A k \in 1..Slots : Slid(LoopEnd, k) \in Entry
  BY <1>1, SlidFacts
<1>3. Slid(LoopEnd, 1) = before[1] /\ before[1] \in Entry
  BY <1>1, SlidFacts DEF Grown, Planned
<1>4. CASE run.at = "size"
  BY <1>4 DEF Shape, Planned
<1>5. CASE run.at = "move"
  <2>1. run.i \in 1..Slots /\ run.i <= LoopEnd
    <3>1. run.b \in Nat /\ LoopEnd \in Nat /\ run.i \in run.b..LoopEnd
      BY <1>1, <1>5 DEF Shape, Planned, Runs
    <3> QED
      BY <3>1, <1>1, FixedAssumption
  <2>2. Slid(run.i, 1) = before[1]
    BY <2>1, <1>1, SlidFacts DEF Grown
  <2> QED
    BY <2>1, <2>2, <1>1, <1>5, SlidFacts DEF Shape, Planned
<1>6. CASE run.at = "count"
  <2>1. disk = [k \in 1..Slots |-> Counted(run.i, k)] /\ run.i \in 1..run.count
    BY <1>6 DEF Shape
  <2>2. run.count \in Nat /\ run.count > 1 /\ before[1].count = run.count
    BY DEF Planned, Runs
  <2>3. \A k \in 1..Slots : Counted(run.i, k) \in Entry
    <3>1. Empty \in Entry
      BY TextsAssumption DEF Empty, Entry
    <3>2. ASSUME NEW k \in 1..Slots  PROVE Counted(run.i, k) \in Entry
      <4>1. run.count - 1 \in Nat /\ Slid(LoopEnd, k) \in Entry
        BY <1>2, <2>2
      <4>2. [Slid(LoopEnd, k) EXCEPT !.count = run.count - 1] \in Entry
        BY <4>1, ToldFacts
      <4> QED
        BY <3>1, <4>1, <4>2 DEF Counted
    <3> QED
      BY <3>2
  <2>4. Counted(run.i, 1).count = IF run.i > 1 THEN run.count - 1 ELSE run.count
    BY <1>3, <2>1, <2>2 DEF Counted, Entry
  <2> QED
    BY <2>1, <2>3, <2>4, <1>1, <1>6
<1> QED
  BY <1>4, <1>5, <1>6 DEF Planned, Runs

\* Where the blocks of an entry are: with the partition it is joined to, where it was,
\* or one entry further down, or two across Fixed.
LEMMA HeirFacts ==
  ASSUME Planned, NEW n \in run.b..LoopEnd, NEW k \in Entries(before)
  PROVE  \E j \in 1..Slots :
           /\ j <= run.count /\ (n = LoopEnd => j < run.count)
           /\ Slid(n, j).type = before[k].type
           /\ Blocks(before[k]) \subseteq Blocks(Slid(n, j))
<1>1. /\ LoopEnd \in 1..Slots /\ run.a \in 1..Slots /\ run.b \in 1..Slots /\ k \in 1..Slots
      /\ n \in 1..Slots /\ n <= LoopEnd /\ run.a < run.b /\ run.b <= run.count /\ k <= run.count
      /\ run.count \in Nat
  BY FixedAssumption DEF LoopEnd, Planned, Runs, Entries
<1>2. \A j \in 1..Slots : j < run.b => Slid(n, j) = Grown(j)
  BY <1>1, SlidFacts
<1>3. Slid(n, run.a) = Grown(run.a) /\ Grown(run.a).type = "MFS"
  BY <1>1, <1>2, GrownFacts DEF Planned
<1>4. CASE k \in {run.a, run.b}
  <2>1. before[k].type = "MFS" /\ Blocks(before[k]) \subseteq Blocks(Grown(run.a))
    BY <1>4, JoinedBlocks DEF Planned
  <2> QED
    BY <2>1, <1>1, <1>3
<1>5. CASE k # run.a /\ (k < run.b \/ k >= n) /\ (n = LoopEnd => k < run.count)
  <2>1. Slid(n, k) = before[k]
    BY <1>1, <1>5, SlidFacts DEF Grown
  <2> QED
    BY <2>1, <1>1, <1>5
<1>6. CASE run.b < k /\ k < n
  <2>1. LoopEnd = Fixed /\ run.b <= k - 1 /\ k - 1 < n /\ k - 1 \in 1..Slots /\ k - 1 < Fixed /\ k - 1 # Fixed - 1
    BY <1>1, <1>6, FixedAssumption DEF LoopEnd
  <2>2. Slid(n, k - 1) = before[k]
    BY <2>1, <1>1, SlidFacts, SourceFacts
  <2> QED
    BY <2>1, <2>2, <1>1
<1>7. CASE run.b < k /\ n = LoopEnd /\ k = run.count /\ k >= n
  <2>1. Series4(before) /\ LoopEnd = Fixed /\ k = Fixed + 1
    BY <1>1, <1>7, FixedAssumption DEF Planned, Small, Series4, LoopEnd
  <2>2. run.b <= Fixed - 1 /\ Fixed - 1 < n /\ Fixed - 1 \in 1..Slots /\ Fixed - 1 < run.count
    BY <2>1, <1>1, <1>7, FixedAssumption DEF Planned
  <2>3. Slid(n, Fixed - 1) = before[k]
    BY <2>1, <2>2, <1>1, SlidFacts, SourceFacts, FixedAssumption
  <2> QED
    BY <2>2, <2>3, <1>1
<1> QED
  BY <1>1, <1>4, <1>5, <1>6, <1>7
-----------------------------------------------------------------------------

LEMMA ShapeKeepsData == Planned /\ Shape => KeepsData
<1> SUFFICES ASSUME Planned, Shape
             PROVE  KeepsData
  OBVIOUS
<1>1. /\ LoopEnd \in 1..Slots /\ LoopEnd \in run.b..LoopEnd /\ run.b \in run.b..LoopEnd
      /\ run.count \in 2..Slots /\ run.a # Fixed /\ run.b # Fixed
      /\ run.a \in 1..Slots /\ run.b \in 1..Slots /\ Fixed \in 1..Slots
  BY FixedAssumption DEF LoopEnd, Planned, Runs
<1>2. disk[1].count = IF run.at = "count" /\ run.i > 1 THEN run.count - 1 ELSE run.count
  BY CountFacts
<1>3. ASSUME NEW j \in 1..Slots, j <= run.count, run.at = "count" => j < run.count
      PROVE  j \in Entries(disk)
  BY <1>1, <1>2, <1>3 DEF Entries
<1>4. NothingLost
  <2> SUFFICES ASSUME NEW k \in Entries(before)
               PROVE  \E j \in Entries(disk) : /\ disk[j].type = before[k].type
                                               /\ Blocks(before[k]) \subseteq Blocks(disk[j])
    BY DEF NothingLost
  <2>1. CASE run.at = "size"
    BY <2>1, <1>2 DEF Shape, Planned, Entries
  <2>2. CASE run.at = "move"
    <3>1. PICK j \in 1..Slots : /\ j <= run.count /\ Slid(run.i, j).type = before[k].type
                                /\ Blocks(before[k]) \subseteq Blocks(Slid(run.i, j))
      BY <2>2, HeirFacts DEF Shape
    <3> QED
      BY <3>1, <2>2, <1>3 DEF Shape
  <2>3. CASE run.at = "count"
    <3>1. PICK j \in 1..Slots : /\ j < run.count /\ Slid(LoopEnd, j).type = before[k].type
                                /\ Blocks(before[k]) \subseteq Blocks(Slid(LoopEnd, j))
      BY <1>1, HeirFacts
    <3>2. Slid(LoopEnd, j) \in Entry /\ run.count - 1 \in Nat /\ j # run.count /\ j <= run.count
      BY <1>1, <3>1, SlidFacts
    <3>3. disk[j] = Counted(run.i, j)
      BY <2>3, <3>1 DEF Shape
    <3>4. disk[j].type = Slid(LoopEnd, j).type /\ Blocks(disk[j]) = Blocks(Slid(LoopEnd, j))
      BY <3>2, <3>3, ToldFacts DEF Counted, Blocks
    <3> QED
      BY <3>1, <3>2, <3>4, <1>3, <2>3
  <2> QED
    BY <2>1, <2>2, <2>3 DEF Planned, Runs
<1>5. FixedStays
  <2> SUFFICES ASSUME before[Fixed].name = "SQLite"
               PROVE  /\ disk[Fixed].name = "SQLite" /\ Fixed \in Entries(disk)
                      /\ Blocks(disk[Fixed]) = Blocks(before[Fixed])
    BY DEF FixedStays
  <2>1. run.count = Fixed + 1
    BY DEF Planned, Small, Series4
  <2>2. Fixed \in Entries(disk)
    BY <2>1, <1>1, <1>3
  <2>3. \A n \in run.b..LoopEnd : Slid(n, Fixed) = before[Fixed]
    BY <1>1, FixedAssumption DEF Slid, Grown, LoopEnd
  <2>4. CASE run.at = "size"
    BY <2>2, <2>4 DEF Shape
  <2>5. CASE run.at = "move"
    BY <2>2, <2>3, <2>5, <1>1 DEF Shape
  <2>6. CASE run.at = "count"
    <3>1. disk[Fixed] = Counted(run.i, Fixed) /\ Fixed # run.count /\ run.count - 1 \in Nat
      BY <2>6, <2>1, <1>1 DEF Shape
    <3>2. before[Fixed] \in Entry /\ Slid(LoopEnd, Fixed) = before[Fixed]
      BY <2>3, <1>1 DEF Planned
    <3> QED
      BY <3>1, <3>2, <2>2, ToldFacts DEF Counted, Blocks
  <2> QED
    BY <2>4, <2>5, <2>6 DEF Planned, Runs
<1> QED
  BY <1>4, <1>5 DEF KeepsData
-----------------------------------------------------------------------------
(* One step of the script.                                                  *)

\* The prologue lets only a script run that is right for the map.
LEMMA BeginStep ==
  ASSUME IInv, NEW a \in 1..Slots, NEW b \in 1..Slots, Begin(a, b)
  PROVE  Planned' /\ Shape'
<1>1. /\ run = Idle /\ a <= b /\ disk[a].type = "MFS" /\ disk[b].type = "MFS"
      /\ disk[a].size = Optimal(disk[a]) /\ disk[a].first + Optimal(disk[a]) = disk[b].first
      /\ MayShrink
      /\ run' = [at |-> "size", a |-> a, b |-> b, i |-> 0, count |-> disk[1].count,
                 size |-> disk[a].size + disk[b].size]
      /\ before' = disk /\ disk' = disk
  BY DEF Begin, Count
<1>2. disk \in [1..Slots -> Entry] /\ Clean(disk) /\ (Small(disk) \/ Series4(disk))
  BY <1>1, FixedAssumption DEF IInv, AtRest, MayShrink, Count
<1>3. a \in Entries(disk) /\ b \in Entries(disk) /\ a # 1 /\ a # Fixed /\ b # Fixed
  <2>1. /\ \A k \in 1..Slots : disk[k].type = "MFS" => k \in Entries(disk) /\ k # 1
        /\ disk[1].count \in 1..Slots
    BY <1>2 DEF Clean
  <2>2. \A k \in 1..Slots : disk[k].type = "MFS" => k # Fixed
    BY <2>1, <1>2, FixedAssumption DEF Small, Series4, Entries
  <2> QED
    BY <1>1, <2>1, <2>2
<1>4. /\ disk[a] \in Entry /\ disk[b] \in Entry /\ disk[a].size > 0 /\ disk[1].count \in 1..Slots
      /\ a <= disk[1].count /\ b <= disk[1].count
  BY <1>2, <1>3 DEF Clean, Entries
<1>5. disk[a].size \in Nat /\ disk[b].size \in Nat /\ disk[a].first \in Nat
  BY <1>4 DEF Entry
<1>6. a # b
  BY <1>1, <1>4, <1>5
<1>7. 1 < a /\ a < b
  BY <1>1, <1>3, <1>6, FixedAssumption
<1>8. run' \in Runs
  BY <1>1, <1>4, <1>5, FixedAssumption DEF Runs
<1>9. Planned'
  BY <1>1, <1>2, <1>3, <1>4, <1>7, <1>8, FixedAssumption DEF Planned, Small, Series4
<1>10. Shape'
  BY <1>1 DEF Shape
<1> QED
  BY <1>9, <1>10

\* The first write joins the blocks of both in the entry of the first.
LEMMA SetSizeStep ==
  ASSUME Planned, Shape, SetSize
  PROVE  Planned' /\ Shape'
<1>1. /\ run.at = "size" /\ disk = before /\ before' = before
      /\ disk' = [disk EXCEPT ![run.a].size = run.size]
      /\ run' = [run EXCEPT !.at = "move", !.i = run.b]
  BY DEF SetSize, Shape
<1>2. /\ run' \in Runs /\ run'.at = "move" /\ run'.i = run.b
      /\ run'.a = run.a /\ run'.b = run.b /\ run'.count = run.count /\ run'.size = run.size
  <2>1. run \in Runs /\ run.b \in Nat /\ run.i + 1 \in Nat
    BY FixedAssumption DEF Planned, Runs
  <2>2. run' = [run EXCEPT !.at = "move", !.i = run.b]
    BY DEF SetSize
  <2>3. run.at = "size"
    BY <1>1
  <2> QED
    BY <2>1, <2>2, <2>3 DEF Runs
<1>3. Planned'
  BY <1>1, <1>2 DEF Planned
<1>4. LoopEnd' = LoopEnd /\ run.b \in run.b..LoopEnd
  BY <1>2, FixedAssumption DEF LoopEnd, Planned, Runs
<1>5. \A k \in 1..Slots : disk'[k] = Slid(run.i, k)'
  BY <1>1, <1>2 DEF Slid, Grown, Planned, Runs
<1>6. disk' = [k \in 1..Slots |-> Slid(run.i, k)']
  BY <1>1, <1>5 DEF Planned
<1> QED
  BY <1>2, <1>3, <1>4, <1>6 DEF Shape

\* An entry takes the place of the one in front, or the one behind Fixed does.
LEMMA MoveStep ==
  ASSUME Planned, Shape, MoveEntry
  PROVE  Planned' /\ Shape'
<1>1. /\ run.at = "move" /\ run.i < Fixed /\ before' = before /\ run.i \in run.b..LoopEnd
      /\ disk = [k \in 1..Slots |-> Slid(run.i, k)]
      /\ disk' = [disk EXCEPT ![run.i] = disk[Source(run.i)]]
      /\ run' = [run EXCEPT !.i = @ + 1]
  BY DEF MoveEntry, Moving, Shape
<1>2. /\ run' \in Runs /\ run'.at = "move" /\ run'.i = run.i + 1
      /\ run'.a = run.a /\ run'.b = run.b /\ run'.count = run.count /\ run'.size = run.size
  <2>1. run \in Runs /\ run.b \in Nat /\ run.i + 1 \in Nat
    BY FixedAssumption DEF Planned, Runs
  <2>2. run' = [run EXCEPT !.i = @ + 1]
    BY DEF MoveEntry
  <2>3. run.at = "move"
    BY <1>1
  <2> QED
    BY <2>1, <2>2, <2>3 DEF Runs
<1>3. Planned'
  BY <1>1, <1>2 DEF Planned
<1>4. LoopEnd' = LoopEnd /\ LoopEnd = Fixed /\ run.i + 1 \in run.b..LoopEnd /\ run.i \in 1..Slots
  BY <1>1, <1>2, FixedAssumption DEF LoopEnd, Planned, Runs
<1>5. Source(run.i) \in 1..Slots /\ Source(run.i) > run.i
  BY <1>1, <1>4, SourceFacts
<1>6. disk[Source(run.i)] = before[Source(run.i)]
  <2>1. Source(run.i) # run.a /\ ~(run.b <= Source(run.i) /\ Source(run.i) < run.i)
    BY <1>1, <1>5, FixedAssumption DEF Planned, Runs
  <2> QED
    BY <2>1, <1>1, <1>5 DEF Slid, Grown
<1>7. ASSUME NEW k \in 1..Slots
      PROVE  disk'[k] = Slid(run.i, k)'
  <2>1. Slid(run.i, k)' = IF run.b <= k /\ k < run.i + 1 THEN before[Source(k)] ELSE Grown(k)
    BY <1>1, <1>2 DEF Slid, Grown, Source
  <2>2. disk[k] = IF run.b <= k /\ k < run.i THEN before[Source(k)] ELSE Grown(k)
    BY <1>1 DEF Slid
  <2>3. run.i \in Nat /\ run.b <= run.i /\ disk \in [1..Slots -> {disk[j] : j \in 1..Slots}]
    BY <1>1 DEF Planned, Runs
  <2>4. CASE k = run.i
    BY <2>4, <2>1, <2>3, <1>1, <1>6
  <2>5. CASE k # run.i
    BY <2>5, <2>1, <2>2, <2>3, <1>1
  <2> QED
    BY <2>4, <2>5
<1>8. disk' = [k \in 1..Slots |-> Slid(run.i, k)']
  BY <1>1, <1>7
<1> QED
  BY <1>2, <1>3, <1>4, <1>8 DEF Shape

\* The last entry is cleared once those in front of it have moved.
LEMMA ClearStep ==
  ASSUME Planned, Shape, ClearLast
  PROVE  Planned' /\ Shape'
<1>1. /\ run.at = "move" /\ run.i >= Fixed /\ before' = before /\ run.i \in run.b..LoopEnd
      /\ disk = [k \in 1..Slots |-> Slid(run.i, k)]
      /\ disk' = [disk EXCEPT ![run.count] = Empty]
  <2>1. run.i \in Nat
    BY DEF Planned, Runs
  <2> QED
    BY <2>1, FixedAssumption DEF ClearLast, Moving, Shape
<1>2. /\ run' \in Runs /\ run'.at = "count" /\ run'.i = 1
      /\ run'.a = run.a /\ run'.b = run.b /\ run'.count = run.count /\ run'.size = run.size
  <2>1. run \in Runs
    BY DEF Planned
  <2>2. run' = [run EXCEPT !.at = "count", !.i = 1]
    BY DEF ClearLast
  <2> QED
    BY <2>1, <2>2 DEF Runs
<1>3. Planned'
  BY <1>1, <1>2 DEF Planned
<1>4. LoopEnd' = LoopEnd /\ run.i = LoopEnd /\ run.count \in 2..Slots
  BY <1>1, <1>2, FixedAssumption DEF LoopEnd, Planned, Runs
<1>5. ASSUME NEW k \in 1..Slots
      PROVE  disk'[k] = Counted(run.i, k)'
  <2>1. Counted(run.i, k)' = IF k = run.count THEN Empty ELSE Slid(LoopEnd, k)
    BY <1>1, <1>2, <1>4 DEF Counted, Slid, Grown
  <2>2. disk[k] = Slid(LoopEnd, k)
    BY <1>1, <1>4
  <2> QED
    BY <2>1, <2>2, <1>1, <1>4
<1>6. disk' = [k \in 1..Slots |-> Counted(run.i, k)']
  BY <1>1, <1>5
<1> QED
  BY <1>2, <1>3, <1>4, <1>6 DEF Shape

\* The entries are told the new count, one after another.
LEMMA CountStep ==
  ASSUME Planned, Shape, SetCount
  PROVE  Planned' /\ Shape'
<1>1. /\ run.at = "count" /\ run.i \in 1..(run.count - 1) /\ before' = before
      /\ disk = [k \in 1..Slots |-> Counted(run.i, k)]
      /\ disk' = [disk EXCEPT ![run.i] = [disk[run.i] EXCEPT !.count = run.count - 1]]
  BY DEF SetCount, CountedIn, Shape
<1>2. /\ run' \in Runs /\ run'.at = "count" /\ run'.i = run.i + 1
      /\ run'.a = run.a /\ run'.b = run.b /\ run'.count = run.count /\ run'.size = run.size
  <2>1. run \in Runs /\ run.i + 1 \in Nat
    BY DEF Planned, Runs
  <2>2. run' = [run EXCEPT !.i = @ + 1]
    BY DEF SetCount
  <2>3. run.at = "count"
    BY <1>1
  <2> QED
    BY <2>1, <2>2, <2>3 DEF Runs
<1>3. Planned'
  BY <1>1, <1>2 DEF Planned
<1>4. LoopEnd' = LoopEnd /\ run.count \in 2..Slots /\ run.i \in 1..Slots /\ run.i + 1 \in 1..run.count
  BY <1>1, <1>2, FixedAssumption DEF LoopEnd, Planned, Runs
<1>5. ASSUME NEW k \in 1..Slots
      PROVE  disk'[k] = Counted(run.i, k)'
  <2>1. Slid(LoopEnd, k)' = Slid(LoopEnd, k)
    BY <1>1, <1>2, <1>4 DEF Slid, Grown
  <2>2. Counted(run.i, k)' = IF k = run.count THEN Empty
                             ELSE IF k < run.i + 1 THEN [Slid(LoopEnd, k) EXCEPT !.count = run.count - 1]
                             ELSE Slid(LoopEnd, k)
    BY <1>2, <2>1 DEF Counted
  <2>3. disk[k] = IF k = run.count THEN Empty
                  ELSE IF k < run.i THEN [Slid(LoopEnd, k) EXCEPT !.count = run.count - 1]
                  ELSE Slid(LoopEnd, k)
    BY <1>1 DEF Counted
  <2>4. CASE k = run.i
    <3>1. k # run.count /\ ~(k < run.i) /\ k < run.i + 1
      BY <2>4, <1>1, <1>4
    <3>2. disk'[k] = [disk[k] EXCEPT !.count = run.count - 1]
      BY <2>4, <1>1
    <3> QED
      BY <3>1, <3>2, <2>2, <2>3
  <2>5. CASE k # run.i
    <3>1. (k < run.i) = (k < run.i + 1)
      BY <2>5, <1>4, FixedAssumption
    <3>2. disk'[k] = disk[k]
      BY <2>5, <1>1
    <3> QED
      BY <3>1, <3>2, <2>2, <2>3
  <2> QED
    BY <2>4, <2>5
<1>6. disk' = [k \in 1..Slots |-> Counted(run.i, k)']
  BY <1>1, <1>5
<1> QED
  BY <1>2, <1>3, <1>4, <1>6 DEF Shape
-----------------------------------------------------------------------------
(* The map the script leaves.                                               *)

\* The entry that is at k when the loop is through: nobody's but b's is lost, and no
\* entry is there twice.
Origin(k) == IF run.b <= k /\ k < LoopEnd THEN Source(k) ELSE k

LEMMA OriginFacts ==
  ASSUME Planned
  PROVE  /\ \A k \in 1..(run.count - 1) : Origin(k) \in 1..run.count /\ Origin(k) # run.b
         /\ \A j, k \in 1..(run.count - 1) : j < k => Origin(j) # Origin(k)
         /\ \A k \in 1..Slots : k > run.count => Origin(k) > run.count /\ Origin(k) \in 1..Slots
         /\ \A k \in 1..Slots : Origin(k) \in 1..Slots => Slid(LoopEnd, k) = Grown(Origin(k))
<1>1. /\ run.count \in 2..Slots /\ run.b \in Nat /\ run.b <= run.count /\ run.a < run.b /\ run.b # Fixed
      /\ (run.count < Fixed \/ run.count = Fixed + 1)
  BY FixedAssumption DEF Planned, Runs, Small, Series4
<1>2. run.b < Fixed => LoopEnd = Fixed
  BY DEF LoopEnd
<1>3. run.b >= Fixed => LoopEnd = run.b /\ run.b = run.count
  BY <1>1, FixedAssumption DEF LoopEnd
<1>4. \A k \in 1..(run.count - 1) : Origin(k) \in 1..run.count /\ Origin(k) # run.b
  BY <1>1, <1>2, <1>3, FixedAssumption DEF Origin, Source
<1>5. \A j, k \in 1..(run.count - 1) : j < k => Origin(j) # Origin(k)
  BY <1>1, <1>2, <1>3, FixedAssumption DEF Origin, Source
<1>6. \A k \in 1..Slots : k > run.count => Origin(k) > run.count /\ Origin(k) \in 1..Slots
  BY <1>1, <1>2, <1>3, FixedAssumption DEF Origin, Source
<1>7. ASSUME NEW k \in 1..Slots, Origin(k) \in 1..Slots
      PROVE  Slid(LoopEnd, k) = Grown(Origin(k))
  <2>1. CASE run.b <= k /\ k < LoopEnd
    <3>1. k < Fixed
      BY <2>1, <1>1, <1>2, <1>3, FixedAssumption
    <3>2. Source(k) > k /\ Source(k) \in 1..Slots
      BY <3>1, SourceFacts
    <3>3. Source(k) # run.a
      BY <3>2, <2>1, <1>1 DEF Planned, Runs
    <3> QED
      BY <3>3, <2>1 DEF Slid, Grown, Origin
  <2>2. CASE ~(run.b <= k /\ k < LoopEnd)
    BY <2>2 DEF Slid, Origin
  <2> QED
    BY <2>1, <2>2
<1> QED
  BY <1>4, <1>5, <1>6, <1>7

\* The entries that are left, b's apart, share no block.
LEMMA GrownApart ==
  ASSUME Planned, NEW j \in Entries(before), NEW k \in Entries(before), j # k, j # run.b, k # run.b
  PROVE  Blocks(Grown(j)) \cap Blocks(Grown(k)) = {}
<1>1. \A x, y \in Entries(before) : x # y => Blocks(before[x]) \cap Blocks(before[y]) = {}
  <2>1. \A x, y \in Entries(before) : x < y => Blocks(before[x]) \cap Blocks(before[y]) = {}
    BY DEF Planned, Clean
  <2>2. \A x, y \in Entries(before) : x # y => x < y \/ y < x
    BY FixedAssumption DEF Entries
  <2> QED
    BY <2>1, <2>2
<1>2. \A x \in Entries(before) : x # run.a => Grown(x) = before[x]
  BY DEF Grown
<1>3. run.a \in Entries(before) /\ run.b \in Entries(before) /\ run.a # run.b
  BY FixedAssumption DEF Planned, Runs, Entries
<1>4. Blocks(Grown(run.a)) = Blocks(before[run.a]) \cup Blocks(before[run.b])
  BY JoinedBlocks
<1>5. CASE j # run.a /\ k # run.a
  BY <1>5, <1>1, <1>2
<1>6. CASE j = run.a
  BY <1>6, <1>1, <1>2, <1>3, <1>4
<1>7. CASE k = run.a
  BY <1>7, <1>1, <1>2, <1>3, <1>4
<1> QED
  BY <1>5, <1>6, <1>7

\* The script leaves a map the TiVo can use, and one it is right for or has to refuse.
LEMMA FinishStep ==
  ASSUME Planned, Shape, Finish
  PROVE  AtRest'
<1> DEFINE n == run.count
<1>1. /\ run.at = "count" /\ disk' = disk
      /\ run.i = n /\ n \in 2..Slots /\ disk = [k \in 1..Slots |-> Counted(n, k)]
  <2>1. /\ run.at = "count" /\ disk' = disk /\ run.i \in 1..n /\ run.i \notin 1..(n - 1)
        /\ n \in 2..Slots /\ disk = [k \in 1..Slots |-> Counted(run.i, k)]
    BY DEF Finish, CountedIn, Shape, Planned
  <2>2. run.i = n
    BY <2>1
  <2> QED
    BY <2>1, <2>2
<1>2. /\ disk \in [1..Slots -> Entry] /\ disk[1].count = n - 1
      /\ n - 1 \in Nat /\ n - 1 \in 1..Slots
  BY <1>1, CountFacts, FixedAssumption
<1>3. ASSUME NEW k \in 1..(n - 1)
      PROVE  /\ Origin(k) \in Entries(before) /\ Origin(k) # run.b
             /\ disk[k].count = n - 1 /\ disk[k].type = before[Origin(k)].type
             /\ disk[k].name = before[Origin(k)].name
             /\ disk[k].size = Grown(Origin(k)).size /\ Blocks(disk[k]) = Blocks(Grown(Origin(k)))
  <2>1. Origin(k) \in 1..n /\ Origin(k) # run.b
    BY OriginFacts
  <2>2. k \in 1..Slots /\ Origin(k) \in 1..Slots /\ k # n /\ k < n
    BY <2>1, <1>1, FixedAssumption
  <2>3. Origin(k) \in Entries(before)
    BY <2>1, <2>2 DEF Entries, Planned
  <2>4. disk[k] = [Grown(Origin(k)) EXCEPT !.count = n - 1]
    <3>1. Slid(LoopEnd, k) = Grown(Origin(k))
      BY <2>2, OriginFacts
    <3> QED
      BY <3>1, <2>2, <1>1 DEF Counted
  <2>5. /\ Grown(Origin(k)) \in Entry /\ Grown(Origin(k)).type = before[Origin(k)].type
        /\ Grown(Origin(k)).name = before[Origin(k)].name
    BY <2>2, GrownFacts
  <2> QED
    BY <2>1, <2>3, <2>4, <2>5, <1>2, ToldFacts DEF Blocks
<1>4. Entries(disk) = 1..(n - 1)
  BY <1>1, <1>2, FixedAssumption DEF Entries
<1>5. ASSUME NEW k \in 1..Slots, k > n
      PROVE  disk[k].type = before[Origin(k)].type /\ Origin(k) \in 1..Slots \ Entries(before)
  <2>1. Origin(k) > n /\ Origin(k) \in 1..Slots
    BY <1>5, OriginFacts
  <2>2. disk[k] = Grown(Origin(k))
    <3>1. Slid(LoopEnd, k) = Grown(Origin(k))
      BY <2>1, OriginFacts
    <3>2. k # n /\ ~(k < n)
      BY <1>1, <1>5, FixedAssumption
    <3> QED
      BY <3>1, <3>2, <1>1 DEF Counted
  <2>3. Origin(k) \notin Entries(before)
    BY <2>1, <1>1, FixedAssumption DEF Entries, Planned
  <2> QED
    BY <2>1, <2>2, <2>3, GrownFacts
<1>6. Clean(disk)
  <2>1. disk[1].count \in 1..Slots /\ disk[1].type # "MFS"
    <3>1. 1 \in 1..(n - 1) /\ run.b > 1 /\ run.b \in Nat
      BY <1>1 DEF Planned, Runs
    <3>2. Origin(1) = 1
      BY <3>1 DEF Origin
    <3>3. disk[1].type = before[1].type
      BY <3>1, <3>2, <1>3
    <3> QED
      BY <3>3, <1>2 DEF Planned, Clean
  <2>2. ASSUME NEW k \in Entries(disk)
        PROVE  disk[k].type # "" /\ disk[k].size > 0 /\ disk[k].count = disk[1].count
    <3>1. k \in 1..(n - 1) /\ Origin(k) \in Entries(before) /\ Origin(k) \in 1..Slots
      BY <1>3, <1>4 DEF Entries
    <3>2. before[Origin(k)].type # "" /\ before[Origin(k)].size > 0
      BY <3>1 DEF Planned, Clean
    <3>3. Grown(Origin(k)).size > 0
      <4>1. run.a \in 1..Slots /\ run.b \in 1..Slots /\ run.a \in Entries(before) /\ run.b \in Entries(before)
        BY FixedAssumption DEF Planned, Runs, Entries
      <4>2. before[run.a].size > 0 /\ before[run.b].size > 0
        BY <4>1 DEF Planned, Clean
      <4>3. before[run.a].size \in Nat /\ before[run.b].size \in Nat
        BY <4>1 DEF Planned, Entry
      <4>4. run.size = before[run.a].size + before[run.b].size
        BY DEF Planned
      <4>5. run.size > 0
        BY <4>2, <4>3, <4>4
      <4> QED
        BY <4>5, <3>1, <3>2, GrownFacts
    <3> QED
      BY <3>1, <3>2, <3>3, <1>2, <1>3
  <2>3. ASSUME NEW k \in 1..Slots \ Entries(disk)
        PROVE  disk[k].type # "MFS"
    <3>1. CASE k = n
      <4>1. disk[k] = Empty
        BY <3>1, <1>1 DEF Counted
      <4>2. Empty.type = "" /\ "" # "MFS"
        BY DEF Empty
      <4> QED
        BY <4>1, <4>2
    <3>2. CASE k # n
      <4>1. k > n
        BY <3>2, <1>1, <1>4, FixedAssumption
      <4> QED
        BY <4>1, <1>5 DEF Planned, Clean
    <3> QED
      BY <3>1, <3>2
  <2>4. ASSUME NEW j \in Entries(disk), NEW k \in Entries(disk), j < k
        PROVE  Blocks(disk[j]) \cap Blocks(disk[k]) = {}
    <3>1. j \in 1..(n - 1) /\ k \in 1..(n - 1)
      BY <1>4
    <3>2. /\ Origin(j) # Origin(k) /\ Origin(j) # run.b /\ Origin(k) # run.b
          /\ Origin(j) \in Entries(before) /\ Origin(k) \in Entries(before)
      BY <3>1, <2>4, <1>3, OriginFacts
    <3>3. Blocks(Grown(Origin(j))) \cap Blocks(Grown(Origin(k))) = {}
      BY <3>2, GrownApart
    <3> QED
      BY <3>1, <3>3, <1>3
  <2> QED
    BY <2>1, <2>2, <2>3, <2>4 DEF Clean
<1>7. disk[Fixed].name = before[Fixed].name
  <2>1. Fixed \in 1..Slots /\ ~(run.b <= Fixed /\ Fixed < LoopEnd) /\ Fixed # run.a /\ Fixed # n
    BY FixedAssumption DEF LoopEnd, Planned, Runs, Small, Series4
  <2>2. Slid(LoopEnd, Fixed) = before[Fixed] /\ before[Fixed] \in Entry
    BY <2>1 DEF Slid, Grown, Planned
  <2>3. disk[Fixed] = Counted(n, Fixed)
    BY <2>1, <1>1
  <2> QED
    BY <2>1, <2>2, <2>3, <1>2, ToldFacts DEF Counted
<1>8. Small(disk) \/ (disk[Fixed].name = "SQLite" /\ disk[1].count = Fixed)
  BY <1>1, <1>2, <1>7, FixedAssumption DEF Planned, Small, Series4
<1> QED
  BY <1>1, <1>2, <1>6, <1>8 DEF AtRest, Clean, Small, Series4, Entries
-----------------------------------------------------------------------------
(* The theorems.                                                            *)

LEMMA Initially == Init => IInv
<1> SUFFICES ASSUME Init
             PROVE  IInv
  OBVIOUS
<1>1. disk \in [1..Slots -> Entry] /\ Clean(disk) /\ (Small(disk) \/ Series4(disk)) /\ before = disk
  BY MapsAssumption DEF Init
<1>2. run = Idle /\ ~Running
  BY DEF Init, Running
<1>3. AtRest
  BY <1>1 DEF AtRest
<1>4. KeepsData
  <2>1. NothingLost
    BY <1>1 DEF NothingLost
  <2>2. FixedStays
    <3>1. disk[Fixed].name = "SQLite" => disk[1].count = Fixed + 1
      BY <1>1 DEF Small, Series4
    <3> QED
      BY <3>1, <1>1, FixedAssumption DEF FixedStays, Entries
  <2> QED
    BY <2>1, <2>2 DEF KeepsData
<1> QED
  BY <1>2, <1>3, <1>4 DEF IInv

LEMMA Step == IInv /\ [Next]_vars => IInv'
<1> SUFFICES ASSUME IInv, [Next]_vars
             PROVE  IInv'
  OBVIOUS
<1>1. ASSUME Planned', Shape'
      PROVE  IInv'
  <2>1. run' \in Runs
    BY <1>1 DEF Planned
  <2>2. KeepsData'
    BY <1>1, ShapeKeepsData, PTL
  <2> QED
    BY <1>1, <2>1, <2>2, IdleAssumption DEF IInv, Running
<1>2. ASSUME NEW a \in 1..Slots, NEW b \in 1..Slots, Begin(a, b)
      PROVE  IInv'
  BY <1>1, <1>2, BeginStep
<1>3. ASSUME SetSize PROVE IInv'
  BY <1>1, <1>3, SetSizeStep DEF SetSize, IInv, Running
<1>4. ASSUME MoveEntry PROVE IInv'
  BY <1>1, <1>4, MoveStep DEF MoveEntry, IInv, Running
<1>5. ASSUME ClearLast PROVE IInv'
  BY <1>1, <1>5, ClearStep DEF ClearLast, IInv, Running
<1>6. ASSUME SetCount PROVE IInv'
  BY <1>1, <1>6, CountStep DEF SetCount, IInv, Running
<1>7. ASSUME Finish PROVE IInv'
  <2>1. AtRest'
    BY <1>7, FinishStep DEF Finish, IInv, Running
  <2>2. run' = Idle /\ disk' = disk /\ before' = before
    BY <1>7 DEF Finish
  <2>3. KeepsData'
    BY <2>2 DEF IInv, KeepsData, NothingLost, FixedStays, Entries
  <2> QED
    BY <2>1, <2>2, <2>3 DEF IInv, Running
<1>8. ASSUME Stop PROVE IInv'
  <2>1. run' = Stopped /\ disk' = disk /\ before' = before
    BY <1>8 DEF Stop
  <2>2. KeepsData'
    BY <2>1 DEF IInv, KeepsData, NothingLost, FixedStays, Entries
  <2> QED
    BY <2>1, <2>2, IdleAssumption DEF IInv, Running
<1>9. ASSUME UNCHANGED vars PROVE IInv'
  <2>1. run' = run /\ disk' = disk /\ before' = before
    BY <1>9 DEF vars
  <2>2. ASSUME run = Idle PROVE AtRest'
    BY <2>1, <2>2 DEF IInv, AtRest, Clean, Small, Series4, Entries
  <2>3. ASSUME Running PROVE Planned' /\ Shape'
    <3>1. Planned'
      BY <2>1, <2>3 DEF IInv, Planned
    <3>2. \A n, k : (Slid(n, k)' = Slid(n, k)) /\ LoopEnd' = LoopEnd
      BY <2>1 DEF Slid, Grown, LoopEnd
    <3>3. ASSUME NEW k \in 1..Slots
          PROVE  /\ Slid(run.i, k)' = Slid(run.i, k)
                 /\ Counted(run.i, k)' = Counted(run.i, k)
      BY <2>1, <3>2 DEF Slid, Grown, Counted
    <3> QED
      BY <2>1, <2>3, <3>1, <3>2, <3>3 DEF IInv, Shape
  <2>4. KeepsData'
    BY <2>1 DEF IInv, KeepsData, NothingLost, FixedStays, Entries
  <2> QED
    BY <2>1, <2>2, <2>3, <2>4 DEF IInv, Running
<1> QED
  BY <1>2, <1>3, <1>4, <1>5, <1>6, <1>7, <1>8, <1>9 DEF Next

\* The script is, at every moment, idle at a map it may be run on, or its map is the
\* shape its loop has given it so far.
LEMMA Inductive == Spec => []IInv
<1>1. Init => IInv
  BY Initially
<1>2. IInv /\ [Next]_vars => IInv'
  BY Step
<1> QED
  BY <1>1, <1>2, PTL DEF Spec

\* Wherever the script is stopped, every partition's blocks are still covered by an
\* entry of its type, and the database of a Series 4 is at the number it had.
THEOREM DataStays == Spec => []KeepsData
<1>1. IInv => KeepsData
  BY DEF IInv
<1> QED
  BY <1>1, Inductive, PTL

\* The map the script leaves, and each it is given after that, is one the TiVo can use:
\* no blank entry, no block in two partitions, one count in all of them.
THEOREM MapStaysClean == Spec => []CleanMap
<1>1. IInv => CleanMap
  BY DEF IInv, CleanMap, AtRest, Clean, Count
<1> QED
  BY <1>1, Inductive, PTL
=============================================================================
