------------------------------- MODULE Coalesce -------------------------------
(***************************************************************************)
(* tivo_coalesce.sh: joins two adjacent MFS partitions by editing the      *)
(* Apple partition map of a drive in place, one dd after another.  The     *)
(* user may interrupt it, or the machine may stop, between any two of      *)
(* them.  Sector k of the drive describes partition k.                     *)
(***************************************************************************)
EXTENDS Integers

CONSTANTS
  Fixed,    \* the partition that keeps its number: 14
  Slots,    \* sectors of the map
  Texts,    \* names and types that entries may have
  Round,    \* MFS uses a multiple of this many blocks: 1024
  InitMaps, \* maps of the drives the script may be run on
  Idle, Stopped

ASSUME FixedAssumption == Fixed \in Nat /\ Slots \in Nat /\ 2 <= Fixed /\ Fixed + 2 <= Slots
Entry == [name : Texts, type : Texts, first : Nat, size : Nat, count : Nat]

\* The script while it runs: the partitions it joins, the entry it is at, how many
\* entries there were and the size of the joined partition.
Runs == [at : {"size", "move", "count"}, a : 1..Slots, b : 1..Slots, i : Nat, count : Nat, size : Nat]

Entries(map) == {k \in 1..Slots : k <= map[1].count}
Blocks(e)    == e.first..(e.first + e.size - 1)

\* A map the TiVo can use: entry 1 is the map itself, no entry is blank or empty, no
\* block is in two partitions, and every entry agrees on their number.
Clean(map) ==
  /\ map[1].count \in 1..Slots /\ map[1].type # "MFS"
  /\ \A k \in Entries(map) : map[k].type # "" /\ map[k].size > 0 /\ map[k].count = map[1].count
  /\ \A k \in 1..Slots \ Entries(map) : map[k].type # "MFS"
  /\ \A j, k \in Entries(map) : j < k => Blocks(map[j]) \cap Blocks(map[k]) = {}

\* The maps the script is right for.  Its loop always ends with the entry behind
\* Fixed, which must be the last one if Fixed is in use at all.
Small(map)   == map[1].count < Fixed /\ map[Fixed].name # "SQLite"
Series4(map) == map[1].count = Fixed + 1 /\ map[Fixed].name = "SQLite" /\ map[Fixed].type # "MFS"

ASSUME TextsAssumption == {"", "MFS", "SQLite"} \subseteq Texts
ASSUME RoundAssumption == Round \in Nat \ {0}
ASSUME MapsAssumption ==
  InitMaps \subseteq {map \in [1..Slots -> Entry] : Clean(map) /\ (Small(map) \/ Series4(map))}
ASSUME IdleAssumption == Idle # Stopped /\ Idle \notin Runs /\ Stopped \notin Runs

VARIABLES
  disk,   \* the sectors of the map
  run,    \* the running script: its variables and how far it is
  before  \* history: the map the running, or the last, script started from

vars == <<disk, run, before>>

Empty   == [name |-> "", type |-> "", first |-> 0, size |-> 0, count |-> 0]
Count   == disk[1].count
Optimal(e) == e.size - (e.size % Round)

Init ==
  /\ disk \in InitMaps
  /\ run = Idle
  /\ before = disk

\* A map of a Series 4 has its database at Fixed and needs all numbers up to it;
\* for others the script only warns.
MayShrink == disk[Fixed].name = "SQLite" => Count >= Fixed + 1

Begin(a, b) ==
  /\ run = Idle
  /\ a <= b
  /\ disk[a].type = "MFS" /\ disk[b].type = "MFS"
  /\ disk[a].size = Optimal(disk[a])
  /\ disk[a].first + Optimal(disk[a]) = disk[b].first
  /\ MayShrink
  /\ run' = [at |-> "size", a |-> a, b |-> b, i |-> 0, count |-> Count,
             size |-> Optimal(disk[a]) + disk[b].size]
  /\ before' = disk
  /\ UNCHANGED disk

\* apm_set_partition_size.sh: two dd's, of which the second repeats the size in a field
\* that no script reads and the entries of this model do not have.
SetSize ==
  /\ run \notin {Idle, Stopped} /\ run.at = "size"
  /\ disk' = [disk EXCEPT ![run.a].size = run.size]
  /\ run' = [run EXCEPT !.at = "move", !.i = run.b]
  /\ UNCHANGED before

\* Mutant: the entry that moves is one too far.
SourceSkip(i) == i + 2

\* The entry that moves to i: the next one that is not Fixed.
Source(i) == IF i = Fixed - 1 THEN i + 2 ELSE i + 1

\* Is there another entry to move down?
Moving(i) == i < Fixed

MoveEntry ==
  /\ run \notin {Idle, Stopped} /\ run.at = "move" /\ Moving(run.i)
  /\ disk' = [disk EXCEPT ![run.i] = disk[Source(run.i)]]
  /\ run' = [run EXCEPT !.i = @ + 1]
  /\ UNCHANGED before

ClearLast ==
  /\ run \notin {Idle, Stopped} /\ run.at = "move" /\ ~Moving(run.i)
  /\ disk' = [disk EXCEPT ![run.count] = Empty]
  /\ run' = [run EXCEPT !.at = "count", !.i = 1]
  /\ UNCHANGED before

\* Mutant: one entry short.
CountedShort(n) == 1..(n - 2)

\* The entries that are told the new count, one at a time.
CountedIn(n) == 1..(n - 1)

SetCount ==
  /\ run \notin {Idle, Stopped} /\ run.at = "count" /\ run.i \in CountedIn(run.count)
  /\ disk' = [disk EXCEPT ![run.i].count = run.count - 1]
  /\ run' = [run EXCEPT !.i = @ + 1]
  /\ UNCHANGED before

Finish ==
  /\ run \notin {Idle, Stopped} /\ run.at = "count" /\ run.i \notin CountedIn(run.count)
  /\ run' = Idle
  /\ UNCHANGED <<disk, before>>

\* The script is interrupted; the user has the map it saved.
Stop ==
  /\ run \notin {Idle, Stopped}
  /\ run' = Stopped
  /\ UNCHANGED <<disk, before>>

Next ==
  \/ \E a, b \in 1..Slots : Begin(a, b)
  \/ SetSize \/ MoveEntry \/ ClearLast \/ SetCount \/ Finish \/ Stop

Spec == Init /\ [][Next]_vars
-----------------------------------------------------------------------------
\* Wherever the script is interrupted, no block that belonged to a partition is
\* orphaned: an entry the count covers still has it, under the name it had or
\* joined to the partition in front.
NothingLost ==
  \A k \in Entries(before) :
    \E j \in Entries(disk) :
      /\ disk[j].type = before[k].type
      /\ Blocks(before[k]) \subseteq Blocks(disk[j])

\* "partition 14 cannot be moved": the database of a Series 4 keeps its number.
FixedStays ==
  before[Fixed].name = "SQLite" =>
    /\ disk[Fixed].name = "SQLite"
    /\ Fixed \in Entries(disk)
    /\ Blocks(disk[Fixed]) = Blocks(before[Fixed])

\* Wherever the script stops, every block still belongs to what it belonged to,
\* and the database to the number a Series 4 looks for it at.
KeepsData == NothingLost /\ FixedStays

\* A map the script is done with is one the TiVo can use: no blank entry, no
\* block in two partitions, and every entry agrees on their number.
CleanMap ==
  run = Idle =>
    /\ \A k \in Entries(disk) : disk[k].type # "" /\ disk[k].count = Count
    /\ \A j, k \in Entries(disk) : j < k => Blocks(disk[j]) \cap Blocks(disk[k]) = {}
=============================================================================
