------------------------------ MODULE PartTable ------------------------------
(***************************************************************************)
(* The partition table cache of MFSTools (lib/macpart.c): the table a tool *)
(* keeps in memory for one device, the partitions it holds open, and the   *)
(* map sectors on the drive.  A tool reads the table on first use, opens   *)
(* partitions, carves new ones out of Apple_Free space and writes the map  *)
(* back sector by sector; it may die at any point of that write.           *)
(*                                                                         *)
(* Slots are 1-based here: slot n is partitions[n - 1] of the code and     *)
(* partition number n of the user.  Names, byte swapping and allocation    *)
(* failures are left out.                                                  *)
(***************************************************************************)
EXTENDS Integers, Sequences, FiniteSets

CONSTANTS
  DevSize,     \* sectors of the device
  MapSectors,  \* sectors of the partition map: partitions[0].sectors, allocated
  Handles,     \* names for the open partition files (tpFILE *)
  InitDisks,   \* the maps the device may carry before the first tool runs
  Sizes,       \* the sizes tools ask tivo_partition_add for
  Crashes,     \* may the tool die while it writes the table?
  BadSectors,  \* map sectors a write may fail on (0: the boot block)
  NoTable,     \* no table is cached for the device
  Blank        \* a map sector without the partition signature

Types == {"map", "free", "data", "other"}  \* data: MFS; other: anything else that is not free
Flags == {"VALID", "DIRTY", "NONINIT"}

Entry     == [start : Nat, sectors : Nat, type : Types, refs : Nat]
DiskEntry == [count : Nat, start : Nat, sectors : Nat, type : Types]
Disk      == [1..MapSectors -> DiskEntry \cup {Blank}]
Table     == [parts : Seq(Entry), refs : Nat, flags : SUBSET Flags]

ASSUME SizesAssumption == /\ DevSize \in Nat
                          /\ MapSectors \in Nat \ {0}
                          /\ Sizes \subseteq Nat \ {0}
                          /\ Crashes \in BOOLEAN
                          /\ BadSectors \subseteq 0..MapSectors
ASSUME HandlesAssumption == IsFiniteSet(Handles)
ASSUME NoneAssumption == NoTable \notin Table /\ Blank \notin DiskEntry
ASSUME DisksAssumption == InitDisks \subseteq Disk

VARIABLES
  boot,  \* does the boot block carry TiVo's magic?
  disk,  \* the map sectors of the device, sector k describes slot k
  tab,   \* the cached table of the running tool
  file,  \* per handle: the slot pointed to (0: closed) and, as history, what
         \* that slot held when it was opened and whether the drive agreed
  wr     \* next map sector of a write in progress (0: the boot block), or Idle

vars == <<boot, disk, tab, file, wr>>

Idle == -1
Closed == [slot |-> 0, start |-> 0, sectors |-> 0, clean |-> FALSE]
Open(h) == file[h].slot # 0

-----------------------------------------------------------------------------
(* tivo_read_partition_table: the first entry, then those up to the count   *)
(* it gives or the first sector without a signature.  That a table with     *)
(* more entries than parts[0] has sectors is refused does not show: the     *)
(* first entry is the map itself, and no sectors are read beyond it.        *)

ReadCount ==
  CHOOSE n \in 1..MapSectors :
    /\ n = 1 \/ n <= disk[1].count
    /\ \A k \in 1..n : disk[k] # Blank
    /\ n >= disk[1].count \/ n = MapSectors \/ disk[n + 1] = Blank

ReadTable ==
  IF ~boot \/ disk[1] = Blank THEN NoTable
  ELSE [parts |-> [k \in 1..ReadCount |->
                     [start |-> disk[k].start, sectors |-> disk[k].sectors,
                      type |-> disk[k].type, refs |-> 1]],
        refs |-> 0, flags |-> {}]

\* The cached table, or the one on the drive when none is cached.
Cached == IF tab # NoTable THEN tab ELSE ReadTable

-----------------------------------------------------------------------------
(* tivo_partition_validate.                                                 *)

Before(q, i, j) == q[i].start < q[j].start \/ (q[i].start = q[j].start /\ i <= j)
Closest(q, I)   == CHOOSE i \in I : \A j \in I : Before(q, i, j)

\* The walk over the drive from sector pos: where it ends, the slots it met,
\* and whether it met an empty partition.  The code looks for gaps in front
\* of partitions[count] instead of the partition found, so gaps go unseen and
\* pos advances by the partition's size wherever the partition starts.
Walk(q) ==
  LET from[pos \in Nat] ==
        LET I == {i \in 1..Len(q) : q[i].start >= pos}
            n == Closest(q, I)
        IN  IF pos >= DevSize \/ I = {} THEN [end |-> pos, used |-> {}, empty |-> FALSE]
            ELSE IF q[n].sectors = 0 THEN [end |-> pos, used |-> {n}, empty |-> TRUE]
            ELSE LET r == from[pos + q[n].sectors]
                 IN  [r EXCEPT !.used = @ \cup {n}]
  IN  from[1]

Filler(end) == [start |-> end, sectors |-> DevSize - end, type |-> "free", refs |-> 1]

\* The outcomes of validating table t.  With a full array partitions[count] is
\* one past its end: whatever is found there may pass for a gap, which fails.
\* A table that turns out to be invalid keeps the filler it was given.
Validations(t) ==
  LET w     == Walk(t.parts)
      fail  == [ok |-> FALSE, table |-> t]
      short == w.end \in 1..(DevSize - 1)
      q     == IF short THEN Append(t.parts, Filler(w.end)) ELSE t.parts
      seen  == w.used \cup (IF short THEN {Len(q)} ELSE {})
      full  == Len(t.parts) >= MapSectors
  IN  IF "VALID" \in t.flags THEN {[ok |-> TRUE, table |-> t]}
      ELSE IF w.empty \/ w.end > DevSize \/ (short /\ full) THEN {fail}
      ELSE (IF full THEN {fail} ELSE {}) \cup
           (IF seen = 1..Len(q)
            THEN {[ok |-> TRUE, table |-> [t EXCEPT !.parts = q, !.flags = @ \cup {"VALID"}]]}
            ELSE {[ok |-> FALSE, table |-> [t EXCEPT !.parts = q]]})

-----------------------------------------------------------------------------
(* The searches over Apple_Free partitions.                                 *)

\* Mutant: any partition will do, free or not.
FreeFromAny(q, sp, last) == {i \in sp..Len(q) : q[i].start >= last}

FreeFrom(q, sp, last) ==
  {i \in sp..Len(q) : q[i].type = "free" /\ q[i].start >= last}

\* Mutant: forgets the partitions in use.
FirstMovableAny(q) == 2

\* No partition in use lies at or after this slot.
FirstMovable(q) ==
  1 + CHOOSE m \in {1} \cup {i \in 2..Len(q) : q[i].refs > 1} :
        \A i \in 2..Len(q) : q[i].refs > 1 => i <= m

NoRoom == -1

\* Mutant: wants one sector more than asked for.
FirstFitStrict(q, sp, size) ==
  LET grow[r \in Nat \X Nat] ==
        LET I == FreeFrom(q, sp, r[2])
            n == q[Closest(q, I)]
        IN  IF r[2] - r[1] > size THEN r[1]
            ELSE IF I = {} THEN NoRoom
            ELSE grow[<<IF n.start = r[2] THEN r[1] ELSE n.start, n.start + n.sectors>>]
  IN  grow[<<0, 0>>]

\* Where tivo_partition_add finds size contiguous free sectors, joining free
\* partitions that follow one another on the drive.
FirstFit(q, sp, size) ==
  LET grow[r \in Nat \X Nat] ==
        LET first == r[1]
            last  == r[2]
            I     == FreeFrom(q, sp, last)
            n     == q[Closest(q, I)]
        IN  IF last - first >= size THEN first
            ELSE IF I = {} THEN NoRoom
            ELSE grow[<<IF n.start = last THEN first ELSE n.start, n.start + n.sectors>>]
  IN  grow[<<0, 0>>]

-----------------------------------------------------------------------------
(* tivo_partition_add: the array operations once [first, last) is chosen.   *)

\* Does an entry start in the range, and does it lie in it to its end?
StartsIn(e, first, last) == e.start >= first /\ e.start < last
Inside(e, first, last)   == StartsIn(e, first, last) /\ e.start + e.sectors <= last

\* The slots memmove removes.  The loop goes on at the next index after a
\* removal, so the entry that moved into the removed slot is never looked at.
Removed(q, sp, first, last) ==
  LET gone[i \in 0..Len(q)] == /\ i >= sp
                               /\ Inside(q[i], first, last)
                               /\ ~gone[i - 1]
  IN  {i \in sp..Len(q) : gone[i]}

\* Mutant: forgets to shorten the entry the range ends in.
Untrimmed(q, i, gone, first, last) == q[i]

\* An entry that reaches beyond last keeps its end; skipped ones are untouched.
Trimmed(q, i, gone, first, last) ==
  IF /\ i - 1 \notin gone
     /\ StartsIn(q[i], first, last) /\ ~Inside(q[i], first, last)
  THEN [start |-> last, sectors |-> q[i].start + q[i].sectors - last,
        type |-> q[i].type, refs |-> q[i].refs]
  ELSE q[i]

Nth(K, n) == CHOOSE i \in K : Cardinality({k \in K : k <= i}) = n

Swept(q, sp, first, last) ==
  LET gone == Removed(q, sp, first, last)
      kept == (sp..Len(q)) \ gone
  IN  SubSeq(q, 1, sp - 1) \o
      [n \in 1..Cardinality(kept) |-> Trimmed(q, Nth(kept, n), gone, first, last)]

\* The slot a new partition gets: the one asked for, else the one after the
\* last partition that is not free.
NewSlot(q, before) ==
  IF before \in 2..(Len(q) + 1) THEN before
  ELSE 1 + CHOOSE b \in {1} \cup {i \in 2..Len(q) : q[i].type # "free"} :
             \A i \in 2..Len(q) : q[i].type # "free" => i <= b

Inserted(q, slot, e) == SubSeq(q, 1, slot - 1) \o <<e>> \o SubSeq(q, slot, Len(q))

WithPartition(q, sp, first, size, before) ==
  LET s == Swept(q, sp, first, first + size)
  IN  Inserted(s, NewSlot(s, before),
               [start |-> first, sectors |-> size, type |-> "data", refs |-> 1])

-----------------------------------------------------------------------------
Init ==
  /\ disk \in InitDisks
  /\ boot = (disk[1] # Blank)
  /\ tab = NoTable
  /\ file = [h \in Handles |-> Closed]
  /\ wr = Idle

\* tivo_partition_count and every other call that only needs the table.
Load ==
  /\ wr = Idle /\ tab = NoTable
  /\ tab' = ReadTable
  /\ UNCHANGED <<boot, disk, file, wr>>

\* tivo_partition_total_free, tivo_partition_largest_free: they validate.
QueryFree ==
  /\ wr = Idle /\ Cached # NoTable
  /\ \E v \in Validations(Cached) : tab' = v.table
  /\ UNCHANGED <<boot, disk, file, wr>>

\* Does tivo_partition_add give up on the validated table v?
Refused(v, size, before) ==
  \/ ~v.ok
  \/ Len(v.table.parts) + 1 >= MapSectors
  \/ before \in 2..(FirstMovable(v.table.parts) - 1)
  \/ FirstFit(v.table.parts, FirstMovable(v.table.parts), size) = NoRoom

AddFails(size, before) ==
  /\ wr = Idle /\ Cached # NoTable
  /\ \E v \in Validations(Cached) : /\ Refused(v, size, before)
                                    /\ tab' = v.table
  /\ UNCHANGED <<boot, disk, file, wr>>

Add(size, before) ==
  /\ wr = Idle /\ Cached # NoTable
  /\ \E v \in Validations(Cached) :
       LET q  == v.table.parts
           sp == FirstMovable(q)
       IN  /\ ~Refused(v, size, before)
           /\ \E i \in sp..Len(q) :
                /\ q[i].start = FirstFit(q, sp, size)
                /\ tab' = [v.table EXCEPT
                             !.parts = WithPartition(q, sp, q[i].start, size, before),
                             !.flags = @ \cup {"DIRTY"}]
  /\ UNCHANGED <<boot, disk, file, wr>>

\* tivo_partition_rrpart: a table in use cannot be dropped.
Droppable ==
  tab # NoTable => tab.refs = 0 /\ \A i \in 1..Len(tab.parts) : tab.parts[i].refs <= 1

\* tivo_partition_table_init.
InitTable ==
  /\ wr = Idle
  /\ Droppable
  /\ tab' = [parts |-> <<[start |-> 1, sectors |-> MapSectors, type |-> "map", refs |-> 1]>>,
             refs |-> 0, flags |-> {"NONINIT"}]
  /\ UNCHANGED <<boot, disk, file, wr>>

\* Mutant: a flag instead of a count.
RefFlag(q, n, d) == [q EXCEPT ![n].refs = IF d > 0 THEN 2 ELSE 1]

\* Count d more references to slot n, and to the table.
Ref(q, n, d) == [q EXCEPT ![n].refs = @ + d]

\* Mutant: counts the table's references the wrong way.
CountedDown(t, n, d) ==
  [parts |-> Ref(t.parts, n, d), refs |-> t.refs - d, flags |-> t.flags]

Counted(t, n, d) ==
  [parts |-> Ref(t.parts, n, d), refs |-> t.refs + d, flags |-> t.flags]

\* tivo_partition_open_direct.  Tools open the map or partitions that carry
\* data, never free space.
OpenPart(h, n) ==
  /\ wr = Idle /\ Cached # NoTable /\ ~Open(h)
  /\ "NONINIT" \notin Cached.flags
  /\ n <= Len(Cached.parts) /\ Cached.parts[n].type # "free"
  /\ tab' = Counted(Cached, n, 1)
  /\ file' = [file EXCEPT ![h] = [slot |-> n, start |-> Cached.parts[n].start,
                                  sectors |-> Cached.parts[n].sectors,
                                  clean |-> "DIRTY" \notin Cached.flags]]
  /\ UNCHANGED <<boot, disk, wr>>

\* tivo_partition_close: the counts go down on whatever the slot holds now.
ClosePart(h) ==
  /\ wr = Idle /\ Open(h)
  /\ tab' = Counted(tab, file[h].slot, -1)
  /\ file' = [file EXCEPT ![h] = Closed]
  /\ UNCHANGED <<boot, disk, wr>>

\* tivo_partition_table_write, one sector per step.
BeginWrite ==
  /\ wr = Idle /\ tab # NoTable /\ "DIRTY" \in tab.flags
  /\ wr' = IF "NONINIT" \in tab.flags THEN 0 ELSE 1
  /\ tab' = [tab EXCEPT !.flags = @ \ {"NONINIT"}]
  /\ UNCHANGED <<boot, disk, file>>

WriteBoot ==
  /\ wr = 0
  /\ boot' = TRUE
  /\ wr' = 1
  /\ UNCHANGED <<disk, tab, file>>

\* Mutant: the count of the entries written so far.
MapSectorSoFar(q, k) ==
  IF k > Len(q) THEN Blank
  ELSE [count |-> k, start |-> q[k].start, sectors |-> q[k].sectors, type |-> q[k].type]

MapSector(q, k) ==
  IF k > Len(q) THEN Blank
  ELSE [count |-> Len(q), start |-> q[k].start, sectors |-> q[k].sectors, type |-> q[k].type]

WriteSector ==
  /\ wr > 0 /\ wr <= Len(tab.parts) + 1 /\ wr <= MapSectors
  /\ disk' = [disk EXCEPT ![wr] = MapSector(tab.parts, wr)]
  /\ wr' = wr + 1
  /\ UNCHANGED <<boot, tab, file>>

EndWrite ==
  /\ wr > 0 /\ (wr > Len(tab.parts) + 1 \/ wr > MapSectors)
  /\ wr' = Idle
  /\ tab' = [tab EXCEPT !.flags = @ \ {"DIRTY"}]
  /\ file' = [h \in Handles |-> IF Open(h) THEN [file[h] EXCEPT !.clean = TRUE] ELSE Closed]
  /\ UNCHANGED <<boot, disk>>

\* A sector cannot be written: the table stays dirty, and counts as initialised.
WriteFails ==
  /\ wr \in BadSectors /\ wr <= Len(tab.parts) + 1
  /\ wr' = Idle
  /\ UNCHANGED <<boot, disk, tab, file>>

\* The tool exits or dies; what it had in memory is gone.
ToolEnds ==
  /\ tab # NoTable
  /\ Crashes \/ wr = Idle
  /\ tab' = NoTable
  /\ file' = [h \in Handles |-> Closed]
  /\ wr' = Idle
  /\ UNCHANGED <<boot, disk>>

Next ==
  \/ Load
  \/ QueryFree
  \/ \E size \in Sizes, before \in 0..MapSectors :
       AddFails(size, before) \/ Add(size, before)
  \/ InitTable
  \/ \E h \in Handles, n \in 1..MapSectors : OpenPart(h, n)
  \/ \E h \in Handles : ClosePart(h)
  \/ BeginWrite
  \/ WriteBoot
  \/ WriteSector
  \/ EndWrite
  \/ WriteFails
  \/ ToolEnds

Spec == Init /\ [][Next]_vars
-----------------------------------------------------------------------------
TypeOK ==
  /\ boot \in BOOLEAN
  /\ disk \in Disk
  /\ tab \in Table \cup {NoTable}
  /\ file \in [Handles -> [slot : Nat, start : Nat, sectors : Nat, clean : BOOLEAN]]
  /\ wr \in {Idle} \cup 0..(MapSectors + 1)

Users(n) == {h \in Handles : file[h].slot = n}

\* The reference counts the code keeps agree with the files that are open, so
\* tivo_partition_rrpart frees a table exactly when nothing points into it.
RefsBalanced ==
  IF tab = NoTable THEN \A h \in Handles : ~Open(h)
  ELSE /\ \A n \in 1..Len(tab.parts) : tab.parts[n].refs = 1 + Cardinality(Users(n))
       /\ \A h \in Handles : Open(h) => file[h].slot <= Len(tab.parts)
       /\ tab.refs = Cardinality({h \in Handles : Open(h)})

\* "Make sure no partitions that are currently being used are affected": what an
\* open file points at is where it was when the file was opened, whatever
\* tivo_partition_add inserts, removes and truncates meanwhile.
InUseStable ==
  \A h \in Handles : Open(h) =>
    /\ tab # NoTable
    /\ file[h].slot <= Len(tab.parts)
    /\ tab.parts[file[h].slot].start = file[h].start
    /\ tab.parts[file[h].slot].sectors = file[h].sectors

\* A tool may die after any sector of a table write: the next tool finds every
\* partition that was in use at the same number and place.
InUseSurvivesCrash ==
  \A h \in Handles : Open(h) /\ file[h].clean =>
    /\ ReadTable # NoTable
    /\ file[h].slot <= Len(ReadTable.parts)
    /\ ReadTable.parts[file[h].slot].start = file[h].start
    /\ ReadTable.parts[file[h].slot].sectors = file[h].sectors

\* A table that counts as written: no call has changed it since.
Settled == tab # NoTable /\ wr = Idle /\ tab.flags \cap {"DIRTY", "NONINIT"} = {}

\* "Writes a partition table back to disk": every entry the next tool reads is
\* the one in memory, and what memory has beyond those is free space.
ReadsBack ==
  Settled =>
    /\ ReadTable # NoTable
    /\ Len(ReadTable.parts) <= Len(tab.parts)
    /\ \A k \in 1..Len(ReadTable.parts) :
         /\ tab.parts[k].start = ReadTable.parts[k].start
         /\ tab.parts[k].sectors = ReadTable.parts[k].sectors
         /\ tab.parts[k].type = ReadTable.parts[k].type
    /\ \A k \in (Len(ReadTable.parts) + 1)..Len(tab.parts) : tab.parts[k].type = "free"

\* A table that counts as written is the one the next tool reads, but for the
\* one filler that validation may have appended.
CleanReadsBack ==
  /\ ReadsBack
  /\ Settled => Len(tab.parts) <= Len(ReadTable.parts) + 1

Sectors(e) == e.start..(e.start + e.sectors - 1)
Valid == tab # NoTable /\ "VALID" \in tab.flags

\* "If there was a gap, create a partition to fill it": a validated table
\* accounts for every sector after the boot block.
NoGaps ==
  Valid => \A s \in 1..(DevSize - 1) :
             \E i \in 1..Len(tab.parts) : s \in Sectors(tab.parts[i])

\* "Delete all partitions that fall within the now used range": in a validated
\* table no sector belongs to two partitions.
NoOverlap ==
  Valid => \A i, j \in 1..Len(tab.parts) :
             i < j => Sectors(tab.parts[i]) \cap Sectors(tab.parts[j]) = {}

\* Both together: the table tiles the device.
Tiles == NoGaps /\ NoOverlap

FreeSectors(q, sp) == UNION {Sectors(q[i]) : i \in {i \in sp..Len(q) : q[i].type = "free"}}
Runs(q, sp, size)  == {s \in 1..DevSize : s..(s + size - 1) \subseteq FreeSectors(q, sp)}

\* The search finds room exactly when there is some, and then the lowest.
FirstFitIsLowest ==
  Valid => \A size \in Sizes :
    LET sp == FirstMovable(tab.parts)
        f  == FirstFit(tab.parts, sp, size)
        R  == Runs(tab.parts, sp, size)
    IN  IF R = {} THEN f = NoRoom ELSE f \in R /\ \A s \in R : f <= s

Data(q) == {[start |-> q[i].start, sectors |-> q[i].sectors, type |-> q[i].type] :
              i \in {i \in 1..Len(q) : q[i].type # "free"}}

\* Adding a partition takes free space only: every partition with data keeps
\* its place and size, and exactly one appears.
AddKeepsData ==
  [][(\E size \in Sizes, before \in 0..MapSectors : Add(size, before)) =>
       /\ Data(Cached.parts) \subseteq Data(tab'.parts)
       /\ Cardinality(Data(tab'.parts)) = Cardinality(Data(Cached.parts)) + 1]_vars
=============================================================================
