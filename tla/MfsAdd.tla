-------------------------------- MODULE MfsAdd --------------------------------
(***************************************************************************)
(* mfsadd (mfsadd/mfsadd.c): the program that composes the partition table *)
(* and the volume set.  A run checks its options, carves new partitions    *)
(* out of the tables it has in memory, writes the tables that changed,     *)
(* and only then adds the pairs to the set; it may be stopped or refused   *)
(* in between, and be run again on what is left.                           *)
(*                                                                         *)
(* The restore and mfscopy carve in the same way when they are told to fill *)
(* the drives (-x; restore/restmain.c, mfscopy/copy.c), but one drive after *)
(* the other, each pair being added before the next is carved.              *)
(*                                                                         *)
(* A table is that of PartTable, whose operators compute what              *)
(* tivo_partition_add does; a partition of type "data" is one of type MFS, *)
(* "other" is any other that is not free.  A table is written in one step  *)
(* here, PartTable writes its sectors one by one; a pair joins the set in  *)
(* one step, VolumeSet shows that it appears to.                           *)
(***************************************************************************)
EXTENDS Integers, Sequences, FiniteSets, FiniteSetsExt, SequencesExt

CONSTANTS
  DevSize,    \* sectors of each drive
  Allocated,  \* entries a partition table has room for
  Worlds,     \* the drives and volume lists the first run may find
  Options,    \* the command lines
  MinAlloc,   \* sectors of an allocation block (-r)
  MinFree,    \* free space that is not worth extending to
  Round,      \* MFS_PARTITION_ROUND
  MapLen,     \* sectors of a zone map for a number of blocks
  MaxRuns,    \* how often mfsadd is run
  NoTable, Blank

Drives == {"A", "B"}
Part   == Drives \X Nat
Volume == [part : Part, start : Nat, sectors : Nat, sure : BOOLEAN]
Types  == {"map", "free", "data", "other"}
Stored == [start : Nat, sectors : Nat, type : Types]

ASSUME SizesAssumption ==
  /\ DevSize \in [Drives -> Nat] /\ Allocated \in Nat \ {0} /\ MaxRuns \in Nat
  /\ Round \in Nat \ {0} /\ MinAlloc \in Nat \ {0} /\ MinAlloc % Round = 0
  /\ MinFree \in Nat /\ MinFree > 2 * MinAlloc
  /\ \A d \in Drives : \A n \in 0..DevSize[d] : MapLen[n] \in Nat

ASSUME OptionsAssumption ==
  Options \subseteq [b : BOOLEAN, x : BOOLEAN, xs : Seq(Drives), pairs : Seq(Part)]

VARIABLES
  disk,   \* the partition table on each drive
  list,   \* the volumes the header names; as history, where each was when it was
          \* added, and whether its number was sure
  mem,    \* the tables of the running tool
  todo,   \* the pairs it still has to add
  dirty,  \* the drives whose table it still has to write, or which it has to expand
  stage,  \* idle; tables or volumes in mfsadd; expand, table or volume with -x of the others
  runs

vars == <<disk, list, mem, todo, dirty, stage, runs>>

T(d) == INSTANCE PartTable WITH
          DevSize <- DevSize[d], MapSectors <- Allocated, Handles <- {}, InitDisks <- {},
          Sizes <- {}, Crashes <- FALSE, BadSectors <- {}, boot <- TRUE, disk <- disk[d],
          tab <- mem[d], file <- <<>>, wr <- 0

ASSUME NoneAssumption == \A d \in Drives : NoTable \notin T(d)!Table /\ Blank \notin T(d)!DiskEntry

-----------------------------------------------------------------------------
(* lib/macpart.c: the free space, and adding a partition.                   *)

\* Below its 63 entries a table has one outcome.
Validated(d, t) == CHOOSE v \in T(d)!Validations(t) : TRUE

HasRoom(v) == v.ok /\ Len(v.table.parts) + 1 < Allocated

FreeSlots(q) == {i \in 1..Len(q) : q[i].type = "free"}

TotalFree(v) ==
  IF HasRoom(v) THEN MapThenSumSet(LAMBDA i : v.table.parts[i].sectors, FreeSlots(v.table.parts))
  ELSE 0

\* Of free entries that follow one another only the first counts.
LargestFree(v) ==
  LET q     == v.table.parts
      first == {i \in FreeSlots(q) : \A j \in FreeSlots(q) : q[j].start + q[j].sectors # q[i].start}
  IN  IF HasRoom(v) THEN Max({0} \cup {q[i].sectors : i \in first}) ELSE 0

Failed == 0

\* A partition of size sectors from sector first on, in a table with entries q whose
\* slots from sp on may move; sure tells whether no slot before other was given up.
AddAt(d, table, sp, first, size, before, other) ==
  LET q == table.parts
  IN  [part  |-> T(d)!NewSlot(T(d)!Swept(q, sp, first, first + size), before),
       table |-> [table EXCEPT !.parts = T(d)!WithPartition(q, sp, first, size, before),
                               !.flags = @ \cup {"DIRTY"}],
       sure  |-> \A i \in T(d)!Removed(q, sp, first, first + size) : i >= other]

AddFrom(d, table, sp, size, before, other) ==
  AddAt(d, table, sp, T(d)!FirstFit(table.parts, sp, size), size, before, other)

\* A size below zero is, without a sign, one that no drive has.
AddValid(d, v, size, before, other) ==
  IF size <= 0 \/ T(d)!Refused(v, size, before)
  THEN [part |-> Failed, table |-> v.table, sure |-> FALSE]
  ELSE AddFrom(d, v.table, T(d)!FirstMovable(v.table.parts), size, before, other)

\* tivo_partition_add of size sectors: the number of the partition, and whether
\* partition number other is still the one it was.
AddPart(d, t, size, before, other) == AddValid(d, Validated(d, t), size, before, other)

-----------------------------------------------------------------------------
(* mfsadd_add_extends.                                                      *)

AllocBlocks(sectors) == (sectors \div MinAlloc) * MinAlloc

\* mfs_volume_pair_app_size: two copies of the map, and a sector at either end.
AppSize(media) ==
  LET n == 2 + 2 * MapLen[media \div MinAlloc] IN ((n + Round - 1) \div Round) * Round

\* Mutant: always leaves a block for the map.
MediaSizeLess(total, max) == AllocBlocks(max) - MinAlloc

\* As much as there is, less what its map needs if that fits nowhere else.
MediaSize(total, max) ==
  LET whole == AllocBlocks(max)
      app   == AppSize(whole)
  IN  IF total - max < app /\ max - whole < app THEN AllocBlocks(max - app) ELSE whole

NewPair(d, app, media, sure) ==
  [app |-> <<d, app>>, media |-> <<d, media>>, own |-> TRUE, sure |-> sure]

\* A pair of which the partition made last is the last of its drive's table.
Made(s, d, last, app, media) ==
  [ok    |-> app \in 2..16 /\ media \in 2..16,
   mem   |-> [s.mem EXCEPT ![d] = last.table],
   pairs |-> Append(s.pairs, NewPair(d, app, media, last.sure))]

\* The other partition goes in what is left.  When the media partition is made
\* first, it is taken to follow the other.
ThenApp(s, d, required, m) ==
  LET a == AddPart(d, m.table, required, m.part, m.part) IN Made(s, d, a, a.part, m.part + 1)
ThenMedia(s, d, used, a) ==
  LET m == AddPart(d, a.table, used, 0, a.part) IN Made(s, d, m, a.part, m.part)

\* The media partition goes first when the map has room elsewhere only.
CarvePair(s, d, rest, max, used, required) ==
  IF rest >= required /\ max - used < required
  THEN ThenApp(s, d, required, AddPart(d, s.mem[d], used, 0, 0))
  ELSE ThenMedia(s, d, used, AddPart(d, s.mem[d], required, 0, 0))

CarveSize(s, d, rest, max, used) == CarvePair(s, d, rest, max, used, AppSize(used))

\* The pair for a drive with so much free space in all and in one piece.
Carve(s, d, total, max) == CarveSize(s, d, total - max, max, MediaSize(total, max))

ExtendValid(s, d, v) ==
  LET t == [s EXCEPT !.mem[d] = v.table]
  IN  IF LargestFree(v) < MinFree THEN t ELSE Carve(t, d, TotalFree(v), LargestFree(v))

\* Extend the set on drive d, unless an earlier drive could not be extended.
Extend(s, d) == IF s.ok THEN ExtendValid(s, d, Validated(d, s.mem[d])) ELSE s

\* Extend it on the drives of ds, which are two at most.
ExtendNth(s, ds, k) == IF k <= Len(ds) THEN Extend(s, ds[k]) ELSE s
Extended(s, ds) == ExtendNth(ExtendNth(s, ds, 1), ds, 2)

-----------------------------------------------------------------------------
(* The command line, and what a run finds.                                  *)

NameLen(p) == IF p[2] >= 10 THEN 10 ELSE 9

\* strlen of a list of volumes with a space between.
ListLen(parts) == Max({0, Len(parts) - 1 + FoldSeq(LAMBDA p, n : n + NameLen(p), 0, parts)})

InSet(l) == [k \in 1..Len(l) |-> l[k].part]
UsedBy(d) == {p \in ToSet(InSet(list)) : p[1] = d}

\* Does the command line name a B drive, or a partition of one?
WithB(o) == o.b \/ "B" \in ToSet(o.xs) \/ \E k \in 1..Len(o.pairs) : o.pairs[k][1] = "B"

\* The drives to extend: those named, then with -x the others.
AlsoExtend(o, d) == IF o.x /\ d \notin ToSet(o.xs) THEN <<d>> ELSE <<>>
ToExtend(o) == o.xs \o AlsoExtend(o, "A") \o IF WithB(o) THEN AlsoExtend(o, "B") ELSE <<>>

\* The table of a drive as a run that opens the set has it.
Loaded(d) ==
  IF disk[d] = <<>> THEN NoTable
  ELSE [parts |-> [k \in 1..Len(disk[d]) |->
                     [start |-> disk[d][k].start, sectors |-> disk[d][k].sectors,
                      type |-> disk[d][k].type,
                      refs |-> 1 + Cardinality({n \in 1..Len(list) : list[n].part = <<d, k>>})]],
        refs |-> Cardinality({n \in 1..Len(list) : list[n].part[1] = d}), flags |-> {}]

\* tivo_partition_table_init, in memory.
EmptyTable ==
  [parts |-> <<[start |-> 1, sectors |-> Allocated, type |-> "map", refs |-> 1]>>,
   refs |-> 0, flags |-> {"NONINIT"}]

Rounded(n) == (n \div Round) * Round

\* mfs_init, and the numbers that mfsadd_scan_partitions takes.
SetOpens(o) ==
  /\ \A k \in 1..Len(list) :
       /\ list[k].part[1] = "B" => WithB(o)
       /\ list[k].part[2] \in 2..Min({16, Len(disk[list[k].part[1]])})
       /\ Rounded(disk[list[k].part[1]][list[k].part[2]].sectors) > 0
       /\ Rounded(disk[list[k].part[1]][list[k].part[2]].sectors) = Rounded(list[k].sectors)
  /\ IsInjective(InSet(list))

\* Mutant: the last partition of a drive does not exist.
EligibleButLast(p) ==
  /\ p \notin UsedBy(p[1])
  /\ p[2] \in 2..Min({16, Len(disk[p[1]]) - 1})
  /\ p[1] = "A" => p[2] >= 10
  /\ disk[p[1]][p[2]].type = "data"

\* May partition p be given by hand?
Eligible(p) ==
  /\ p \notin UsedBy(p[1])
  /\ p[2] \in 2..Min({16, Len(disk[p[1]])})
  /\ p[1] = "A" => p[2] >= 10
  /\ disk[p[1]][p[2]].type = "data"

Accepted(o) ==
  /\ IsInjective(o.xs) /\ IsInjective(o.pairs) /\ Len(o.pairs) % 2 = 0
  /\ SetOpens(o)
  /\ \A k \in 1..Len(o.pairs) : Eligible(o.pairs[k])

\* Mutant: a B drive is always taken for a new one.
NewBAlways(o) == WithB(o)

\* A B drive of which the set uses nothing is a new one.
NewB(o) == WithB(o) /\ UsedBy("B") = {}

Tables(o) ==
  [d \in Drives |-> IF d = "B" /\ NewB(o) THEN EmptyTable
                    ELSE IF d = "B" /\ ~WithB(o) THEN NoTable ELSE Loaded(d)]

ByHand(o) ==
  [k \in 1..(Len(o.pairs) \div 2) |->
     LET app == o.pairs[2 * k - 1]  media == o.pairs[2 * k]
     IN  [app |-> app, media |-> media, own |-> FALSE,
          sure |-> {app[1], media[1]} \cap ToSet(ToExtend(o)) = {}]]

PartsOf(pairs) == FlattenSeq([k \in 1..Len(pairs) |-> <<pairs[k].app, pairs[k].media>>])

\* Mutant: every name has nine characters.
CountFitsNine(pairs) == ListLen(InSet(list)) + 20 * Len(pairs) < 128

\* check_partition_count
CountFits(pairs) ==
  LET parts == PartsOf(pairs)
  IN  ListLen(InSet(list)) + FoldSeq(LAMBDA p, n : n + NameLen(p) + 1, 0, parts) < 128

Checked(s) == [s EXCEPT !.ok = s.ok /\ CountFits(s.pairs)]

\* What a run decides before it writes anything.
Plan(o) ==
  Checked(Extended([ok |-> TRUE, mem |-> Tables(o), pairs |-> ByHand(o)], ToExtend(o)))

DrivesOf(p) == {p.app[1], p.media[1]}

-----------------------------------------------------------------------------
Init ==
  /\ \E w \in Worlds : disk = w.disk /\ list = w.list
  /\ mem = [d \in Drives |-> NoTable]
  /\ todo = <<>> /\ dirty = {} /\ stage = "idle" /\ runs = 0

\* A run that gets as far as its first write; one that is refused earlier
\* leaves nothing behind.
Run(o) ==
  /\ stage = "idle" /\ runs < MaxRuns
  /\ Accepted(o)
  /\ \E s \in {Plan(o)} :
       /\ s.ok /\ s.pairs # <<>>
       /\ mem' = s.mem
       /\ todo' = s.pairs
       /\ dirty' = UNION {DrivesOf(s.pairs[k]) : k \in 1..Len(s.pairs)}
  /\ stage' = "tables"
  /\ runs' = runs + 1
  /\ UNCHANGED <<disk, list>>

\* The table as tivo_partition_table_write leaves it.
OnDisk(t) ==
  [k \in 1..Len(t.parts) |->
     [start |-> t.parts[k].start, sectors |-> t.parts[k].sectors, type |-> t.parts[k].type]]

\* tivo_partition_table_write of a table that was changed, the A drive's first.
WriteTable(d) ==
  /\ stage = "tables" /\ d \in dirty /\ (d = "B" => "A" \notin dirty)
  /\ dirty' = dirty \ {d}
  /\ IF "DIRTY" \in mem[d].flags
     THEN /\ disk' = [disk EXCEPT ![d] = OnDisk(mem[d])]
          /\ mem' = [mem EXCEPT ![d].flags = @ \ {"DIRTY", "NONINIT"}]
     ELSE UNCHANGED <<disk, mem>>
  /\ UNCHANGED <<list, todo, stage, runs>>

TablesWritten ==
  /\ stage = "tables" /\ dirty = {}
  /\ stage' = "volumes"
  /\ UNCHANGED <<disk, list, mem, todo, dirty, runs>>

\* tivo_partition_open: not of a table that was never written.
Opens(tables, p) ==
  /\ tables[p[1]] # NoTable /\ "NONINIT" \notin tables[p[1]].flags
  /\ p[2] \in 1..Len(tables[p[1]].parts)
  /\ Rounded(tables[p[1]].parts[p[2]].sectors) > 0

Added(p, sure) ==
  [part |-> p, start |-> mem[p[1]].parts[p[2]].start,
   sectors |-> mem[p[1]].parts[p[2]].sectors, sure |-> sure]

\* Is there room in an application partition for the map of a media partition?
MapFits(app, media) == 2 + 2 * MapLen[Rounded(media.sectors) \div MinAlloc] <= Rounded(app.sectors)

\* The bytes of the list of names with two more, and its end.
BytesWith(p, q) == ListLen(InSet(list)) + NameLen(p) + NameLen(q) + 3

\* mfs_add_volume_pair: the list of names, the partitions, the room for the map.
FitsWith(tables, p) ==
  /\ BytesWith(p.app, p.media) < 128
  /\ Opens(tables, p.app) /\ Opens(tables, p.media)
  /\ MapFits(tables[p.app[1]].parts[p.app[2]], tables[p.media[1]].parts[p.media[2]])

PairFits(p) == FitsWith(mem, p)

AddPair ==
  /\ stage = "volumes" /\ todo # <<>>
  /\ PairFits(Head(todo))
  /\ LET p == Head(todo)
     IN  list' = list \o <<Added(p.app, p.sure), Added(p.media, p.sure)>>
  /\ todo' = Tail(todo)
  /\ UNCHANGED <<disk, mem, dirty, stage, runs>>

-----------------------------------------------------------------------------
(* restore -x and mfscopy -x: once the backup is on the drives, they are     *)
(* opened as the set they now are.                                          *)

\* Which drives to try.  A B drive that was named has a table, even when the
\* restore put nothing on it.
Targets(b) == IF b THEN {"A", "B"} ELSE {"A"}

StartExpand(b) ==
  /\ stage = "idle" /\ runs < MaxRuns
  /\ b => disk["B"] # <<>>
  /\ SetOpens([b |-> b, x |-> FALSE, xs |-> <<>>, pairs |-> <<>>])
  /\ mem' = [d \in Drives |-> IF d \in Targets(b) THEN Loaded(d) ELSE NoTable]
  /\ dirty' = Targets(b)
  /\ stage' = "expand"
  /\ runs' = runs + 1
  /\ UNCHANGED <<disk, list, todo>>

\* Is there room to speak of?
Worthwhile(d) == LargestFree(Validated(d, mem[d])) > MinFree

\* The pair that expand_drive makes on drive d, as mfsadd would.
Carved(d, v) ==
  Carve([ok |-> TRUE, mem |-> [mem EXCEPT ![d] = v.table], pairs |-> <<>>],
        d, TotalFree(v), LargestFree(v))

\* mfs_can_add_volume_pair: the list of names.
CanAdd(p) == BytesWith(p.app, p.media) < 128

\* expand_drive up to its first write, the A drive first.  When it fails the tool ends.
ExpandDrive(d) ==
  /\ stage = "expand" /\ d \in dirty /\ (d = "B" => "A" \notin dirty)
  /\ IF Worthwhile(d)
     THEN \E s \in {Carved(d, Validated(d, mem[d]))} :
            /\ s.ok /\ CanAdd(s.pairs[1])
            /\ mem' = s.mem /\ todo' = s.pairs
            /\ stage' = "table"
            /\ UNCHANGED dirty
     ELSE /\ dirty' = dirty \ {d}
          /\ UNCHANGED <<mem, todo, stage>>
  /\ UNCHANGED <<disk, list, runs>>

WriteExpanded ==
  /\ stage = "table"
  /\ LET d == Head(todo).app[1]
     IN  /\ disk' = [disk EXCEPT ![d] = OnDisk(mem[d])]
         /\ mem' = [mem EXCEPT ![d].flags = @ \ {"DIRTY", "NONINIT"}]
  /\ stage' = "volume"
  /\ UNCHANGED <<list, todo, dirty, runs>>

\* The pair joins the set, and the next drive is tried.
AddExpanded ==
  /\ stage = "volume" /\ PairFits(Head(todo))
  /\ LET p == Head(todo)
     IN  /\ list' = list \o <<Added(p.app, p.sure), Added(p.media, p.sure)>>
         /\ dirty' = dirty \ {p.app[1]}
  /\ todo' = <<>> /\ stage' = "expand"
  /\ UNCHANGED <<disk, mem, runs>>

-----------------------------------------------------------------------------
\* The tool is done, was refused the next pair, or is stopped anywhere.
ToolEnds ==
  /\ stage # "idle"
  /\ stage' = "idle" /\ todo' = <<>> /\ dirty' = {}
  /\ mem' = [d \in Drives |-> NoTable]
  /\ UNCHANGED <<disk, list, runs>>

Next ==
  \/ \E o \in Options : Run(o)
  \/ \E d \in Drives : WriteTable(d)
  \/ TablesWritten
  \/ AddPair
  \/ \E b \in BOOLEAN : StartExpand(b)
  \/ \E d \in Drives : ExpandDrive(d)
  \/ WriteExpanded
  \/ AddExpanded
  \/ ToolEnds

Spec == Init /\ [][Next]_vars
-----------------------------------------------------------------------------
PairType == [app : Part, media : Part, own : BOOLEAN, sure : BOOLEAN]

TypeOK ==
  /\ disk \in [Drives -> Seq(Stored)]
  /\ list \in Seq(Volume)
  /\ todo \in Seq(PairType)
  /\ dirty \subseteq Drives
  /\ stage \in {"idle", "tables", "volumes", "expand", "table", "volume"}

\* "Make sure no partitions that are currently being used are affected": whatever is
\* carved out of the drives later, and wherever a run is stopped, the number a
\* volume has in the header leads to the sectors it was added with.  Of a number that
\* was not sure this cannot be said: it may lead to free space, and a partition made
\* later goes before free space, whether that is in use or not.
Stay(l, drives) ==
  \A n \in 1..Len(l) : l[n].sure =>
    LET v == l[n]
    IN  /\ v.part[2] \in 2..Len(drives[v.part[1]])
        /\ drives[v.part[1]][v.part[2]].start = v.start
        /\ drives[v.part[1]][v.part[2]].sectors = v.sectors

\* A run makes two partitions of type MFS for each pair and adds those two, unless
\* it was asked to extend a drive of which it was also given partitions, or what was
\* made last used up free entries in front of what was made first.
Sure(l, drives) ==
  \A n \in 1..Len(l) : l[n].sure =>
    /\ drives[l[n].part[1]][l[n].part[2]].type = "data"
    /\ \A m \in 1..(n - 1) : l[m].sure => l[m].part # l[n].part

\* The volumes of the set are, and stay, the partitions made for them.
VolumesSound == TypeOK /\ Stay(list, disk) /\ Sure(list, disk)

\* The set was made by the restore, of which RestorePlan tells, or by runs like these.
ASSUME WorldsAssumption ==
  \A w \in Worlds : /\ w.disk \in [Drives -> Seq(Stored)] /\ w.disk["A"] # <<>>
                     /\ w.list \in Seq(Volume)
                     /\ Stay(w.list, w.disk) /\ Sure(w.list, w.disk)

\* check_partition_count and mfs_volume_pair_app_size: once the tables are written, no
\* pair made by the run is refused, but for a list of names that fills its 128 bytes
\* exactly: check_partition_count lets it pass, mfs_can_add_volume_pair, which the other
\* two tools call, does not.  The list of names never outgrows the header.
NeverRefusedLate ==
  /\ ListLen(InSet(list)) <= 126
  /\ stage \in {"volumes", "volume"} /\ todo # <<>> /\ Head(todo).own /\ Head(todo).sure =>
       \/ PairFits(Head(todo))
       \/ stage = "volumes" /\ BytesWith(Head(todo).app, Head(todo).media) = 128

HandMade(p, q) == [b |-> TRUE, x |-> FALSE, xs |-> <<>>, pairs |-> <<p, q>>]

\* Is this a partition of type MFS with a number TiVo supports that is not in the set?
LeftOver(p) ==
  /\ p[2] <= Len(disk[p[1]]) /\ disk[p[1]][p[2]].type = "data"
  /\ p \notin UsedBy(p[1])
  /\ p[1] = "A" => p[2] >= 10

\* Two such partitions that make a pair: the first has room for the map of the
\* second, and the names of both fit the 128 bytes of the list.
LeftOverPair(p, q) ==
  /\ LeftOver(p) /\ LeftOver(q) /\ p # q
  /\ Rounded(disk[p[1]][p[2]].sectors) > 0 /\ Rounded(disk[q[1]][q[2]].sectors) > 0
  /\ MapFits(disk[p[1]][p[2]], disk[q[1]][q[2]])
  /\ BytesWith(p, q) <= 128

\* Is a run that is given this pair, and nothing else, let through to its first
\* write, and the pair then added?
AddsByHand(p, q) ==
  /\ Accepted(HandMade(p, q))
  /\ \A s \in {Plan(HandMade(p, q))} : s.ok /\ FitsWith(s.mem, s.pairs[1])

\* "to add existing partitions": what a run that was stopped leaves on the drives of
\* the set is added when it is named, by whatever number it has by then.  A list of
\* names that it would fill to the last of 128 bytes is the exception named in
\* NeverRefusedLate.  Of a B drive that is not yet in the set nothing is said: README:331
\* tells users to make a pair there with pdisk and name it, and the code initialises
\* the drive's table first (mfsadd.c:457), so that the pair is gone.
CanBeFinished ==
  stage = "idle" /\ IsInjective(InSet(list)) =>
    \A p, q \in Drives \X (2..16) :
      LeftOverPair(p, q) /\ UsedBy(p[1]) # {} /\ UsedBy(q[1]) # {} =>
        AddsByHand(p, q) \/ BytesWith(p, q) = 128

\* mfsadd_add_extends: of free space in one piece, no larger media region than the one
\* made would have left room for its map.
LargestPair ==
  stage = "idle" =>
    \A d \in {e \in Drives : Loaded(e) # NoTable} :
      \A v \in {Validated(d, Loaded(d))} :
        \A s \in {Extend([ok |-> TRUE, mem |-> [e \in Drives |-> Loaded(e)], pairs |-> <<>>], d)} :
          LET n     == LargestFree(v)
              media == s.mem[d].parts[s.pairs[1].media[2]].sectors
          IN  Cardinality(FreeSlots(v.table.parts)) = 1 /\ n >= MinFree /\ s.ok =>
                \A b \in (media + 1)..n : b % MinAlloc = 0 => b + AppSize(b) > n

\* Partitions with data stay what they are, at the number or another, on every drive
\* the set uses; a B drive it does not use loses all it has.
OthersKept ==
  [][\A d \in Drives : UsedBy(d) # {} =>
       {e \in ToSet(disk[d]) : e.type # "free"} \subseteq ToSet(disk'[d])]_vars
=============================================================================
