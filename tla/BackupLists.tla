----------------------------- MODULE BackupLists -----------------------------
(***************************************************************************)
(* What a backup decides to copy (backup.c and backmain.c of MFSTools):    *)
(* opening the volume set, the system partitions, the scan of all inodes   *)
(* into a list of blocks per volume, the volumes that are copied whole and *)
(* those that "shrink" leaves out.  The list of a volume is a sequence of  *)
(* marks: from the sector of one to that of the next the volume is copied  *)
(* or not.                                                                 *)
(*                                                                         *)
(* A disk set is a record: the sizes of the volumes its header lists, how  *)
(* many of them are there, the total the header gives, the inodes, the     *)
(* zones and what the boot page says.  Allocation blocks are one sector,   *)
(* memory suffices.                                                        *)
(***************************************************************************)
EXTENDS Integers, Sequences, SequencesExt, FiniteSetsExt

CONSTANTS
  Sets,     \* the disk sets
  Options,  \* command lines: [shrink, bysize, tot, streamtot, incomplete, var : BOOLEAN, thresh : Nat]
  Hosts     \* byte orders of the machine the tool was built for: "big", "little"

Run   == [sector : Nat, count : Nat \ {0}]
Inode == [stream : BOOLEAN, fsid : Nat, size : Nat, used : Nat, runs : Seq(Run)]
Zone  == [media : BOOLEAN, sector : Nat, length : Nat, first : Nat, last : Nat]

ASSUME SetsAssumption ==
  \A s \in Sets : /\ s.volumes \in Seq(Nat \ {0}) /\ s.there \in 1..Len(s.volumes) /\ s.total \in Nat
                  /\ s.inodes \in Seq(Inode) /\ s.zones \in Seq(Zone)
ASSUME HostsAssumption == Hosts \subseteq {"big", "little"}

VARIABLES
  set,      \* the disk set that is backed up
  flags,    \* back_flags and thresh, and the host
  parts,    \* the numbers of the system partitions to copy
  at,       \* the inode the scan is at
  lists,    \* the marks of each volume: [sector, backup]
  highest,  \* the end of the data that has to be kept
  kept,     \* nmfs: how many volumes go into the backup
  blocks,   \* the list of blocks in the backup: [sector, count]
  error,    \* err_msg is set
  stage     \* "open", "parts", "scan", "volumes", "lists", "started", "refused"

backupVars == <<set, flags, parts, at, lists, highest, kept, blocks, error, stage>>

Larger(a, b)  == IF a > b THEN a ELSE b
Smaller(a, b) == IF a < b THEN a ELSE b

\* Where the volumes that are there begin, and the end of the last.
Start == [v \in 1..(set.there + 1) |-> FoldLeft(LAMBDA n, s : n + s, 0, SubSeq(set.volumes, 1, v - 1))]
SetEnd == Start[set.there + 1]

-----------------------------------------------------------------------------
(* backup_add_block.                                                        *)

Mark(sector, backup) == [sector |-> sector, backup |-> backup]
Copied(sector, count) == <<Mark(sector, TRUE), Mark(sector + count, FALSE)>>

\* The marks behind mark k that it swallows are dropped.
Swallows(mark, other) == other.sector < mark.sector \/ other.backup = mark.backup
Merged(list, k) ==
  LET rest == SubSeq(list, k + 1, Len(list))
      n    == Min({j \in 0..Len(rest) : j = Len(rest) \/ ~Swallows(list[k], rest[j + 1])})
  IN  SubSeq(list, 1, k) \o SubSeq(rest, n + 1, Len(rest))

\* The volume sector is in, the last one if it is beyond.
VolumeOf(sector) == Max({v \in 1..set.there : Start[v] <= sector})

\* One volume's marks with a block added; <<>> if no case applies.
WithBlock(list, sector, count) ==
  LET behind == {k \in DOMAIN list : list[k].sector >= sector}
      k      == Min(behind)
      end    == sector + count
  IN  IF behind = {} THEN list \o Copied(sector, count)
      ELSE IF list[k].backup /\ end >= list[k].sector
      THEN Merged([list EXCEPT ![k].sector = sector], k)
      ELSE IF list[k].backup
      THEN SubSeq(list, 1, k - 1) \o Copied(sector, count) \o SubSeq(list, k, Len(list))
      ELSE IF k > 1 /\ list[k].sector < end
      THEN Merged([list EXCEPT ![k].sector = end], k)
      ELSE IF k = 1
      THEN Merged(Copied(sector, count) \o Tail(list), 2)
      ELSE <<>>

AddBlock(ls, sector, count) == [ls EXCEPT ![VolumeOf(sector)] = WithBlock(@, sector, count)]
NoCase(ls) == <<>> \in Range(ls)

-----------------------------------------------------------------------------
(* backup_main and init_backup.                                             *)

\* The header and the volumes do not agree, or not all are there.
Damaged == set.there < Len(set.volumes) \/ SetEnd # set.total

\* backup_verify_zone_maps of the zones whose maps are there.  The type of a
\* zone is compared as it is on the disk, most significant byte first.
IsMediaHere(z) == z.media /\ flags.host = "big"
ZoneMapThere(z) == z.sector + z.length <= SetEnd
ZonesWithin == \A z \in Range(set.zones) : ZoneMapThere(z) /\ ~IsMediaHere(z) => z.first < SetEnd

\* backup_check_truncated_volume: a damaged set may be backed up, shrunk.
Rescued == flags.incomplete /\ ZonesWithin

\* backup_main up to backup_start, with init_backup.
Open ==
  /\ stage = "open"
  /\ flags' = [flags EXCEPT !.incomplete = @ /\ Damaged, !.shrink = @ \/ (flags.incomplete /\ Damaged)]
  /\ stage' = IF Damaged /\ ~Rescued THEN "refused" ELSE "parts"
  /\ error' = (stage' = "refused")
  /\ UNCHANGED <<set, parts, at, lists, highest, kept, blocks>>

\* add_partitions_to_backup_info: the boot page names the kernel, partition 3
\* or 6, and may name a root partition of its own (0: it does not).
AddPartitions ==
  /\ stage = "parts"
  /\ stage' = IF set.kernel \in {3, 6} THEN "scan" ELSE "refused"
  /\ error' = (stage' = "refused")
  /\ parts' = IF error' THEN parts
              ELSE <<set.kernel - 1, set.kernel, IF set.root = 0 THEN set.kernel + 1 ELSE set.root>>
                     \o (IF flags.var THEN <<9>> ELSE <<>>)
  /\ UNCHANGED <<set, flags, at, lists, highest, kept, blocks>>

-----------------------------------------------------------------------------
(* scan_inodes.                                                             *)

\* The length by which a stream is chosen, and how much of one is copied.
JudgedBy(inode) == IF flags.tot \/ flags.streamtot THEN inode.size ELSE inode.used
CopiedOf(inode) == IF flags.tot /\ ~flags.streamtot THEN inode.used ELSE JudgedBy(inode)

Chosen(inode) ==
  /\ JudgedBy(inode) > 0
  /\ IF flags.bysize THEN JudgedBy(inode) < flags.thresh ELSE inode.fsid <= flags.thresh

\* Mutant: the whole run is copied when only its beginning is used.
AddRunWhole(w, run) ==
  LET this == Smaller(run.count, w.left)
      ls   == AddBlock(w.lists, run.sector, run.count)
  IN  IF w.stop THEN w
      ELSE [lists   |-> ls, left |-> w.left - this, stop |-> NoCase(ls) \/ w.left = this,
            highest |-> IF w.left = this THEN w.highest ELSE Larger(w.highest, run.sector + this)]

\* One run of a stream.  The run with which it ends does not raise highest.
AddRun(w, run) ==
  LET this == Smaller(run.count, w.left)
      ls   == AddBlock(w.lists, run.sector, this)
  IN  IF w.stop THEN w
      ELSE [lists   |-> ls, left |-> w.left - this, stop |-> NoCase(ls) \/ w.left = this,
            highest |-> IF w.left = this THEN w.highest ELSE Larger(w.highest, run.sector + this)]

Ends(runs) == {run.sector + run.count : run \in Range(runs)}

\* scan_inodes, one inode.  A block that fits no case ends the scan with an
\* error, which backup_start does not see: it goes on with an empty list.
ScanInode ==
  /\ stage = "scan" /\ at <= Len(set.inodes)
  /\ LET inode == set.inodes[at]
         w0    == [lists |-> lists, left |-> CopiedOf(inode), highest |-> highest, stop |-> FALSE]
     IN  IF inode.stream /\ Chosen(inode)
         THEN \E w \in {FoldLeft(AddRun, w0, inode.runs)} :
                /\ lists' = w.lists /\ highest' = w.highest
                /\ error' = NoCase(w.lists)
                /\ stage' = IF error' THEN "lists" ELSE stage
         ELSE /\ highest' = IF inode.stream THEN highest ELSE Max({highest} \cup Ends(inode.runs))
              /\ UNCHANGED <<lists, error, stage>>
  /\ at' = at + 1
  /\ UNCHANGED <<set, flags, parts, kept, blocks>>

\* Mutant: what the zones need is not looked at.
NeededWithoutZones == highest

\* What shrinking has to keep besides the files: every zone but media zones.
NeededEnd ==
  LET Of(z) == {z.sector + z.length, z.last}
  IN  IF ~flags.shrink THEN highest
      ELSE Max({highest} \cup UNION {Of(z) : z \in {z \in Range(set.zones) : ~z.media}})

\* scan_inodes, when it has seen all inodes: a set that is not complete has to
\* hold all the files.
EndScan ==
  /\ stage = "scan" /\ at > Len(set.inodes)
  /\ error' = (flags.incomplete /\ highest > SetEnd)
  /\ stage' = IF error' THEN "lists" ELSE "volumes"
  /\ highest' = IF error' THEN highest ELSE NeededEnd
  /\ UNCHANGED <<set, flags, parts, at, lists, kept, blocks>>

\* Volumes that shrinking leaves out begin at or behind the end of what is
\* needed; they go in pairs, an application volume first.
Cut == {v \in 1..set.there : v % 2 = 1 /\ Start[v] >= highest}
KeptVolumes == IF flags.shrink /\ Cut # {} THEN Min(Cut) - 1 ELSE set.there

\* scan_inodes: the application volumes are copied whole.
AddVolumes ==
  /\ stage = "volumes"
  /\ kept' = IF flags.shrink THEN KeptVolumes ELSE 0
  /\ lists' = FoldLeft(LAMBDA ls, v : AddBlock(ls, Start[v], set.volumes[v]), lists,
                       SelectSeq([v \in 1..KeptVolumes |-> v], LAMBDA v : v % 2 = 1))
  /\ error' = NoCase(lists')
  /\ stage' = "lists"
  /\ UNCHANGED <<set, flags, parts, at, highest, blocks>>

-----------------------------------------------------------------------------
(* backup_start.                                                            *)

\* add_blocks_to_backup_info: the copied stretches of all lists in turn.
BlocksOf(ls) ==
  LET marks == FlattenSeq(ls)
      first == SelectSeq([k \in DOMAIN marks |-> k], LAMBDA k : marks[k].backup)
  IN  [i \in DOMAIN first |-> [sector |-> marks[first[i]].sector,
                               count  |-> marks[first[i] + 1].sector - marks[first[i]].sector]]

\* add_blocks_to_backup_info and add_mfs_partitions_to_backup_info: without
\* shrinking every volume the header lists, and none may be empty.
Lists ==
  /\ stage = "lists"
  /\ blocks' = IF error THEN <<>> ELSE BlocksOf(lists)
  /\ kept' = IF kept = 0 THEN Len(set.volumes) ELSE kept
  /\ stage' = IF kept' > set.there THEN "refused" ELSE "started"
  /\ error' = (error \/ kept' > set.there)
  /\ UNCHANGED <<set, flags, parts, at, lists, highest>>

BackupInit ==
  /\ set \in Sets
  /\ \E o \in Options, h \in Hosts :
       flags = [shrink |-> o.shrink, bysize |-> o.bysize, tot |-> o.tot, streamtot |-> o.streamtot,
                incomplete |-> o.incomplete, var |-> o.var, thresh |-> o.thresh, host |-> h]
  /\ parts = <<>> /\ at = 1
  /\ lists = [v \in 1..set.there |-> <<Mark(0, FALSE)>>]
  /\ highest = 0 /\ kept = 0 /\ blocks = <<>> /\ error = FALSE /\ stage = "open"

BackupNext == Open \/ AddPartitions \/ ScanInode \/ EndScan \/ AddVolumes \/ Lists

-----------------------------------------------------------------------------
(* Properties of the lists a backup starts with.                            *)

Sectors(run) == run.sector..(run.sector + run.count - 1)
AllSectors(runs) == UNION {Sectors(r) : r \in Range(runs)}

\* The first n sectors of the runs.
Prefix(runs, n) ==
  LET Before(k) == FoldLeft(LAMBDA m, r : m + r.count, 0, SubSeq(runs, 1, k - 1))
  IN  UNION {{runs[k].sector + i : i \in 0..(Smaller(runs[k].count, n - Before(k)) - 1)} : k \in DOMAIN runs}

Streams == {i \in Range(set.inodes) : i.stream /\ JudgedBy(i) > 0}

\* The streams that were asked for: those below the limit.
Asked == {i \in Streams : IF flags.bysize THEN JudgedBy(i) < flags.thresh ELSE i.fsid < flags.thresh}

\* The one just at a limit of numbers: README:154 ("fsid is below N") and the usage
\* (backmain.c:34, "fsids below max") leave it out, backup.c:381 copies it.
AtLimit == {i \in Streams : ~flags.bysize /\ i.fsid = flags.thresh}

StreamData(chosen) == UNION {Prefix(i.runs, CopiedOf(i)) : i \in chosen}
VolumeData == UNION {Start[v]..(Start[v + 1] - 1) : v \in {v \in 1..Smaller(kept, set.there) : v % 2 = 1}}

Started == stage = "started" /\ ~error

\* backup_add_block joins, splits and drops marks: in whatever order inodes
\* come, what is copied is the part of each stream that was asked for and all
\* application volumes that are kept, no sector more or less.  Whether a stream at
\* the limit is one of them is left open (AtLimit): it is copied as asked, or not.
ListExact ==
  Started => \E more \in SUBSET AtLimit :
               AllSectors(blocks) = StreamData(Asked \cup more) \cup VolumeData

\* A restore writes the blocks in the order of the list, each with one call,
\* which cannot cross the end of a volume: blocks ascend, do not overlap and
\* lie in one volume each.  (LeftOutEndsStreams is about a set cut short.)
BlocksInVolumes ==
  Started /\ ~Damaged =>
    /\ \A i, j \in DOMAIN blocks : i < j => blocks[i].sector + blocks[i].count <= blocks[j].sector
    /\ \A b \in Range(blocks) : \E v \in 1..set.there : Start[v] <= b.sector /\ b.sector + b.count <= Start[v + 1]

\* Shrinking never cuts off what the database lives on: the data of every file
\* that is not a stream, and inode and application zones with their maps.
KeepsFiles ==
  Started /\ ~Damaged =>
    /\ \A i \in Range(set.inodes) : ~i.stream => \A e \in Ends(i.runs) : e <= Start[kept + 1]
    /\ \A z \in Range(set.zones) : ~z.media => z.sector + z.length <= Start[kept + 1] /\ z.last < Start[kept + 1]

\* The run in which a stream ends, if n sectors of it are copied.
LastRun(runs, n) ==
  Sectors(runs[Min({k \in DOMAIN runs : FoldLeft(LAMBDA m, r : m + r.count, 0, SubSeq(runs, 1, k)) >= n})])

\* README:144 "Any drives that have been added [...] will be removed, if no data on
\* them is being backed up": a volume that is left out held no more of what is
\* backed up than runs with which streams end.
LeftOutEndsStreams ==
  Started => \A x \in AllSectors(blocks) : x >= Start[kept + 1] =>
    \E i \in Asked \cup AtLimit : x \in LastRun(i.runs, CopiedOf(i))

\* What is copied is what was asked for, each block once, for every inode and every
\* order in which the lists were merged, and of it the volumes that are left out held
\* no more than they may.
ListRight == ListExact /\ BlocksInVolumes /\ LeftOutEndsStreams
=============================================================================
