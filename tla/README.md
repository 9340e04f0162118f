# A verification project for TivoTools

TivoTools is a collection of programs that edit the hard drives of TiVo video
recorders: MFSTools (C), tivopart (C, derived from pdisk), jmfs (Java) and a set
of shell scripts that coalesce partitions. All of them change structures that a
recorder needs to boot, on drives that hold the only copy of somebody's
recordings, in several separate writes. That is where the hard properties are:
what a tool leaves behind when it stops half way, when a write fails, or when
the calls come in an order nobody tried.

## Inventory

### MFSTools (`src/mfstools_1.4/source/MFSTools-snapshot050221`)

| part | state | operations | hard behaviour |
|---|---|---|---|
| `lib/macpart.c` | one cached partition table per device, reference counts, dirty and not-initialised flags; the map on the drive | read, validate, total/largest free, add, initialise, rename, open, close, write | array entries move under open files; the map is rewritten in place; free space is searched across array order |
| `lib/volume.c`, `lib/readwrite.c` | the list of volumes of a set, with start and size | add a volume, translate a sector, read, write | rounding of sizes; read-only and fake volumes |
| `lib/mfs.c` | the volume header, the handle | load, reload, list partitions | primary and backup header |
| `lib/zonemap.c` | the chain of zone maps, in memory and on the drives | load, create a map, link it, add a pair of volumes | six writes without a journal; two copies of everything |
| `lib/inode.c`, `lib/log.c`, `lib/crc.c` | inodes (two copies, hashed by fsid), the circular transaction log | read, write, find by fsid, read a log entry | hash probing, wrapping, checksums |
| `backup/` | the list of blocks to save, the stream position | scan inodes, add partitions, produce the next sectors | lists merged case by case, a stream cut at any boundary |
| `restore/` | the stream position, the plan of partitions on two drives | consume sectors, plan, build tables, fix up inodes, log and zone maps | placement search, a stream cut at any boundary, order of the fix-ups |
| `mfsadd/`, `mfscopy/` | none of their own | compose the libraries | tables are written before the set is extended |
| `mfsinfo/`, `mls/`, `mfsd/`, `mfstool/` | none | report | - |

### tivopart (`src/tivopart_20040530/src`)

`partition_map.c` keeps a map as two linked lists (base order and disk order)
and splits, joins, moves and renumbers entries, and writes the map back block by
block; `pdisk.c` holds the commands; `tivopart.c` consolidates partitions; `media.c`, `file_media.c` and
`deblock_media.c` are layers of block devices; the rest is a command line,
dumps, and Mac OS drivers.

### jmfs (`src/jmfs/source/src`)

`tivo/Mfs.java` with `tivo/mfs` and `tivo/zone` read and write the file system;
`jmfs/MfsAdd.java` and its siblings are the tools; `tivo/disk` holds the
partition table and the copy commands, `tivo/io/process` runs child processes
with a thread per pipe; `ui` is a scripted dialogue.

### Coalesce scripts (`src/coalesce_scripts`)

Shell scripts that edit single sectors of a partition map with `dd`.

## Modules

| module | component | kind |
|---|---|---|
| `PartTable`, `MCPartTable`, `PartTable_proofs` | `lib/macpart.c` | detailed model, instances, proofs |
| `VolumeSet`, `MCVolumeSet`, `VolumeSet_proofs` | `lib/volume.c`, `lib/mfs.c`, `lib/zonemap.c` | detailed model, instances, proofs |
| `GrowingSet` | what `mfs_add_volume_pair` promises | abstract specification, refined by `VolumeSet` |
| `MfsAdd`, `MCMfsAdd`, `MfsAdd_proofs` | `mfsadd/mfsadd.c`, and `-x` of `restmain.c` and `mfscopy/copy.c` | composition of `PartTable`'s operators with a volume list, instances, proofs |
| `BackupStream`, `MCBackupStream` | `backup/backup.c`, `restore/restore.c`, their main loops and that of `mfscopy` | composition of writer and reader |
| `BackupLists` | `backup/backup.c`: what is to be copied | detailed model, used by `RestoreFinish` |
| `RestoreFinish`, `MCRestoreFinish`, `RestoreFinish_proofs` | `restore_finish` and all it calls | composition with `BackupLists`, instances, proofs |
| `RestorePlan`, `MCRestorePlan` | `restore_trydev`, `restore_start` and what they call | detailed model, instances |
| `PdiskMap`, `MCPdiskMap`, `PdiskMap_proofs` | `tivopart` `partition_map.c`, `validate.c`, commands of `pdisk.c` | detailed model, instances, proofs |
| `Tivopart`, `MCTivopart`, `Tivopart_proofs` | `tivopart` `tivopart.c`, with the kernel's partition table | detailed model, instances, proofs |
| `ProcessPipes`, `MCProcessPipes`, `ProcessPipes_proofs` | `jmfs` `tivo/io/process` | detailed model, instances, proofs |
| `Coalesce`, `MCCoalesce`, `Coalesce_proofs` | `coalesce_scripts/tivo_coalesce.sh` and the `apm_*.sh` it calls | detailed model, instances, proofs |

`PROJECT.json` maps every definition to the lines it models. A definition named
as a mutant in a comment is a plausible bug, kept to show that the property next
to it would notice.

### PartTable

`tab` is the cached `partition_table` of one device, `disk` and `boot` the map
sectors on the drive, `file` the open `tpFILE`s with what they pointed to when
they were opened, `wr` how far a table write has come. Slots are numbered as the
user numbers partitions; the C array is shifted under files that point into it
by `memmove`, which is what `Ref`, `Trimmed`, `Swept` and `Inserted` follow.
`Load`, `QueryFree`, `AddFails`, `Add`, `InitTable`, `OpenPart`, `ClosePart` are
the library calls, each with the validation it begins with (`Validations`, the
walk of `tivo_partition_validate`); `BeginWrite`, `WriteBoot`, `WriteSector`,
`EndWrite` and `WriteFails` are the steps of `tivo_partition_table_write`, and
`ToolEnds` is the end of the process, between calls or in the middle of a write.

### VolumeSet and GrowingSet

`sec` holds every sector of every partition, `mem` the handle of the running
tool (volumes and zone maps), `todo` the sector writes that
`mfs_add_volume_pair` still has to do, in the order of the code: the map, its
backup, the link in the previous map, its backup, the header, its backup.
Loading (`Start`) follows the code's choice between primary and backup by
checksum; a checksum is abstracted to whether the sectors were written as one.
`Chain` follows the links up to the first map that cannot be read, and no further
than the set has sectors, which no chain of maps that are apart gets to. `Maps`
is the number of zone maps of a freshly restored set.
`GrowingSet` knows the list and the chain only; a pair joins the chain in one
step and the list in another. `VolumeSet` refines it under the mapping that
reads both from the drives.

### MfsAdd

`disk` holds the table on each drive, `list` the volumes the header names, `mem`
the tables of the running tool, `todo` the pairs it still has to add and `dirty`
the drives it still has to write or to expand. `Run` is `mfsadd_main` up to its
first write: the checks of the command line (`Accepted`), the new B drive
(`NewB`), the pairs made by hand and the ones carved out of free space
(`Extend`, `Carve`), and `check_partition_count` (`CountFits`). `WriteTable` and
`AddPair` are the two loops behind it, `ToolEnds` a stop between any two writes.
`StartExpand`, `ExpandDrive`, `WriteExpanded` and `AddExpanded` are the same for
`-x` of the other two programs, which carve, write and add one drive at a time
and ask `mfs_can_add_volume_pair` first. `tivo_partition_add` is made of the
operators of `PartTable`, instantiated for the table of a drive. A table is
written in one step here and a pair joins in one, because `PartTable` and
`VolumeSet` look into those steps.

### BackupStream

The backup's `backup_next_sectors` and the restore's `restore_next_sectors` are
step functions on records, one record per variable that the C structures carry
from call to call (`cursector`, the lists, the offset inside a list), because
both are loops over `switch`-like conditions inside one call. The actions are
the calls of the main loops: `BackupRead`, `ReadFile`, `WriteHead`,
`WriteSectors`, `Flush`, `Inflate`, `ZipReturns`, `Prepare`; `CopyRead` is the
loop of `mfscopy`, without a file in between. A call that copies
a negative length or loops for ever puts the model in the stage `broken`.
Compression is opaque: an input has a length, and `inflate` takes and returns
any amounts that zlib may.

### BackupLists and RestoreFinish

`BackupLists` is a backup up to its first sector: `Open` (the volume set, whole,
truncated or refused), `AddPartitions`, `ScanInode` for each inode in the order
of the table, `EndScan`, `AddVolumes` and `Lists`. The list of a volume is a
sequence of marks, and `backup_add_block` (`AddBlock`) is its merge case by
case. `RestoreFinish` goes on when all data is on the drives: `RestoreData`,
`MakeSwap`, `FixupVolList`, `FixupZoneMaps`, `FudgeInodes`, `FudgeSector` for
each sector of the log, `EndLog`. A log sector is a sequence of cells; a record
takes as many as its kind needs and may go on in the next sector, which is what
`Joined`, `Fudged` and `Rewritten` put together and divide again.

### RestorePlan

`TryDev` is `restore_trydev`, with the search of `find_optimal_partitions` as a
recursive function over the orders (`Search`, `Step`), and `BuildTable` is
`build_partition_table`, with the balancing of media partitions (`Balanced`) and
the search for a slot (`Place`). The properties compare with all placements as
functions from pairs to drives.

### PdiskMap

`map` is the session's map: `parts` in disk order (an entry's position is its
disk address) and `base`, the base order as a sequence of addresses. `Create`,
`DeletePart`, `Reorder`, `Rename`, `ChangeMapSize`, `InitMap` are the commands;
`Found`, `Action`, `Rest`, `JoinNext`, `JoinPrev`, `Slot`, `Resized` are the
parts of the functions they call, and `Validates` is the validate command, which
splits a range of all blocks by the entries (`AddRange`). `ComputedSize` is the
search for the size of a drive: the blocks tried are further and further out
(`Bounds`), then the span between the last readable and the first that may not
be is halved (`Spans`). `BeginWrite`, `WriteBlock`, `WriteFails` write
the map block by block, and `Quit` is the end of the session, in the middle of a
write when the machine stops. Block numbers and lengths are taken modulo `Word`,
as `u32`s are.

### Tivopart

`disk` is the map on the drive, `kern` the kernel's table of partitions, `used`
what is mounted, `tool` the command at work. `Consolidate` is `consolidate` up
to its first write, with `LastPart`, `LastInPool`, `MainRoot` and `Consolidated`
for what it computes; `WriteEntry` and `WriteFails` write the map entry by
entry; `DelPart` and `AddPart` are the two loops of `revalidate_drive`, one
`ioctl` a step, so that a partition may be mounted between any two; `Test`, `FirstPass` and `SecondPass` are `test_partition`, which inverts a byte
of the drive twice (`flipped`). `Mount`, `Unmount`, `Reboot` and `Stop` are the
machine around it; that the kernel deletes no partition in use and adds none
over another is taken from how `revalidate_drive` and its messages rely on it.
What `-f` (force) goes on with is modelled, and nothing is promised after it.

### ProcessPipes

One process per thread: the caller in `execute` (`StartChild`, `StartPump`,
`WaitFor`, `MarkDone`, `CloseStream`), one pump per stream (`TestDone`,
`ReadBytes`, `WriteByte`, `ReadEnds`), the child (`ChildWrite`, `ChildExit`).
The pump tests the `done` flag before each read, and the stream is closed under
it.

### Coalesce

`SetSize`, `MoveEntry`, `ClearLast`, `SetCount` and `Finish` are the writes of the
script, one action per `dd`, with one exception: `apm_set_partition_size.sh`
writes the size (line 26) and then the size of the data area (line 29) by two
`dd`s. The model has only the first of these fields, as nothing in the scripts
reads the other, so the second `dd` is part of `SetSize`. `Begin` is the prologue with its tests, and `Stop` an
interruption between two writes.

## Runs

| run | asks | bounds |
|---|---|---|
| `part_tiled` | Does a validated table tile the device whatever is added, do partitions with data or in use stay? | 11 sectors, 6 map slots, 2 files, sizes 1 and 2, five maps, one of them in another order than the drive |
| `part_torn` | The tool dies between two sectors or a sector refuses: are counts exact, are partitions in use found again, does a clean table read back, is the search for free space exact? | 10 sectors, 5 map slots, sector 3 may fail; a new drive, one with a partition, one copied from a smaller drive, whose free entries follow one another |
| `part_copied` | Violation: a drive copied to a larger one, with free space at its old end. | as above, one map |
| `volumes` | Pairs added one after another with a stop between any two sectors and one write that fails unnoticed: can the chain always be read, is there no overlap, do memory and drives agree, is `GrowingSet` implemented as long as nothing failed? | 8 partitions, five pairs: two that can be added one after the other, two that cannot, one whose zone is too small for a block; either drive read-only, one error |
| `mfsadd` | Does the set keep every volume whose number was sure, whatever mfsadd, or the expansion of restore and mfscopy, makes and wherever it is stopped, is nothing refused once the tables are written, can what is left on a drive of the set be added later? | up to three runs with 180 command lines, 14 pairs of drives with free space in one piece, in pieces, of the size of a map, before and behind the volumes, names that fill the list |
| `stream` | Is what is backed up what is restored, whatever buffers cut it, with a file or with mfscopy in between, do the programs end? | three drives with 2, 3 and 6 blocks, lists that end inside a sector, at its end and beyond, buffers of 7 sectors, reads of 1, 2, 3, 5 or 7, compressed or not |
| `shrunk` | Are the blocks of a backup those asked for (the limit of stream numbers counted in or out), and does a restored set, shrunk or not, refer to nothing that is gone? | two pairs of volumes, up to three of seven inodes in every order, logs of up to four records of six kinds over four sectors, eight option sets, either byte order of the host |
| `restore_plan` | Does the search find a placement a TiVo can use that none beats by one of the measures that code and documents name, does it fail only if there is none, and is every partition built where the restore will look for it? | one to seven pairs, five lists of system partitions, six pairs of drives tried twice, five option sets |
| `pdisk` | Does a map that tiles the drive go on doing so under any sequence of commands, do the entries fit the map, does validate tell these maps from others, is what was written what is read, is a torn write noticed, is the size of a drive found? | 8 blocks, lengths 0 to 2 and one that wraps, maps of 2 to 5 blocks, new numbers in front, inside and behind; one user who edits, two who write twice with one block failing each time |
| `tivopart` | Does a consolidation, repeated, stopped or failing anywhere, leave the file system's partitions alone, is the pool given out whole and once, is what revalidate and test say of the kernel true? | five maps: as TiVo makes them with the free partition at either side of the file system, as an earlier version left them, one without it, one with a gap; three swap sizes, one that overflows; one partition mounted at any time; one fault |
| `processes` | Do caller and pumps end, does the buffer never hold a byte twice, out of order or after a gap? | two streams of 4 bytes, a pipe of 3, a buffer of 2 |
| `coalesce_fifteen` | Is any block orphaned when the script stops anywhere, does partition 14 stay, is the map clean at the end? | Series 4 drives of fifteen partitions in two orders, a drive of twelve that is joined twice |

Statements that one piece of code has to keep together are checked as one
property, the conjunction of definitions that say what each is about:
`LaidOut` (`TypeOK`, `ZonesApart`) of `volumes`; `KernelTold`
(`SuccessIsFresh`, `TestTells`) of `tivopart`; `KeepsData` (`NothingLost`,
`FixedStays`) of `coalesce_fifteen`; `OutputRight` (`TypeOK`, `StreamsInOrder`,
`NothingLostWhileOpen`) and `CallEnds` (`Returns`, `PumpsStop`) of
`processes`; `RestoredSoFar` (`ListsArrived`, `RestoredInOrder`, `VolumesOnce`)
and `OutcomeRight` (`DoneIsComplete`, `PrematureForOneSector`) of `stream`;
`MapSound` (`TypeOK`, `MapHasRoom`, `RoomReadsBack`), `ReadsBackWhole` (`SavedReadsBack`, `TornIsNoticed`) and `StaysSound`
(`StaysTiled`, `StaysJoined`) of `pdisk`; `PlanRight` (`NothingBetter`,
`FailsForCause`) and `BuiltAsPlanned` (`EverythingBuilt`, `RestoredWhereBuilt`)
of `restore_plan`; `ListRight` (`ListExact`, `BlocksInVolumes`,
`LeftOutEndsStreams`) and `LogRight` (`LogReads`, `LogSizes`) of
`shrunk`; `VolumesSound` (`TypeOK`, `Stay`, `Sure`) of `mfsadd`. `BackupWhole`
of `stream` includes `TypeOK`.

Why these bounds are enough to mean something: in `PartTable` the map is full
after three additions, so both the full and the last-slot case occur, and with
two files every interleaving of opening, adding and closing is there. Free
entries that follow one another, in the order of the map or not, come up in
`part_torn` only: a copied drive has them once validation appended the rest, and
such a map does not tile the drive after an addition, which is what `part_copied`
shows. In
`VolumeSet` two pairs can be added, each with two maps, two links and two
headers to write, so that a stop lands before, inside and behind every one, and
a stop between link and header is met by the next tool. In `BackupStream`
buffers are shorter than a backup and longer than the lists, so every boundary
falls in lists, partitions and blocks. In `PdiskMap` an entry can be split,
replaced and cut at either end, and free space joined on neither, one or both
sides; two writes are the least that can leave blocks of three maps on a drive.
In `MfsAdd` a third run meets what two stopped ones left, and the numbers, names
and slots are those of the real program; only sizes are scaled, to drives with
room for one or two pairs. In `RestorePlan` six pairs just fit the list of names
and seven never do. In `RestoreFinish` runs of a stream fall on both sides of
the new end and records of the log on both sides of every sector boundary.
In `ProcessPipes` output is longer than the pipe, and the pipe than the buffer,
so the child blocks and a read takes less than there is. In `Tivopart` a fault
falls between any two entries, and the commands may be repeated without end;
two faults give the same results and seventeen times as many states.

Deadlock is checked in `processes`, `stream` and the `PartTable` runs: the
first two have an explicit last state (`Over`). It is not checked where the
system may really stop: a session closed for good, a script interrupted, a
machine that stays off.

### Fairness

`ProcessPipes` assumes weak fairness of the caller, of each pump and of the
child: the Java threads and the child process are scheduled by an operating
system that runs what can run, and the commands jmfs starts list drives or copy
a range of sectors and end by themselves. `CallEnds` needs nothing more.
`BackupStream` is sequential, one program reading what the other wrote, and
assumes weak fairness of the next step; `Ends` is a property of loops, not of a
scheduler. All other modules are checked for safety only, where no fairness
is assumed.

## What the violation shows

- `part_copied`: `macpart.c:683`, "Delete all partitions that fall within the
  now used range", skips the entry that moves into the place of a removed one,
  and the new partition overlaps it.

### Observed while modelling, without a run

Tables (`lib/macpart.c`): `:391` looks at the entry behind the last one when it
tests for a gap; `:543` counts neighbours in array order, and `:551` takes the
largest free space in one branch only; `:826` clears `VOL_NONINIT` before the
boot block is written; `:273` never sees a descriptor of -1; the bound at `:571`
is one too high; `:703` does not adjust the slot asked for when entries before
it were deleted.

Volume sets: no result of `mfsvol_write_data` is looked at (`zonemap.c:471`);
when the header cannot be written, the pair is added in memory and the old list
stays on the drive; when the first copy of the map with the link cannot and the
second can, the chain read from then on ends before the new map, though the
header names its volumes. `MemoryAgrees` and `Refines` are stated up to the first
failed write. `inode.c:127` uses an inode that may be `NULL`.

mfsadd: pairs made by hand on a B drive that the set does not use yet are lost,
because its table is initialised first (`:457`), and refused after the tables were
written. `README:331` says "create new partitions by hand with pdisk" and then
"mfstool mfsadd /dev/hdc /dev/hdd4 /dev/hdd5", with that drive meant. The two
disagree; `CanBeFinished` and `OthersKept` are about drives the set uses, so that
both hold whichever is changed. Besides, `:118` guesses the number of
the media partition, wrong when the other one exactly fills free entries in
front of it; naming pairs on a drive that is also extended may shift them; in either case a
volume of the set may lie in free space, of which a later run can make partitions,
and one put in front of it gives it yet another number (`ALoose` of `MCMfsAdd`);
`check_partition_count` lets a list of just 128 bytes pass, which
`mfs_add_volume_pair` refuses after the tables are written; a failed addition of
the media partition hands -1 on as the slot for the other; the table writes at
`:484` are not looked at. `Stay` and `Sure` (in `VolumesSound`),
`NeverRefusedLate` and `CanBeFinished` name these exceptions. An `-x` that was stopped between table and set finds no
free space when it is repeated.

Backup and restore, where code and documents disagree and a property leaves the
point open, so that it holds whichever is changed:

- Which placement is best. `restore.c:734` says "Then pick closest data to either
  the end or the middle", and `README:247` says `-l` is "Useful for getting closer
  to half or completely full". `restore.c:738` measures the distance from the
  middle only when it balances, and from the end only when it does not, with `-l`
  or without. `PlanRight` asks for the best by one of these measures (`Goals`).
- The limit of stream numbers. `README:154` says "fsid is below" the limit and the
  usage text of `backmain.c:34` "fsids below max"; `backup.c:381` takes the stream
  with the number of the limit too (`<=`). `ListRight` accepts a list with any of
  these streams or without them (`AtLimit`); `shrunk` has one.
- Large swap space. `README:268` says "Values up to 511 are possible"; the loop of `restore.c:1325` ends with the words of the bitmap,
  so that what lies behind about 127 megabytes is not marked. `SwapWhole` asks for
  every page of a partition the bitmap has bits for, and of a larger one that
  nothing is marked that is not there.

Besides, `restore.c:1033`, "If it's part of a partition set and only
one was backed up, set the alternate set size", copies the whole record, its
number included, and the table is then sorted by numbers: with partitions 5, 6
and 7 in the backup the slots of the two sets have each other's sizes, and
partition 4 is as small as a kernel (`FirstParts` does what the code does).
`restore.c:901` reads `*dev2`, which `restmain.c` leaves
`NULL` when one drive is named (line 881 looks first, mfscopy passes an empty
string): the model takes it for no drive. `restmain.c:269` takes one `read` for
the whole beginning of a backup; a pipe that returns less than the lists makes
the restore give up. `curcount` of `backmain.c:303`, `restmain.c:321` and
`copy.c:500` is unsigned, so that an error counts as a length. The reads at
`copy.c:444` all go to the start of the buffer, so the first has to fill it.
`backup.c:1092`: lists longer than about half of what a call may return make
the room for the next list negative. A last sector alone in `comp_buf` is never
written (`restore.c:523`), and the restore ends with "Premature end of backup
data" though all was read; `PrematureForOneSector` says it does so in no other
case. The run a stream ends with does not count for the end of the data kept
(`backup.c:410`, unlike `README:144`); `LeftOutEndsStreams` says that nothing
else is left out. An error of the scan leaves an empty list and a backup that
reports success. `backup_verify_zone_maps` compares a zone's type without byte
swap. A record of the log over two sectors that shrinks and still needs both
loses its first half (`StillSplit`). "It also cannot be done again once it
succeeds" (`restore.c:825`) is not enforced: only `restore_start` sets the flag.

tivopart: `partition_map.c:1098` gives an entry moved behind its place one
number less than was asked for, unlike `pdisk.html:367`; `:361` clears one block
behind a map, and what an older, longer map left behind that may complete a torn
write (`TornIsNoticed` excludes it); `:631` and `:982` accept lengths that wrap
and lengths of zero, which lead to free space that covers data (inputs of
`pdisk`; its tiling properties are about maps without them, `ValidateIsRight`
says that the validate command tells); `pdisk.c:563` uses a map that may be
`NULL`; the limit of `validate.c` is unsigned, so a drive without a signature is
read to its end. `tivopart.c:577` computes swap space in bytes of an
`unsigned long`, so that 4096 megabytes become none; `:375` looks at no error of
the writes and `:587` then reports a success; a consolidation that is torn after
the first entry of a map an earlier version made leaves the old "Main root" over
the new one, and the next run, which finds partition 1 first, does not remove it
(`MfsIntact` asks for no overlap at all only as long as nothing failed).

Scripts: `tivo_coalesce.sh:68` lets drives with fourteen partitions through,
though the loop always ends with entry 15.

## What is proved

Every theorem is about all values of its module's constants that satisfy the
assumptions named there; each proof has a lemma per action and, where an
operator does the work, one per operator.

### PartTable_proofs: the table in memory and on the drive

For every device size, map size, set of handles, set of sizes and set of initial
maps:

- `TypeCorrect`: `Spec => []TypeOK`;
- `RefsCorrect`: `Spec => []RefsBalanced`, reference counts are the number of
  open files, so a table in use is never freed and a table that is free to go
  always is;
- `InUseTheorem`: `Spec => []InUseStable`, no sequence of calls moves, resizes
  or renumbers a partition that a file is open on.

The assumptions are those `PartTable` states of its constants:
`SizesAssumption` (sizes are naturals, the map has a slot), `HandlesAssumption`
(finitely many handles), `NoneAssumption` (the two markers are no values) and
`DisksAssumption` (initial maps have the type of maps; nothing is assumed of
what they say, they may overlap, be torn or lie outside the device).

Neither invariant is inductive. `RefsBalanced` alone does not survive
`tivo_partition_add`, which moves the entries that carry the counts: it does
only because the search begins behind the last entry that is in use
(`FirstMovable`), and that this is so follows from the counts. `IInv` is
therefore one conjunction: the types; a table is cached while it is written;
without a table no file is open; and of a table, `Good`: each entry's count is
one more than its open files, the table's is their sum, and each open file
points to what it was opened on. Under `AddStep` there is one lemma per operator
of the array: `FirstMovableFacts`, `TrimmedFacts`, `SweptFacts`,
`InsertedFacts`, `NewSlotFacts`, each of which says which slots keep what they
hold. `NextStep` puts them together.

Of the drive, beside:

- `CrashTheorem`: `Spec => []InUseSurvivesCrash`, the next tool finds every
  partition that was in use at its number, start and size, wherever a write of
  the table stopped or failed;
- `ReadsBackTheorem`: `Spec => []ReadsBack`, a table that counts as written is,
  entry by entry, what the next tool reads.

Both have the hypothesis `BootWritable`, that the boot block is not among the
sectors whose write may fail (any of the map's may): `macpart.c:826` clears
`VOL_NONINIT` before it writes the boot block, so that after an error it is never
tried again, and a map without it is not found.

The argument is that a write puts the same entry at the same sector. `CInv`,
beside `IInv`, says so in five parts: the entry of a file that is clean is on the
drive (`CleanOnDrive`); `ReadsBack`; the map has a sector for every entry, and a
table the drive knows nothing of is not in use (`TableFits`); a table is dirty
until its write ends (`Writing`); what has been written is what is cached
(`Written`). That memory has at most one entry more than the drive is
`CleanTheorem` below.

### PartTable_proofs, its second half: what the table says of the device

- `CleanTheorem`: `Spec => []CleanReadsBack`, where the boot block can be
  written: a table that counts as written is the one the next tool reads but for
  one filler, on every map, a row or not;
- `TilesTheorem`: `Spec /\ ProperMap => []Tiles`, a validated table gives every
  sector behind the boot block to exactly one entry, whatever is added;
- `FitTheorem`: `Spec /\ ProperMap => []FirstFitIsLowest`, the search for free
  space finds the lowest place, and fails only if there is none;
- `KeepsTheorem`: `Spec /\ ProperMap => AddKeepsData`, an addition takes free
  space only and adds exactly one partition.

Besides the assumptions of `PartTable` the last three have two hypotheses, both of
which `part_tiled` satisfies. (`FirstFitIsLowest` is checked in `part_torn`, beyond
them: the search turns out exact on torn and copied maps too, which is not
proved.) `WritesSucceed` (no stop within a write, no bad sector):
a map that is torn is a mixture of two tables, and what a mixture says of the
device nothing promises. `ProperMap`: the map the first tool meets, if it is one,
is a row. It may end before the device does, in which case validation appends
the rest, and its entries may be in any order, but no entry of it is empty, no
two overlap, each begins at the first sector or where another ends, and no two
free ones are neighbours. The last part is what `part_copied` shows to be
needed: with two free neighbours the sweep of `tivo_partition_add` skips one.

The invariant, beside the two before, is `TInv`: a table in
memory is a row, one that is validated reaches the end of the device, and
between two writes the map on the drive is a row too. The argument has three
parts.

- The walk of `tivo_partition_validate` stands at a border of the row at each of
  its steps, so that it ends at the end of the row (`NextOnRow`, `WalkFacts`),
  and what validation makes of it is a row again (`ValidationTiled`).
- The search for free space, which joins neighbours in the order of the device,
  has nothing to join in a row, so that it returns the lowest entry that is
  large enough (`FitFacts`, `FitIsExact`).
- The array after an addition holds the entries of the one before, the free one
  that was found replaced by the new one and its remainder (`Rearranged`): of
  what begins in the range given out there is only that one (`OnlyOneStarts`,
  `RemovedIs`), and truncating, sweeping and inserting only reorder the rest
  (`TrimmedIs`, `SweptRearranges`, `AddRearranges`). That the result is a row and
  that the data stayed (`AddedRow`, `AddedData`) is then a matter of sets.

The walk and the search are recursive functions over pairs of numbers; that
they exist is shown once, for any recursion along which a bounded measure goes
down (`BoundedRecursion`).

`CleanTheorem` knows nothing of the map, whose entries may overlap, be empty or
leave gaps. Its invariant `FInv` says of a table that counts as written that it
has no more entries than the drive, or one more and its walk does not end short
of the device. The walk stops where no entry starts any further (`WalkStops`), so
that the filler put there comes last in the order of the device: the next walk
takes the same steps and goes on over the filler to the end (`WalkOverFiller`),
and no second one is appended. That the walk is a function of the starts and
sizes, which reference counts leave alone, is `WalkUnique`.

### VolumeSet_proofs

For every set of partitions with any sizes, every unit of rounding, allocation
block, length of zone maps, set of pairs and of partitions opened for reading
only:

- `SetRefines`: `Spec /\ ProperSet => Refines`, `GrowingSet` is implemented
  wherever the machine stops: a pair joins the chain, with its zone map whole,
  then the list, and a set that is left in between is not added to;
- `SetMemoryAgrees`: `Spec /\ ProperSet => []MemoryAgrees`;
- `SetLaidOut`: `Spec /\ ProperSet => [](errs = 0 => LaidOut)`;
- `SetStaysRecoverable`: `Spec /\ ProperSet => [](errs = 0 => Recoverable)`.

`ProperSet` says of the sectors the set begins with what `mfstool restore`
makes, and what the set of `volumes` is: the volumes are different, none is
empty, the header names them, the copies of the header and of each zone map and
the zones are in one volume each and clear of one another, and the maps are
linked in their order. `errs = 0` (no sector write failed) is in `Refines` and
`MemoryAgrees` themselves. `volumes` checks `LaidOut` and `Recoverable` with one
failed write too, which no theorem states: with two they are false, as no result
of a write is looked at, so that both copies of a map may be missing when the
link to it is written.

The other assumptions are `SizeAssumption`, `PairsAssumption`, `NilAssumption`
(types and markers) and `MapLenAssumption` (a zone map takes a sector at least).

None of the four is inductive; what is says what the drives hold at each write.
The drives hold a set that is complete (`Whole`) or one whose last map is linked
to that of a pair the header does not name (`Half`), and a running tool is so
many writes far (`Going`) with a sequence of writes of which only this matters
(`Order`): the sectors of the new map come first, one write is the link, a
later one the header, and all others put into a sector of an area what belongs
there. So each write leaves the set complete, makes it half or makes it complete
again (`AfterIs`, `WriteStep`). Four things are shown on the way:

- where a sector lies does not depend on volumes that are added behind it
  (`SameBefore`), and different numbers are different places (`PlacesDiffer`);
- a pair for which there is room gets its maps and its zone inside its own
  volumes, clear of what is there (`NewZoneIs`, `GrowRoomy`, `GrowShape`);
- the writes of `mfs_new_zone_map` and `mfs_add_volume_pair` are such a sequence,
  whichever partitions are for reading only (`WritesOrder`): as block 0, the last
  map and the first sector of the new volume were found to be writable, a write
  that is left out is one of a second copy;
- a complete set reads back as it is (`WholeReads`), a half one does not load,
  as its last link leads behind the volumes, but does with the pair that was
  being added (`HalfReads`). For this the chain is followed by induction over its
  length (`ChainIs`).

### Coalesce_proofs

- `DataStays`: `Spec => []KeepsData`, an entry the count covers still has every
  block of every partition when the script stops between any two writes, and
  the database of a Series 4 keeps its number;
- `MapStaysClean`: `Spec => []CleanMap`, completed runs leave a clean map.

Assumed are `FixedAssumption`, `RoundAssumption`, `TextsAssumption`,
`IdleAssumption` (markers) and `MapsAssumption`: the script meets maps that are
clean and have fewer than `Fixed` partitions, or exactly one more with the
database last, which are the ones `tivo_coalesce.sh` is written for. The
invariant is the order of the writes (`Shape`): the map the script began with,
with the entries below the current one slid down by one and the joined one
grown. Between two writes an entry is there twice or the joined one covers what
is to go; that no block is lost then follows from `JoinedBlocks` and from the
heir every old entry has (`HeirFacts`).

### ProcessPipes_proofs

- `OutputIsRight`: `Spec => []OutputRight`, the buffer has the first bytes of
  every stream, each once and in order, and until a stream is closed what is
  missing is with its pump or in its pipe, however caller, pumps and child
  interleave.

Assumed are `StreamsAssumption` (streams are distinct) and `SizesAssumption`
(any length of output, any pipe and buffer that hold a byte). The strengthening
is `Lined`: the bytes of a stream in the buffer, with the pump and in the pipe
are consecutive numbers, up to what the child has written; and `NotYet`: a
stream whose pump has not begun has nothing in the buffer.

### Tivopart_proofs

- `IntactTheorem`: `Spec => []MfsIntact`;
- `GivenOutTheorem`: `Spec => []PoolGivenOut`;
- `KernelTheorem`: `Spec => []KernelTold`.

The drives assumed (`MapsAssumption`) have between 8 and `NPart` entries, none
of them empty, no two overlapping and none reaching the last block number, and
the main root is not among 2 to 8: what TiVo and its tools make, and what the
comment at `tivopart.c:216` describes. They need not be convertible: there may
be gaps, or no partition for the main root. `SizesAssumption` is that the sizes
in the code, the block count of a full `unsigned long` of bytes included, add up
to less than 2^32, which they do by a factor of four hundred.

`MfsIntact` is not inductive: a consolidation that was torn leaves a map that is
neither the old nor the new one, from which the next begins. What survives is
that every entry by itself is good (`Good`): 2 to 8 lie inside the pool of the
first map and are not named like the main root; 1 is the first map's or the main
root inside the pool; the others are the first map's, but for the one the main
root was made of. Any mixture of good maps is good. `GoodPool` shows that a good
map whose 2 to 8 are contiguous has its whole pool inside the first one (that a
partition which was not behind the pool cannot come to lie there is the
disjointness of the first map), `NewFacts` that the unsigned differences are
then the true ones if the room was found enough, and `GoodConsolidated`,
`DisjointConsolidated` and `GivenOutIsRow` the rest. As long as nothing failed
and nothing is being written, no two partitions overlap (`Undisturbed`).
`KernelTold` has its own strengthening: the partitions added so far (`Adding`)
and the byte that is inverted between the passes of a test (`Testing`).

### MfsAdd_proofs

- `VolumesTheorem`: `Spec /\ ProperMaps => []VolumesSound`, however often `mfsadd`
  and the two `-x` are run and wherever they are stopped: the number of a volume,
  as long as it was sure, leads to the sectors it was added with, to a partition of
  type MFS, and to no other volume's;
- `OthersTheorem`: `Spec /\ ProperMaps => OthersKept`, on a drive the set uses every
  partition with data is still there after every step, at the number or another.

`ProperMaps` says that the tables the first run finds tile their drives, as those
of a TiVo, a restore and `tivopart` do; of the sets of `mfsadd`, 13 of 14 have it,
and the last one, a drive copied onto a larger one, is only model-checked. Besides
the assumptions of the module are used: types, a smallest partition that is a
multiple of the rounding and less than half of what is extended into, and of the
set it begins with what `VolumesSound` says of it (`WorldsAssumption`).

What one `tivo_partition_add` does is known from `PartTable_proofs`, of which each
drive has an instance (`AddByNumber`, `ValidByNumber` there: which numbers
change); a pair is two of them (`PairIn`), and what a run decides on is the pairs
named, the tables with those pairs open, and at most one pair more on each of at
most two drives (`Reached`). `VolumesSound` speaks of the drives and is not
inductive, for what is written is the tables in memory, which were made some steps
earlier. `MInv` says of these: they tile their drives (`Good`); one that is not
changed is the one on the drive (`Agrees`); every sure volume is where it was in
each (`Holds`); the one to be expanded next has all those in use (`Pins`), which is
why they keep their numbers; a changed one is still to be written and has all
partitions with data of its drive (`TableInv`). Of the pairs to be added it says
that their numbers lead to partitions made for them, of no volume and no other pair
(`TodoInv`). Why a stop does no harm is then `ToolEndsStep`: nothing is left in
memory, and what the drives and the list say is right in between.

### RestoreFinish_proofs

- `KeepsTheorem`: `Spec /\ WellFormed => []KeepsFiles`, shrinking never cuts off a
  file, an inode zone or an application zone, or their maps;
- `DanglesTheorem`: `Spec /\ WellFormed => []NothingDangles`, when a restore has
  finished, the chain of zones is the zones before the end of what is there, no
  inode refers to a sector behind it, and no run before it is lost;
- `SwapTheorem`: `Spec => []SwapWhole`, every page of a swap partition the bitmap
  has bits for is marked, the header's own not, and none that is not there.

`WellFormed` says, of a set that is not damaged, what every set is that a TiVo, a
restore or mfsadd made, and what those of `shrunk` are: volumes come in pairs; a
zone and its map lie in one pair, the pairs of the zones go up along their chain,
and the first zone is the one of the inodes; a run does not leave its pair. It is
needed: `scan_inodes` compares the last sector of a zone as if it were its end
(`backup.c:466`), so a zone that consists of the first sector of a pair and has
its map elsewhere would be cut off. Nothing is assumed of how many inodes there
are, in which order, and how much of each is used. Besides, the assumptions of
the two modules are used (`SetsAssumption`, `LengthsAssumption`,
`SwapAssumption`), which give types.

`KeptInv` says what `highest` means at each stage: while inodes are scanned no
file seen so far ends behind it; then no zone that is needed does; then the
volumes cut off begin at or behind it, an even number of them being left
(`SafeCut`), so that the end is a `Boundaries` and zones and runs lie on one side
of it. That the scan of a stream never takes `highest` back is an induction along
its runs (`ScanRaises`). `RestoreInv` says of each step of `restore_finish` that
what it has put right stays so. The zones before the end are the first of the
chain (`ZonesAreFirst`), the walk along the chain stops at the last of them
(`LastZoneFacts`), and the chain that is cut there is these (`ChainFacts`).

The folds of the community modules are reasoned about by the function they are
defined with: it exists for every number of members (`FoldingExists`, by the
least number for which it does not), and along the prefixes it is the fold step
by step (`FoldingSteps`).

### PdiskMap_proofs

- `EditorTheorem`: `Spec => StaysSound`, a map that accounts for every block
  once does so after every command, in whatever order partitions are created,
  deleted and reordered and the map is resized or made anew, and free space that
  was in one piece wherever it was stays so;
- `SizeTheorem`: `Spec => []SizeIsFound`, the size of every drive is found;
- `EditorTypeTheorem`: `Spec => []TypeOK`, the two orders of a session's map are
  orders of the same entries;
- `TornTheorem`: `Spec => []TornIsNoticed`, a write that is left unfinished and
  changes the number of entries makes the next session read the old map, the new
  one, or none;
- `ReadsBackTheorem`: `Spec => []ReadsBackWhole`, and besides a session that may
  be left without a question is what the next one reads, in both orders.

Assumed are `SizesAssumption` (a drive that is larger than a new map and smaller
than the numbers of blocks, a first block to try of at most a quarter of them),
`UsersAssumption` and `DisksAssumption`, which give types, and `NoneAssumption`,
that a blank block is no entry and "no map" no map: the drive may carry
anything, and a user may ask for any blocks and lengths, those that wrap
included. `StaysSound` itself is about steps that leave no entry empty and none
that wraps.

The invariant (`IInv`) is that base order lists every disk address once
(`Ordered`), that the map of a session has an entry, and the types of what is
written. The argument about a command looks at the map in base order only
(`ViewOf`), as a sequence of entries of which `Tiled` says that it is a row
(`Row`) and `Joined` that no two neighbours are free (`Loose`): so reordering,
which renumbers the entries, changes nothing (`MovedFacts`, `OrderFacts`). Every
other command replaces a part of the sequence by another one (`Patched`), and
`RowPatch` and `LoosePatch` say when that leaves a row a row. What is to be shown
of a command is then that it does so: that an insertion finds the place in base
order where the new piece belongs (`InsertInPlace`, from what `Slot` returns of
a row, whose starts go up), that the two or three pieces of a split add up in
unsigned arithmetic (`FilledKeeps`, `AddedSound`), and that a combination with
the neighbours takes the right entries out and keeps their blocks (`MergeFacts`,
`MergedRow`, `FreedSound`). `Resized` is a deletion and an addition one after the
other.

Where a recursive function is to be reasoned about (`ReadMap`, `Bounds`,
`ComputedSize`) the induction is over numbers and uses that a set of naturals
that is not empty has a least element (`LeastNumber`, from the theorems about
finite sets): a function that satisfies the recursive equation exists
(`Recursion`), and no least number at which it is wrong does. For the size of a
drive that number is the width of the span still to be searched (`SearchFinds`),
for `Bounds` how many blocks were tried (`TriesGrow`, `StopExists`).

`TornInv` says of every block of the drive which map it belongs to: the one being
written, the one it replaces, or, behind the latter, none that could be taken for
part of the former; and that what is still to be written belongs to the former.
What is read is then all of one of them or refused, for the count in each block
tells them apart (`TornRead`). `SavedInv` says of a write under way that its first
blocks are on the drive and the rest still to be written, and of a session with
nothing to save that the drive carries its entries (`OnDrive`). That their base
order is read too is `OneOrder`: the map tiles the drive, so the starts go up in
it, what is read goes up as well (`ReadsFirst`), and there is one such order.

### Only model-checked

Liveness (`CallEnds`, `Ends`) and `ENABLED` are beyond the prover. Induction over
data is too, but for numbers (see `PdiskMap_proofs`); the recursive functions on
lists of `BackupStream` and `RestorePlan` and the folds of the
others would need it for statements about every input. Of `VolumeSet`, what one
failed write leaves (see there). Of `PdiskMap`, `MapHasRoom` and `RoomReadsBack` depend on the map the
drive carries at first and on what older maps left behind it (a drive may carry
two entries for the map, or an entry shorter than the map), and
`ValidateIsRight` on two nested folds. Of `MfsAdd`, that no run is refused late
(`NeverRefusedLate`), that what a stopped one left can be added (`CanBeFinished`)
and that the regions are as large as they can be (`LargestPair`). Of `BackupLists`,
`ListExact`, about lists that are merged while they grow.

## What is not modelled

Pure I/O and display: SCSI and ATA drivers, dumps, `mls`, `mfsd`, `mfsinfo`,
the views and the dialogue of jmfs, the decoding of database objects. Left out
of modelled components: device drivers and block zero, HFS names, byte order
(but for one comparison in `BackupLists`), names and texts, allocation failures,
read errors and retries, fake writes. The bit layout of a zone map
(`zonemap.c:229`) and the block allocation of jmfs are data without control.
`lib/inode.c`, the media layers of tivopart and the rest of jmfs are still to be
modelled.

## Plan

The order follows what a failure would cost. Done: the partition table, the
volume set and mfsadd over both; the backup stream, what goes into a backup, the
placement of a restore and its fix-ups; the map editor and `tivopart`; the
process pipes; the coalesce script.

1. `Inodes`: both copies of an inode and the hash probe of `lib/inode.c`.
2. `ZoneBits`: the bitmaps of a zone and the buddy allocation of jmfs's
   `Bitmap.java`, against sets of free blocks.
3. `JmfsAdd`: the order of writes in `MfsAdd.writeChanges`; `Copies`: the
   overlapping copies of `SlowJavaCopy` and `FastJavaCopy` against a copy of
   the whole.
4. `Deblock`: the partial blocks of `deblock_media.c`.

To be proved next: `ListExact` of `BackupLists`; `NeverRefusedLate` of `MfsAdd`.
