-------------------------------- MODULE Tivopart --------------------------------
(***************************************************************************)
(* The tivopart command (tivopart.c of tivopart): "consolidate" makes one  *)
(* large root partition out of the partitions 2 to 8 and what an earlier   *)
(* version made, writes the map and tells the kernel; "revalidate" tells   *)
(* the kernel only; "test" tries whether the kernel has a partition where  *)
(* the map has it, by writing to the drive.  The machine may stop between  *)
(* any two writes, a write may fail, and partitions may be in use.         *)
(*                                                                         *)
(* The map is a sequence of entries, as PdiskMap reads and writes it; its  *)
(* length never changes here.  Of the kernel only the table of partitions  *)
(* is modelled: it refuses to delete one that is in use, and to add one    *)
(* under a number that is taken or over blocks that are.                   *)
(***************************************************************************)
EXTENDS Integers, Sequences

CONSTANTS
  Word,       \* 2^32: a u32 and an unsigned long
  Block,      \* bytes of a block: 512
  Mega,       \* bytes of a megabyte
  Size,       \* blocks of the new partitions 2 to 7
  MinRoot,    \* MIN_ROOTBLOCKS
  FixFree,    \* BLK_FIX_APPLEFREE
  NPart,      \* 16
  Names,      \* what partitions may be called
  InitMaps,   \* the maps of the drive
  Swaps,      \* what a user says with -s, in megabytes
  InUse,      \* partitions that may be mounted
  Tried,      \* partitions that are tested
  MaxFaults,  \* how often a write fails or the tool is stopped
  None

Entry == [start : 0..(Word - 1), len : 0..(Word - 1), name : Names]

Unsigned(n) == n % Word

\* The names of the partition that is to become the main root, or once was.
RootNames == {"Extra", "Main root"}

\* The blocks of the new partitions from 2 to the one before c.
Ahead(c) == LET n(d) == IF d < c THEN Size[d] ELSE 0
            IN  n(2) + n(3) + n(4) + n(5) + n(6) + n(7)
SmallSizes == Ahead(8)

Overlap(a, b) == a.start < b.start + b.len /\ b.start < a.start + a.len
Disjoint(map) == \A c, d \in 1..Len(map) : c # d => ~Overlap(map[c], map[d])

\* A map as TiVo and the tools for it make them: none of the partitions is empty,
\* they share no block, blocks are numbered by a u32, and the main root is not
\* among 2 to 8.
AsMade(map) ==
  /\ \A c \in 1..Len(map) : map[c].len > 0 /\ map[c].start + map[c].len < Word
  /\ Disjoint(map)
  /\ \A c \in 2..8 : map[c].name \notin RootNames

ASSUME WidthAssumption == {Word, Block, Mega, MinRoot, FixFree, NPart, MaxFaults} \subseteq Nat \ {0}
ASSUME SizesAssumption == /\ Size \in [2..7 -> Nat]
                          /\ SmallSizes + FixFree + Word \div Block < Word
ASSUME NamesAssumption == RootNames \cup {"Decoy"} \subseteq Names
ASSUME MapsAssumption == /\ InitMaps \subseteq Seq(Entry)
                         /\ \A m \in InitMaps : Len(m) \in 8..NPart /\ AsMade(m)
ASSUME UseAssumption == /\ InUse \cup Tried \subseteq 1..NPart
                        /\ Swaps \subseteq Nat

VARIABLES
  first,   \* history: the map the drive had before tivopart was used
  disk,    \* the map on the drive
  kern,    \* the kernel's table: [start, len] or None
  used,    \* the partitions that are mounted
  flipped, \* the blocks whose first byte "test" has inverted
  tool,    \* the command at work, or what the last one said
  forced,  \* history: -f made it go on where it would have stopped
  faults

vars == <<first, disk, kern, used, flipped, tool, forced, faults>>

Off == [at |-> "off"]
Said(ok) == [at |-> "said", ok |-> ok]
Idle == tool.at \in {"off", "said"}

-----------------------------------------------------------------------------
(* consolidate().                                                           *)

\* The partition that is to become the main root, or once was: 0 for none.
LastPart(map) ==
  LET named == {c \in 1..Len(map) : map[c].name \in RootNames}
  IN  IF named = {} THEN 0 ELSE CHOOSE c \in named : \A d \in named : c <= d

\* u32 swapblocks = swapsize * 1048576 / SECTOR_SIZE
SwapBlocks(mega) == Unsigned(mega * Mega) \div Block

\* The blocks of 2 to 8, and the block behind them if they follow one another.
Total(map) == map[2].len + map[3].len + map[4].len + map[5].len + map[6].len + map[7].len + map[8].len
PoolEnd(map) == Unsigned(map[2].start + Total(map))
Contiguous(map) == \A c \in 3..8 : map[c].start = Unsigned(map[c - 1].start + map[c - 1].len)

\* Mutant: the last partition is always taken.
AnyInPool(map) == TRUE

\* Does the last partition follow partition 8?
LastInPool(map) == map[LastPart(map)].start = PoolEnd(map)

\* The last partition gets free space back that an earlier version took from it.
Fixes(map) == LastInPool(map) /\ LastPart(map) # 1

PoolBlocks(map) == Unsigned(Total(map) + (IF LastInPool(map) THEN map[LastPart(map)].len ELSE 0))

\* Mutant: what the free partition gets back is not subtracted.
MainRootAll(map, swap) == Unsigned(PoolBlocks(map) - SmallSizes - swap)

\* What is left for the main root.
MainRoot(map, swap) ==
  Unsigned(PoolBlocks(map) - SmallSizes - swap - (IF Fixes(map) THEN FixFree ELSE 0))

EnoughRoom(map, swap) == MainRoot(map, swap) >= MinRoot /\ MainRoot(map, swap) <= PoolBlocks(map)

\* The new map: the free partition, 2 to 7, swap space and the main root.
Consolidated(map, swap) ==
  LET base == map[2].start + (IF Fixes(map) THEN FixFree ELSE 0)
      Put(c, n) == [start |-> Unsigned(base + Ahead(c)), len |-> n,
                    name |-> IF c \in {2, 5} THEN "Decoy" ELSE map[c].name]
      fixed == [start |-> map[2].start, len |-> FixFree, name |-> "Extra"]
  IN  [c \in 1..Len(map) |->
         CASE c = 1 -> [start |-> Unsigned(base + SmallSizes + swap), len |-> MainRoot(map, swap),
                        name |-> "Main root"]
           [] c \in 2..7 -> Put(c, Size[c])
           [] c = 8 -> Put(8, swap)
           [] c > 8 -> IF c = LastPart(map) /\ Fixes(map) THEN fixed ELSE map[c]]

Sound(map, swap) == Contiguous(map) /\ EnoughRoom(map, swap)

\* consolidate up to its first write.
Consolidate(mega, force) ==
  LET swap == SwapBlocks(mega)
      goes == LastPart(disk) # 0 /\ (Sound(disk, swap) \/ force)
  IN  /\ Idle
      /\ tool' = IF goes THEN [at |-> "write", map |-> Consolidated(disk, swap), k |-> 1,
                               old |-> disk, mega |-> mega]
                 ELSE Said(FALSE)
      /\ forced' = (forced \/ (goes /\ ~Sound(disk, swap)))
      /\ UNCHANGED <<first, disk, kern, used, flipped, faults>>

Written ==
  IF tool.k = Len(disk) THEN [at |-> "del", map |-> tool.map, k |-> 1] ELSE [tool EXCEPT !.k = @ + 1]

\* write_partition_map, entry by entry; an error is printed and nothing more.
WriteEntry ==
  /\ tool.at = "write"
  /\ disk' = [disk EXCEPT ![tool.k] = tool.map[tool.k]]
  /\ tool' = Written
  /\ UNCHANGED <<first, kern, used, flipped, forced, faults>>

WriteFails ==
  /\ tool.at = "write" /\ faults < MaxFaults
  /\ faults' = faults + 1
  /\ tool' = Written
  /\ UNCHANGED <<first, disk, kern, used, flipped, forced>>

-----------------------------------------------------------------------------
(* revalidate_drive().                                                      *)

Revalidate ==
  /\ Idle
  /\ tool' = [at |-> "del", map |-> disk, k |-> 1]
  /\ UNCHANGED <<first, disk, kern, used, flipped, forced, faults>>

\* The first loop, of one partition: what is in use stays.
DelPart ==
  /\ tool.at = "del"
  /\ kern' = IF tool.k \in used THEN kern ELSE [kern EXCEPT ![tool.k] = None]
  /\ tool' = IF tool.k = NPart THEN [at |-> "add", map |-> tool.map, k |-> 1, ok |-> TRUE]
             ELSE [tool EXCEPT !.k = @ + 1]
  /\ UNCHANGED <<first, disk, used, flipped, forced, faults>>

\* BLKPG_ADD_PARTITION: does the kernel accept it?
Takes(table, c, e) == table[c] = None /\ \A d \in 1..NPart : table[d] # None => ~Overlap(table[d], e)

Extent(e) == [start |-> e.start, len |-> e.len]

\* The second loop, of one partition, if the map has it; a refusal is remembered.
AddPart ==
  /\ tool.at = "add"
  /\ LET c      == tool.k
         wanted == c <= Len(tool.map)
         taken  == wanted /\ Takes(kern, c, tool.map[c])
         ok     == tool.ok /\ (wanted => taken)
     IN  /\ kern' = IF taken THEN [kern EXCEPT ![c] = Extent(tool.map[c])] ELSE kern
         /\ tool' = IF c = NPart THEN [at |-> "said", ok |-> ok, map |-> tool.map]
                    ELSE [tool EXCEPT !.k = c + 1, !.ok = ok]
  /\ UNCHANGED <<first, disk, used, flipped, forced, faults>>

-----------------------------------------------------------------------------
(* test_partition(): two passes that read the first byte of a partition from *)
(* the drive and from the kernel's partition, then invert it on the drive.   *)

Test(part) ==
  /\ Idle /\ part <= Len(disk)
  /\ tool' = IF kern[part] = None \/ kern[part].len = 0 THEN Said(FALSE)
             ELSE [at |-> "test", part |-> part, pass |-> 0, block |-> disk[part].start]
  /\ UNCHANGED <<first, disk, kern, used, flipped, forced, faults>>

\* Does the byte that the kernel finds equal the one on the drive?  Two bytes
\* that are not the same one may be equal by chance, until one of them changes.
SameByte(same) == kern[tool.part].start = tool.block \/ same

Flipped == IF tool.block \in flipped THEN flipped \ {tool.block} ELSE flipped \cup {tool.block}

FirstPass(same) ==
  /\ tool.at = "test" /\ tool.pass = 0
  /\ IF SameByte(same)
     THEN flipped' = Flipped /\ tool' = [tool EXCEPT !.pass = 1]
     ELSE tool' = Said(FALSE) /\ UNCHANGED flipped
  /\ UNCHANGED <<first, disk, kern, used, forced, faults>>

\* Mutant: what the second pass reads does not count.
SecondSays == TRUE

\* What the second pass reads, now that the byte on the drive has changed.
SecondAgrees == SameByte(FALSE)

SecondPass ==
  /\ tool.at = "test" /\ tool.pass = 1
  /\ flipped' = Flipped
  /\ tool' = [at |-> "said", ok |-> SecondAgrees, part |-> tool.part, block |-> tool.block]
  /\ UNCHANGED <<first, disk, kern, used, forced, faults>>

\* "error writing to disk", after the second pass "data may be corrupted!"
TestFails ==
  /\ tool.at = "test" /\ faults < MaxFaults
  /\ faults' = faults + 1
  /\ tool' = Said(FALSE)
  /\ UNCHANGED <<first, disk, kern, used, flipped, forced>>

-----------------------------------------------------------------------------
(* What else happens.                                                       *)

Mount(c) ==
  /\ c \in InUse \ used /\ kern[c] # None
  /\ used' = used \cup {c}
  /\ UNCHANGED <<first, disk, kern, flipped, tool, forced, faults>>

Unmount(c) ==
  /\ c \in used
  /\ used' = used \ {c}
  /\ UNCHANGED <<first, disk, kern, flipped, tool, forced, faults>>

\* The kernel's table of a drive whose map it reads as it starts.
TableOf(map) == [c \in 1..NPart |-> IF c <= Len(map) THEN Extent(map[c]) ELSE None]

\* The machine starts again: at any time when nothing runs.
Reboot ==
  /\ Idle
  /\ kern' = TableOf(disk) /\ used' = {} /\ tool' = Off
  /\ UNCHANGED <<first, disk, flipped, forced, faults>>

\* The tool is stopped, or the machine.
Stop ==
  /\ ~Idle /\ faults < MaxFaults
  /\ faults' = faults + 1
  /\ tool' = Off
  /\ UNCHANGED <<first, disk, kern, used, flipped, forced>>

Init ==
  /\ first \in InitMaps /\ disk = first
  /\ kern = TableOf(disk) /\ used = {}
  /\ flipped = {} /\ tool = Off /\ forced = FALSE /\ faults = 0

Next ==
  \/ \E mega \in Swaps, force \in BOOLEAN : Consolidate(mega, force)
  \/ WriteEntry \/ WriteFails
  \/ Revalidate \/ DelPart \/ AddPart
  \/ \E part \in Tried : Test(part)
  \/ \E same \in BOOLEAN : FirstPass(same)
  \/ SecondPass \/ TestFails
  \/ \E c \in InUse : Mount(c)
  \/ \E c \in InUse : Unmount(c)
  \/ Reboot \/ Stop

Spec == Init /\ [][Next]_vars
-----------------------------------------------------------------------------
Blocks(e) == e.start..(e.start + e.len - 1)

\* The partitions consolidate has no business with.
Others == {c \in 9..Len(first) : c # LastPart(first) \/ ~LastInPool(first)}

\* "should be able to convert you to the "new" layout without a restore (leaving MFS
\* intact)": however often it is run, wherever it is stopped and whichever writes
\* fail, nothing overlaps the partitions behind the first eight; and as long as it
\* was never disturbed, no two partitions overlap at all.
MfsIntact ==
  ~forced =>
    /\ \A c \in Others : disk[c] = first[c] /\ \A d \in 1..Len(disk) : d # c => ~Overlap(disk[d], disk[c])
    /\ faults = 0 /\ tool.at # "write" => Disjoint(disk)

\* The blocks of the partitions that consolidate gives out anew.
Pool(map) == UNION {Blocks(map[c]) : c \in 2..8 \cup (IF LastInPool(map) THEN {LastPart(map)} ELSE {})}

\* What is given out is what was taken, each block once, and swap space has the
\* size asked for.  (Not so for 4096 megabytes and more, whose bytes do not fit
\* into an unsigned long.)
PoolGivenOut ==
  tool.at = "write" /\ ~forced =>
    LET new == {c \in 1..Len(disk) : c <= 8 \/ (c = LastPart(tool.old) /\ Fixes(tool.old))}
    IN  /\ UNION {Blocks(tool.map[c]) : c \in new} = Pool(tool.old)
        /\ \A c, d \in new : c # d => ~Overlap(tool.map[c], tool.map[d])
        /\ tool.mega * Mega < Word => tool.map[8].len = (tool.mega * Mega) \div Block

\* When revalidate reports no error, the kernel has every partition where the map
\* has it, whatever was mounted in the meantime.
SuccessIsFresh ==
  tool.at = "said" /\ "map" \in DOMAIN tool /\ tool.ok =>
    \A c \in 1..Len(tool.map) : kern[c] = Extent(tool.map[c])

\* "test to see if the kernel's cache of partition part#'s offset is consistent with
\* the disklabel": it is if the test says so, by chance it never does, and the
\* drive is left as it was unless the test was disturbed.
TestTells ==
  /\ tool.at = "said" /\ "part" \in DOMAIN tool => (tool.ok <=> kern[tool.part].start = disk[tool.part].start)
  /\ faults = 0 /\ tool.at # "test" => flipped = {}

\* What tivopart says of the kernel's table is true.
KernelTold == SuccessIsFresh /\ TestTells
=============================================================================
