------------------------------- MODULE PdiskMap -------------------------------
(***************************************************************************)
(* The partition map editor of tivopart (partition_map.c, under the        *)
(* commands of pdisk.c).  A session reads the map of a drive into entries  *)
(* that are linked twice, in the order of the map and in the order of the  *)
(* drive; the user creates, deletes and reorders partitions and resizes    *)
(* the map; writing it is one block after another, any of which may fail,  *)
(* and the machine may stop between two of them.                           *)
(*                                                                         *)
(* Entry k of the sequence parts is the one with disk address k, base is   *)
(* the other order, a sequence of disk addresses.  Names, flags, device    *)
(* drivers (a TiVo's block zero lists none), read-only sessions and other  *)
(* block sizes than 512 are left out.                                      *)
(***************************************************************************)
EXTENDS Integers, Sequences, SequencesExt

CONSTANTS
  MediaSize,  \* blocks of the drive
  Word,       \* 2^32: block numbers and lengths are u32
  MapSize,    \* blocks of a new map: 63
  Probe,      \* the first block that is tried for the size of a drive: 1024
  Users,      \* what a user asks for: first blocks and lengths of partitions, their
              \* new numbers and new sizes of the map, the partitions whose block or
              \* length they may name instead; and the bounds of a session:
              \* how often the map is written and how many blocks of one write fail
  InitDisks,  \* maps the drive may carry at first
  Closed,     \* no session
  NoMap,      \* a session without a map
  Blank       \* a block without the signature of an entry

Types  == {"map", "free", "data"}
Blocks == 1..(MediaSize - 1)
Entry  == [start : 0..(Word - 1), len : 0..(Word - 1), type : Types]
DPME   == [count : Nat, start : 0..(Word - 1), len : 0..(Word - 1), type : Types]

ASSUME SizesAssumption == MediaSize \in Nat /\ Word \in Nat /\ MapSize \in Nat \ {0}
                          /\ MapSize + 1 < MediaSize /\ MediaSize < Word
                          /\ Probe \in 2..(Word \div 4) /\ Word % 4 = 0
ASSUME UsersAssumption ==
  Users \subseteq [bases : SUBSET (0..(Word - 1)), lengths : SUBSET (0..(Word - 1)),
                  indices : SUBSET Nat, nths : SUBSET Nat, sizes : SUBSET (0..MediaSize), writes : Nat, fails : Nat]
ASSUME DisksAssumption == InitDisks \subseteq [Blocks -> DPME \cup {Blank}]
ASSUME NoneAssumption ==
  /\ Blank \notin DPME
  /\ NoMap \notin [parts : Seq(Entry), base : Seq(Nat), max : Int, changed : BOOLEAN, written : BOOLEAN]

VARIABLES
  user,  \* the one at work
  disk,  \* the blocks of the drive where a map may be
  map,   \* the map of the session: [parts, base, max, changed, written]
  todo,  \* the block writes of write_partition_map still to do
  writes, \* times the map was written
  last   \* history: the entries that the last write replaces and the new ones, as
         \* long as it matters, how many of its blocks failed, and whether a block
         \* behind the old map was left over from one with as many entries as the new

vars == <<user, disk, map, todo, writes, last>>

Unsigned(n) == n % Word
End(e) == Unsigned(e.start + e.len)
IsFree(e) == e.type = "free"
Part(start, len, type) == [start |-> start, len |-> len, type |-> type]

-----------------------------------------------------------------------------
(* The two lists.                                                           *)

\* Where an insertion puts key: in front, or behind the first that is not
\* larger and whose successor is not smaller.
Slot(keys, key) ==
  IF keys = <<>> \/ key <= Head(keys) THEN 1
  ELSE 1 + CHOOSE i \in 1..Len(keys) :
             /\ keys[i] <= key /\ (i = Len(keys) \/ key <= keys[i + 1])
             /\ \A j \in 1..(i - 1) : ~(keys[j] <= key /\ key <= keys[j + 1])

Starts(parts, base) == [i \in 1..Len(base) |-> parts[base[i]].start]

\* The base order once there is a new entry k.
Lifted(base, k) == [i \in 1..Len(base) |-> IF base[i] >= k THEN base[i] + 1 ELSE base[i]]

\* add_data_to_map: entry e becomes number k.
Insert(m, k, e) ==
  LET lifted == Lifted(m.base, k)
      parts  == InsertAt(m.parts, k, e)
      base   == InsertAt(lifted, Slot(Starts(parts, lifted), e.start), k)
  IN  [m EXCEPT !.parts = parts, !.base = base,
                !.max = IF @ < 0 /\ e.type = "map" THEN e.len ELSE @]

\* Where entry k is in base order.
At(base, k) == CHOOSE i \in 1..Len(base) : base[i] = k

\* The base order without entry k.
BaseWithout(base, k) ==
  LET others == RemoveAt(base, At(base, k))
  IN  [i \in 1..Len(others) |-> IF others[i] > k THEN others[i] - 1 ELSE others[i]]

\* delete_entry.
Delete(m, k) == [m EXCEPT !.parts = RemoveAt(@, k), !.base = BaseWithout(@, k)]

\* The neighbours of entry k in base order; 0 is none.
NextByBase(m, k) ==
  LET i == At(m.base, k) IN IF i = Len(m.base) THEN 0 ELSE m.base[i + 1]
PrevByBase(m, k) ==
  LET i == At(m.base, k) IN IF i = 1 THEN 0 ELSE m.base[i - 1]

-----------------------------------------------------------------------------
(* read_partition_map.  The entries of a map agree on their number.         *)

\* Mutant: blocks of another map will do.
GoodAny(k, limit) == disk[k] # Blank

Good(k, limit) == disk[k] # Blank /\ disk[k].count = limit

Limit == IF disk[1] # Blank /\ disk[1].count > 1 THEN disk[1].count ELSE 1

ReadMap ==
  IF \/ disk[1] = Blank
     \/ \E k \in 2..Limit : k \notin Blocks \/ ~Good(k, disk[1].count)
  THEN NoMap
  ELSE LET m[k \in 0..Limit] ==
             IF k = 0 THEN [parts |-> <<>>, base |-> <<>>, max |-> -1,
                            changed |-> FALSE, written |-> FALSE]
             ELSE Insert(m[k - 1], k, Part(disk[k].start, disk[k].len, disk[k].type))
       IN  m[Limit]

-----------------------------------------------------------------------------
(* compute_device_size, of a drive that does not tell: the first block that  *)
(* cannot be read is looked for by trying.                                  *)

Further(b) == IF b <= Probe THEN b * Probe ELSE b * 2

\* A readable block and one that may not be: the blocks tried are further and
\* further out, until one cannot be read or the next is half way to the end.
Bounds(size) ==
  LET tried[i \in 0..Word] == IF i = 0 THEN Probe ELSE Further(tried[i - 1])
      Stop(i) == tried[i] >= size \/ Further(tried[i]) >= Word \div 2
      n == CHOOSE i \in 0..Word : Stop(i) /\ \A j \in 0..(i - 1) : ~Stop(j)
  IN  IF tried[n] < size THEN <<tried[n], Word - 2>>
      ELSE <<IF n = 0 THEN 0 ELSE tried[n - 1], tried[n]>>

\* The blocks between which is searched.
Spans == {w \in Nat \X Nat : w[1] <= w[2]}

\* Mutant: the number of the last block that was read.
ComputedSizeLast(size) ==
  LET search[w \in Spans] ==
        LET l == w[1]
            r == w[2]
            x == (r - l) \div 2 + l
        IN  IF x < size THEN IF x = r THEN x ELSE search[<<x + 1, r>>]
            ELSE IF x = l THEN x ELSE search[<<l, x - 1>>]
  IN  search[Bounds(size)]

\* The binary search, of blocks l to r.
ComputedSize(size) ==
  LET search[w \in Spans] ==
        LET l == w[1]
            r == w[2]
            x == (r - l) \div 2 + l
        IN  IF x < size THEN IF x = r THEN x + 1 ELSE search[<<x + 1, r>>]
            ELSE IF x = l THEN x ELSE search[<<l, x - 1>>]
  IN  search[Bounds(size)]

-----------------------------------------------------------------------------
(* add_partition_to_map.                                                    *)

Covers(e, base, length) == e.start <= base /\ Unsigned(base + length) <= End(e)

\* The first entry in base order that covers the blocks; 0 is none.
Found(m, base, length) ==
  LET I == {i \in 1..Len(m.base) : Covers(m.parts[m.base[i]], base, length)}
  IN  IF I = {} THEN 0 ELSE m.base[CHOOSE i \in I : \A j \in I : i <= j]

Action(e, base, length) ==
  IF e.start = base THEN IF e.len = length THEN "replace" ELSE "add"
  ELSE IF End(e) = Unsigned(base + length) THEN "add" ELSE "split"

\* Mutant: a split takes one more entry, like the others.
NeededOnce(action) == IF action = "replace" THEN 0 ELSE 1

Needed(action) == CASE action = "replace" -> 0 [] action = "add" -> 1 [] action = "split" -> 2

Room(m) == IF m.max < 0 THEN MediaSize ELSE m.max

\* Mutant: forgets what lies in front of the new partition.
RestBehind(e, base, length) ==
  IF e.start # base /\ End(e) = Unsigned(base + length)
  THEN Part(e.start, Unsigned(base - e.start), "free")
  ELSE Part(Unsigned(base + length), Unsigned(e.len - length), "free")

\* What remains of the free entry: the part in front of the new partition when
\* there is nothing behind it, the part behind it otherwise.
Rest(e, base, length) ==
  IF e.start # base /\ End(e) = Unsigned(base + length)
  THEN Part(e.start, Unsigned(base - e.start), "free")
  ELSE Part(Unsigned(base + length), Unsigned(e.len - length - (base - e.start)), "free")

Refused(m, base, length) ==
  LET k == Found(m, base, length)
  IN  \/ k = 0
      \/ ~IsFree(m.parts[k])
      \/ Len(m.parts) + Needed(Action(m.parts[k], base, length)) > Room(m)

WithPartition(m, base, length, type) ==
  LET k      == Found(m, base, length)
      e      == m.parts[k]
      action == Action(e, base, length)
      new    == Part(base, length, type)
      cut    == [m EXCEPT !.parts[k] = Rest(e, base, length)]
      one    == Insert(cut, k, new)
      two    == Insert(one, k, Part(e.start, Unsigned(base - e.start), "free"))
  IN  CASE action = "replace" -> [m EXCEPT !.parts[k] = new]
        [] action = "add" -> one
        [] action = "split" -> two

Added(m, base, length, type) ==
  IF Refused(m, base, length) THEN m
  ELSE [WithPartition(m, base, length, type) EXCEPT !.changed = TRUE]

-----------------------------------------------------------------------------
(* delete_partition_from_map.                                               *)

\* The entry up to the given end, a u32.
Through(start, end) == Part(start, Unsigned(end - start), "free")
Larger(a, b) == IF a < b THEN b ELSE a

\* combine_entry with the next entry: its end, but not less than what k has.
JoinNext(m, k) ==
  LET p == NextByBase(m, k)
      e == m.parts[k]
      f == m.parts[p]
      end == IF End(e) = f.start THEN End(f) ELSE Larger(End(e), End(f))
  IN  IF p = 0 \/ ~IsFree(f) THEN m
      ELSE Delete([m EXCEPT !.parts[k] = Through(e.start, end)], p)

JoinPrev(m, k) ==
  LET p == PrevByBase(m, k)
      e == m.parts[k]
      f == m.parts[p]
      end == IF End(f) = e.start THEN End(e) ELSE Larger(End(f), End(e))
  IN  IF p = 0 \/ ~IsFree(f) THEN m
      ELSE Delete([m EXCEPT !.parts[k] = Through(f.start, end)], p)

\* The number of entry k once the next one has been joined.
After(m, k) ==
  LET p == NextByBase(m, k) IN IF p # 0 /\ p < k /\ IsFree(m.parts[p]) THEN k - 1 ELSE k

Freed(m, k) ==
  LET free == [m EXCEPT !.parts[k].type = "free", !.changed = TRUE]
  IN  JoinPrev(JoinNext(free, k), After(free, k))

\* The entry of the map itself is not deleted.
Deleted(m, k) == IF m.parts[k].type = "map" THEN m ELSE Freed(m, k)

-----------------------------------------------------------------------------
(* move_entry_in_map and resize_map.                                        *)

\* Taken out, then put back by number among the others, which still have theirs.
Moved(m, k, index) ==
  LET others == RemoveAt([i \in 1..Len(m.parts) |-> i], k)
      order  == InsertAt(others, Slot(others, index), k)
  IN  [m EXCEPT !.parts = [i \in 1..Len(order) |-> m.parts[order[i]]],
                !.base = [i \in 1..Len(@) |-> CHOOSE j \in 1..Len(order) : order[j] = @[i]],
                !.changed = TRUE]

MapEntries(m) == {i \in 1..Len(m.base) : m.parts[m.base[i]].type = "map"}
MapEntry(m)   == m.base[CHOOSE i \in MapEntries(m) : \A j \in MapEntries(m) : i <= j]

\* Do the entries fit, with one more unless what is freed joins the next entry?
Fits(m, size, next) ==
  size >= Len(m.parts) + (IF next = 0 \/ ~IsFree(m.parts[next]) THEN 1 ELSE 0)

\* Can the map grow into the free entry behind it?
Grows(m, k, size, next) ==
  /\ next # 0 /\ IsFree(m.parts[next])
  /\ End(m.parts[k]) = m.parts[next].start
  /\ size <= Unsigned(m.parts[k].len + m.parts[next].len)

\* The entry of the map is given up and added again.
Resized(m, size) ==
  LET k    == MapEntry(m)
      len  == m.parts[k].len
      next == NextByBase(m, k)
      done == [Added(Freed(m, k), 1, size, "map") EXCEPT !.max = size]
  IN  IF MapEntries(m) = {} THEN m
      ELSE IF size < len /\ Fits(m, size, next) THEN done
      ELSE IF size > len /\ Grows(m, k, size, next) THEN done
      ELSE m

-----------------------------------------------------------------------------
(* validate_map: what the blocks of the drive are allocated to, as a list    *)
(* of ranges that covers every block number once.                           *)

RangeItem(low, high, valid, state) == [low |-> low, high |-> high, valid |-> valid, state |-> state]

AllRanges == <<RangeItem(0, Word - 1, FALSE, "unallocated")>>

Counted(r, allocate) ==
  IF ~allocate THEN [r EXCEPT !.valid = TRUE]
  ELSE [r EXCEPT !.state = IF @ = "unallocated" THEN "allocated" ELSE "multiply allocated"]

\* Mutant: a range that begins before is not split.
SplitWhole(r, low, high, allocate) ==
  IF high < r.low \/ r.high < low THEN <<r>> ELSE <<Counted(r, allocate)>>

\* A range once blocks low to high were counted: split where they begin and end.
Split(r, low, high, allocate) ==
  IF high < r.low \/ r.high < low THEN <<r>>
  ELSE LET from  == Larger(low, r.low)
           to    == IF high < r.high THEN high ELSE r.high
           front == IF from = r.low THEN <<>> ELSE <<[r EXCEPT !.high = from - 1]>>
           back  == IF to = r.high THEN <<>> ELSE <<[r EXCEPT !.low = to + 1]>>
       IN  front \o <<Counted([r EXCEPT !.low = from, !.high = to], allocate)>> \o back

\* An empty run of blocks, and one that wraps around, is not counted.
AddRange(list, base, len, allocate) ==
  IF len = 0 \/ Unsigned(base + len - 1) < len - 1 THEN list
  ELSE FlattenSeq([i \in 1..Len(list) |->
                     Split(list[i], base, Unsigned(base + len - 1), allocate)])

\* Is the range one that print_range_list is silent about?
Unremarkable(r) == r.state = IF r.valid THEN "allocated" ELSE "unallocated"

\* Does the command say "okay" of the ranges?  (Joining like ranges first
\* changes only the lines it prints otherwise.)
Validates(m) ==
  LET drive == AddRange(AllRanges, 1, MediaSize - 1, FALSE)
      list  == FoldLeft(LAMBDA l, e : AddRange(l, e.start, e.len, TRUE), drive, m.parts)
  IN  \A i \in 1..Len(list) : Unremarkable(list[i])

-----------------------------------------------------------------------------
Running == map \notin {Closed, NoMap}
Idle    == todo = <<>>

Nothing == [old |-> NoMap, new |-> NoMap, failed |-> 0, leftover |-> FALSE]

Init ==
  /\ user \in Users /\ disk \in InitDisks
  /\ map = Closed
  /\ todo = <<>>
  /\ writes = 0
  /\ last = Nothing

Open ==
  /\ map = Closed
  /\ map' = ReadMap
  /\ last' = Nothing
  /\ UNCHANGED <<user, disk, todo, writes>>

\* init_partition_map: all of the drive is free, then the map is added.  (The
\* written flag of a new map is not initialised; nothing reads it before a write
\* sets it, because changed is set until then.)
InitMap ==
  /\ map # Closed /\ Idle
  /\ LET empty == [parts |-> <<>>, base |-> <<>>, max |-> -1, changed |-> TRUE, written |-> FALSE]
         all   == Insert(empty, 1, Part(1, ComputedSize(MediaSize) - 1, "free"))
     IN  map' = Added(all, 1, MapSize, "map")
  /\ UNCHANGED <<user, disk, todo, writes, last>>

\* "<nth>p": the block a partition begins with, or its length.
BaseArguments   == user.bases \cup {map.parts[k].start : k \in user.nths \cap 1..Len(map.parts)}
LengthArguments == user.lengths \cup {map.parts[k].len : k \in user.nths \cap 1..Len(map.parts)}

Create(base, length) ==
  /\ Running /\ Idle
  /\ ~Refused(map, base, length)
  /\ map' = Added(map, base, length, "data")
  /\ UNCHANGED <<user, disk, todo, writes, last>>

\* The name is left out, that there is something to write is not.
Rename(k) ==
  /\ Running /\ Idle /\ k <= Len(map.parts)
  /\ map' = [map EXCEPT !.changed = TRUE]
  /\ UNCHANGED <<user, disk, todo, writes, last>>

DeletePart(k) ==
  /\ Running /\ Idle /\ k <= Len(map.parts)
  /\ map' = Deleted(map, k)
  /\ UNCHANGED <<user, disk, todo, writes, last>>

Reorder(k, index) ==
  /\ Running /\ Idle /\ k <= Len(map.parts)
  /\ map' = Moved(map, k, index)
  /\ UNCHANGED <<user, disk, todo, writes, last>>

ChangeMapSize(size) ==
  /\ Running /\ Idle
  /\ map' = Resized(map, size)
  /\ UNCHANGED <<user, disk, todo, writes, last>>

\* "zap the block after the map (if possible) to get around a bug".
Zap(m) == IF m.max > Len(m.parts) THEN <<[at |-> Len(m.parts) + 1, v |-> Blank]>> ELSE <<>>

\* write_partition_map: the entries in the order of the map, then the zap.
BlockWrites(m) ==
  [k \in 1..Len(m.parts) |->
     [at |-> k, v |-> [count |-> Len(m.parts), start |-> m.parts[k].start,
                       len |-> m.parts[k].len, type |-> m.parts[k].type]]] \o Zap(m)

\* A map that was neither changed nor written before is not.
BeginWrite ==
  /\ Running /\ Idle
  /\ map.changed \/ map.written
  /\ writes < user.writes /\ writes' = writes + 1
  /\ todo' = BlockWrites(map)
  /\ last' = [old |-> IF ReadMap = NoMap THEN NoMap ELSE ReadMap.parts,
              new |-> map.parts, failed |-> 0,
              leftover |-> \E k \in Blocks : /\ k > Limit /\ disk[k] # Blank
                                            /\ disk[k].count = Len(map.parts)]
  /\ UNCHANGED <<user, disk, map>>

\* The map counts as written when its last block is.
Saved(rest) == IF rest = <<>> THEN [map EXCEPT !.changed = FALSE, !.written = TRUE] ELSE map

WriteBlock ==
  /\ ~Idle /\ Head(todo).at \in Blocks
  /\ disk' = [disk EXCEPT ![Head(todo).at] = Head(todo).v]
  /\ todo' = Tail(todo)
  /\ map' = Saved(Tail(todo))
  /\ last' = IF Tail(todo) = <<>> /\ last.failed = 0 THEN Nothing ELSE last
  /\ UNCHANGED <<user, writes>>

\* An error is reported, and the next block is written all the same.
WriteFails ==
  /\ ~Idle /\ last.failed < user.fails
  /\ todo' = Tail(todo)
  /\ map' = Saved(Tail(todo))
  /\ last' = [last EXCEPT !.failed = @ + 1]
  /\ UNCHANGED <<user, disk, writes>>

\* The user quits and discards what was not written, or the machine stops.
Quit ==
  /\ map # Closed
  /\ map' = Closed
  /\ todo' = <<>>
  /\ UNCHANGED <<user, disk, writes, last>>

Next ==
  \/ Open \/ InitMap
  \/ Running /\ \E base \in BaseArguments, length \in LengthArguments : Create(base, length)
  \/ \E k \in Blocks : Rename(k)
  \/ \E k \in Blocks : DeletePart(k)
  \/ \E k \in Blocks, index \in user.indices : Reorder(k, index)
  \/ \E size \in user.sizes : ChangeMapSize(size)
  \/ BeginWrite \/ WriteBlock \/ WriteFails
  \/ Quit

Spec == Init /\ [][Next]_vars
-----------------------------------------------------------------------------
\* Blocks, entries and flags are what their types say, both orders list the same
\* entries, and blocks are written only in a session.
TypeOK ==
  /\ disk \in [Blocks -> DPME \cup {Blank}]
  /\ Running =>
       /\ map.parts \in Seq(Entry)
       /\ Len(map.base) = Len(map.parts) /\ ToSet(map.base) = 1..Len(map.parts)
       /\ map.max \in Nat \cup {-1}
       /\ map.changed \in BOOLEAN /\ map.written \in BOOLEAN
  /\ \A i \in 1..Len(todo) : todo[i].at \in Nat \ {0} /\ todo[i].v \in DPME \cup {Blank}
  /\ ~Idle => Running

\* Every entry starts where the one before it ends, from block 1 to the last.
Tiled(m) ==
  LET n == Len(m.base)
      e(i) == m.parts[m.base[i]]
  IN  /\ \A i \in 1..n : e(i).len > 0 /\ e(i).start + e(i).len < Word
      /\ e(1).start = 1 /\ e(n).start + e(n).len = MediaSize
      /\ \A i \in 1..(n - 1) : e(i).start + e(i).len = e(i + 1).start

\* The user gave no length of zero, and none that wraps around.
Sane(m) == \A e \in ToSet(m.parts) : e.len > 0 /\ e.start + e.len < Word

\* A map that accounts for every block once goes on doing so, in both orders,
\* whatever the user creates, deletes, reorders and resizes.
StaysTiled ==
  [][(Running /\ Tiled(map) /\ map' # Closed /\ Sane(map')) => Tiled(map')]_vars

\* No two neighbours are free.
Joined(m) == \A i \in 1..(Len(m.base) - 1) : ~IsFree(m.parts[m.base[i]]) \/ ~IsFree(m.parts[m.base[i + 1]])

\* "it is combined with any adjacent free space": free space never ends up in
\* pieces, which nothing in the program would join again.
StaysJoined ==
  [][(Running /\ Tiled(map) /\ Joined(map) /\ map' # Closed /\ Sane(map')) => Joined(map')]_vars

\* No sequence of commands of the editor loses a block of the drive or leaves free
\* space in pieces.
StaysSound == StaysTiled /\ StaysJoined

\* "every block on disk in one & only one partition": the validate command finds
\* nothing to say exactly of the maps that account for every block once, also where
\* a partition of no length made two entries overlap.
ValidateIsRight == Running /\ Sane(map) => (Validates(map) <=> Tiled(map))

\* compute_device_size: when no map tells it, the size of a drive of any size is found
\* by reading alone.
SizeIsFound == map = NoMap => \A size \in 0..(Word - 1) : ComputedSize(size) = size

\* The entries of a map that tiles the drive have room in its own partition, so
\* that the blocks written for them destroy no other.
MapHasRoom ==
  Running /\ Tiled(map) /\ MapEntries(map) # {} =>
    /\ Len(map.parts) <= map.max
    /\ map.parts[MapEntry(map)].len = map.max

\* Nothing was changed since the map was read or written: the editor may be left
\* without a question.
Clean == Running /\ Idle /\ ~map.changed /\ last.failed = 0

\* The room a session counts on is what the next one finds.
RoomReadsBack == Clean /\ Tiled(map) => ReadMap.max = map.max

\* A session's map is two orders of the same entries, and its own partition has room
\* for them, in this session and in the next.
MapSound == TypeOK /\ MapHasRoom /\ RoomReadsBack

\* A session that is left without a question has saved everything: the next one reads
\* what this one shows, in both orders.
SavedReadsBack ==
  Clean =>
    /\ ReadMap # NoMap
    /\ ReadMap.parts = map.parts
    /\ Tiled(map) => ReadMap.base = map.base

\* A write that adds or removes entries and is left unfinished, wherever that is
\* and whichever blocks failed, is noticed: the next session reads the old map,
\* the new one, or none.  (Only one block behind a map is cleared; blocks left
\* over from a larger map before that may complete a torn one.)
TornIsNoticed ==
  last.old # NoMap /\ ~last.leftover /\ Len(last.old) # Len(last.new) /\ ReadMap # NoMap =>
    ReadMap.parts \in {last.old, last.new}

\* What the next session reads is what this one has written, all of it or nothing.
ReadsBackWhole == SavedReadsBack /\ TornIsNoticed
=============================================================================
