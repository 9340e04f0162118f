---------------------------- MODULE RestoreFinish ----------------------------
(***************************************************************************)
(* What a restore does once all data is on the drives (restore_finish of   *)
(* MFSTools): clear the partitions that were not in the backup, make swap  *)
(* space, name the new volumes in the header and, when the backup was      *)
(* shrunk, take everything out of the zone maps, the inodes and the        *)
(* transaction log that refers to volumes that are gone.                   *)
(*                                                                         *)
(* It works on what the backup of BackupLists holds.  The log is a ring of *)
(* sectors; its records follow one another in cells and may go on in the   *)
(* next sector, "first" cells of which then belong to the record before.   *)
(* Writes do not fail and the records are well formed.                     *)
(***************************************************************************)
EXTENDS BackupLists

CONSTANTS
  Cap,         \* cells of a log sector
  LogSectors,  \* sectors of the log
  Stamp,       \* the log stamp of the last sync
  MapLen,      \* cells of a record about a zone map, of one about an inode
  InodeLen,    \* without its runs (one cell each) and of any other record
  OtherLen,
  WordPages,   \* pages of a word of the swap bitmap: 32
  MaxWords,    \* words before the last: 1020
  SwapSizes,   \* sizes of the swap partition, in pages
  Nil

Record == [kind : {"map"}, sector : Nat] \cup [kind : {"inode"}, stream : BOOLEAN, runs : Seq(Run), size : Nat, used : Nat]
          \cup [kind : {"other"}]
ASSUME LogAssumption == \A s \in Sets : s.log \in Seq(Record)
ASSUME LengthsAssumption == {MapLen, InodeLen, OtherLen, Cap, LogSectors, WordPages} \subseteq Nat \ {0}
ASSUME SwapAssumption == MaxWords \in Nat /\ SwapSizes \subseteq Nat

VARIABLES
  header,  \* the volumes the header lists and the sectors it counts
  next,    \* the chain of zone maps: the zone behind each, 0 for none
  inodes,  \* the inode table
  log,     \* the sectors of the log: [stamp, first, size, cells]
  before,  \* the log sector in the other buffer, or Nil
  cur,     \* the stamp to read next
  cleared, \* the partitions 2 to 9 that were cleared
  swap,    \* the pages of the swap partition and those its header marks
  done     \* how far restore_finish is

finishVars == <<header, next, inodes, log, before, cur, cleared, swap, done>>
vars == <<backupVars, finishVars>>

\* The sectors of the volumes that were restored.
Total == Start[kept + 1]

-----------------------------------------------------------------------------
(* The log.                                                                 *)

Length(r) == CASE r.kind = "map" -> MapLen [] r.kind = "inode" -> InodeLen + Len(r.runs) [] r.kind = "other" -> OtherLen
Cells(r) == [k \in 1..Length(r) |-> [rec |-> r, k |-> k]]
Stream(records) == FlattenSeq([i \in DOMAIN records |-> Cells(records[i])])

\* The records of a log, cut into sectors.
Packed(records) ==
  LET cells == Stream(records)
      Cut1(n) == SubSeq(cells, n * Cap + 1, Smaller((n + 1) * Cap, Len(cells)))
      Heads(c) == {k \in DOMAIN c : c[k].k = 1}
      Sector(n) == LET c == Cut1(n)
                   IN  [stamp |-> Stamp + n, size |-> Len(c), cells |-> c,
                        first |-> IF Heads(c) = {} THEN Len(c) ELSE Min(Heads(c)) - 1]
      n == (Len(cells) + Cap - 1) \div Cap
      Old == [stamp |-> 0, size |-> 0, cells |-> <<>>, first |-> 0]
  IN  [at0 \in 0..(LogSectors - 1) |->
         LET k == (at0 - Stamp) % LogSectors IN IF k < n THEN Sector(k) ELSE Old]

\* The runs that lie in the volumes that were restored, moved up over the others.
MoveUp(left, run) == IF run.sector < Total THEN Append(left, run) ELSE left
Within(runs) == FoldLeft(MoveUp, <<>>, runs)

\* What is used of a stream without a run.  (curblks is the length of the run
\* before, whether that stays or not.)
LessUsed(w, run) ==
  LET gone == run.sector >= Total
  IN  [cur  |-> run.count,
       used |-> IF ~gone \/ w.used <= w.cur THEN w.used
                ELSE IF w.used > w.cur + run.count THEN w.used - run.count ELSE w.cur]

\* A record about a stream without the runs that are gone.
WithoutRuns(r) ==
  LET gone == SelectSeq(r.runs, LAMBDA run : run.sector >= Total)
  IN  IF gone = <<>> THEN r
      ELSE [r EXCEPT !.runs = Within(@),
                     !.size = @ - FoldLeft(LAMBDA n, run : n + run.count, 0, gone),
                     !.used = FoldLeft(LessUsed, [cur |-> 0, used |-> @], r.runs).used]

\* restore_fudge_log: the records a record becomes.
Fudged(r) ==
  IF r.kind = "map" /\ r.sector >= Total THEN <<>>
  ELSE IF r.kind = "inode" /\ r.stream THEN <<WithoutRuns(r)>>
  ELSE <<r>>

\* The record that begins at cell k of a sector, and whether it ends there too.
RecordAt(s, k) == s.cells[k + 1].rec
WholeAt(s, k) == k < s.size /\ k + Length(RecordAt(s, k)) <= s.size

\* Where the last record of a sector begins.
LastStart(s) ==
  LET f[k \in 0..s.size] ==
        IF k < s.size /\ k + Length(RecordAt(s, k)) < s.size THEN f[k + Length(RecordAt(s, k))] ELSE k
  IN  f[s.first]

\* The records that lie within a sector, fudged, and what follows them.
Rewritten(s) ==
  LET w[k \in 0..s.size] ==
        IF WholeAt(s, k) THEN Stream(Fudged(RecordAt(s, k))) \o w[k + Length(RecordAt(s, k))]
        ELSE SubSeq(s.cells, k + 1, s.size)
      cells == SubSeq(s.cells, 1, s.first) \o w[s.first]
  IN  [s EXCEPT !.cells = cells, !.size = Len(cells)]

\* Mutant: the part in this sector of a record that is cut stays.
JoinedHalf(p, s) == [prev |-> p, this |-> s, wrote |-> FALSE]

\* The record that goes on from sector p in sector s.  If what is left of it
\* fits in p, p is written; otherwise p is changed in its buffer only.
Joined(p, s) ==
  LET k    == LastStart(p)
      tail == p.size - k
      same == [prev |-> p, this |-> s, wrote |-> FALSE]
  IN  IF tail = 0 THEN same
      ELSE LET r   == RecordAt(p, k)
               new == Stream(Fudged(r))
               cut == IF Len(new) > tail THEN Length(r) - Len(new) ELSE s.first
               put == SubSeq(p.cells, 1, k) \o SubSeq(new, 1, Smaller(tail, Len(new)))
           IN  IF tail + s.first # Length(r) \/ Len(new) = Length(r) THEN same
               ELSE [prev |-> [p EXCEPT !.cells = put, !.size = Len(put)],
                     this |-> [s EXCEPT !.cells = SubSeq(new, tail + 1, Len(new)) \o SubSeq(@, s.first + 1, s.size),
                                        !.first = @ - cut, !.size = @ - cut],
                     wrote |-> Len(new) <= tail]

Slot(stamp) == stamp % LogSectors

-----------------------------------------------------------------------------
(* The steps of restore_finish.                                             *)

\* The restore itself: a block that does not fit the volumes cannot be written.
RestoreData ==
  /\ done = "nothing" /\ Started /\ ~Damaged
  /\ done' = IF \A b \in Range(blocks) : b.sector + b.count <= Total THEN "data" ELSE "failed"
  /\ UNCHANGED <<backupVars, header, next, inodes, log, before, cur, cleared, swap>>

\* The words of the bitmap that are full, and the bits set in the next.
FullWords(pages) == Smaller(pages \div WordPages, MaxWords)
LastBits(pages)  == Smaller(pages - FullWords(pages) * WordPages, WordPages)

\* Mutant: the page of the header may be swapped to.
MarkedAll(pages) == 0..(FullWords(pages) * WordPages + LastBits(pages) - 1)

\* The pages restore_make_swap marks, without its own.
Marked(pages) == (0..(FullWords(pages) * WordPages + LastBits(pages) - 1)) \ {0}

\* restore_cleanup_parts: the system partitions that were not in the backup.
CleanupParts == (2..9) \ Range(parts)

\* restore_cleanup_parts and restore_make_swap.
MakeSwap ==
  /\ done = "data" /\ done' = "swap"
  /\ cleared' = CleanupParts
  /\ \E p \in SwapSizes : swap' = [pages |-> p, marked |-> Marked(p)]
  /\ UNCHANGED <<backupVars, header, next, inodes, log, before, cur>>

\* restore_fixup_vol_list.
FixupVolList ==
  /\ done = "swap" /\ done' = "list"
  /\ header' = [volumes |-> kept, sectors |-> Total]
  /\ UNCHANGED <<backupVars, next, inodes, log, before, cur, cleared, swap>>

\* The last zone of the chain whose map is there.
LastZone ==
  LET f[z \in DOMAIN next] == IF next[z] # 0 /\ set.zones[next[z]].sector < Total THEN f[next[z]] ELSE z
  IN  f[1]

\* restore_fixup_zone_maps: both copies of that map, which cannot fail here.
FixupZoneMaps ==
  /\ done = "list" /\ done' = "zones"
  /\ next' = IF flags.shrink THEN [next EXCEPT ![LastZone] = 0] ELSE next
  /\ UNCHANGED <<backupVars, header, inodes, log, before, cur, cleared, swap>>

\* Mutant: the run that moves up into the place of one that is gone is not looked at.
FudgedInodeSkips(i) ==
  LET Gone(k) == i.runs[k].sector >= Total
      left == SelectSeq([k \in DOMAIN i.runs |-> k], LAMBDA k : ~Gone(k) \/ (k > 1 /\ Gone(k - 1)))
  IN  IF i.stream THEN [i EXCEPT !.runs = [n \in DOMAIN left |-> i.runs[left[n]]]] ELSE i

\* restore_fudge_inodes of one inode.
FudgedInode(i) ==
  LET runs == Within(i.runs)
  IN  IF ~i.stream \/ runs = i.runs THEN i ELSE [i EXCEPT !.runs = runs, !.used = 0]

FudgeInodes ==
  /\ done = "zones" /\ done' = "log"
  /\ inodes' = IF flags.shrink THEN [i \in DOMAIN inodes |-> FudgedInode(inodes[i])] ELSE inodes
  /\ cur' = Stamp
  /\ UNCHANGED <<backupVars, header, next, log, before, cleared, swap>>

\* restore_fudge_transactions, one turn of its loop.
FudgeSector ==
  /\ done = "log" /\ flags.shrink /\ log[Slot(cur)].stamp = cur
  /\ LET read == log[Slot(cur)]
     IN  \E j \in {IF read.first > 0 /\ before # Nil THEN Joined(before, read)
                   ELSE [prev |-> Nil, this |-> read, wrote |-> FALSE]} :
           \E s \in {Rewritten(j.this)} :
             /\ log' = [n \in DOMAIN log |->
                          IF n = Slot(cur) /\ s.size # read.size THEN s
                          ELSE IF j.wrote /\ n = Slot(cur - 1) THEN j.prev ELSE log[n]]
             /\ before' = s
  /\ cur' = cur + 1
  /\ UNCHANGED <<backupVars, header, next, inodes, cleared, swap, done>>

EndLog ==
  /\ done = "log" /\ (flags.shrink => log[Slot(cur)].stamp # cur)
  /\ done' = "finished"
  /\ UNCHANGED <<backupVars, header, next, inodes, log, before, cur, cleared, swap>>

Init ==
  /\ BackupInit
  /\ header = [volumes |-> Len(set.volumes), sectors |-> set.total]
  /\ next = [z \in DOMAIN set.zones |-> IF z = Len(set.zones) THEN 0 ELSE z + 1]
  /\ inodes = set.inodes /\ log = Packed(set.log) /\ before = Nil /\ cur = 0
  /\ swap = [pages |-> 0, marked |-> {}] /\ cleared = {}
  /\ done = "nothing"

Backup == BackupNext /\ UNCHANGED finishVars

Next == Backup \/ RestoreData \/ MakeSwap \/ FixupVolList \/ FixupZoneMaps \/ FudgeInodes \/ FudgeSector \/ EndLog

Spec == Init /\ [][Next]_vars

-----------------------------------------------------------------------------
(* Properties of the restored set.                                          *)

Finished == done = "finished"

\* The zones a TiVo finds, following the chain from the header.
Chain ==
  LET f[z \in DOMAIN next] == {z} \cup (IF next[z] = 0 THEN {} ELSE f[next[z]])
  IN  f[1]

\* A shrunk set refers to nothing behind its end, and it loses nothing before
\* it: not from the chain, whose maps are in the volumes that were kept, nor
\* from the inodes, of which backup and restore each handle one kind.
NothingDangles ==
  Finished =>
    /\ Chain = {z \in DOMAIN set.zones : set.zones[z].sector < header.sectors}
    /\ \A z \in Chain : set.zones[z].last < header.sectors
    /\ \A i \in DOMAIN inodes : \A e \in Ends(inodes[i].runs) : e <= header.sectors
    /\ \A i \in DOMAIN inodes : \A run \in Range(set.inodes[i].runs) :
         run.sector < header.sectors => run \in Range(inodes[i].runs)

\* The records of the log as a TiVo will replay them.
Replayed ==
  LET n == CHOOSE n \in 0..LogSectors : (n = LogSectors \/ log[Slot(Stamp + n)].stamp # Stamp + n)
                                        /\ \A m \in 0..(n - 1) : log[Slot(Stamp + m)].stamp = Stamp + m
  IN  [m \in 1..n |-> log[Slot(Stamp + m - 1)]]

\* What the record becomes of which the set is to keep only what is there.
Kept(r) ==
  IF r.kind = "map" /\ r.sector >= Total THEN <<>>
  ELSE IF r.kind # "inode" \/ ~r.stream THEN <<r>>
  ELSE <<[r EXCEPT !.runs = SelectSeq(@, LAMBDA run : run.sector < Total)]>>

\* A record over two sectors that becomes shorter and still needs both.
StillSplit ==
  LET s == Packed(set.log)
  IN  \E n \in 0..(LogSectors - 1) : \E k \in DOMAIN s[n].cells :
        LET c == s[n].cells[k]
            l == Len(Stream(Fudged(c.rec)))
        IN  /\ c.k = 1 /\ k - 1 + Length(c.rec) > s[n].size
            /\ l < Length(c.rec) /\ l > s[n].size - k + 1
SameRecord(a, b) == a.kind = b.kind /\ (a.kind = "inode" => a.runs = b.runs /\ a.stream = b.stream)

\* After records were shortened, dropped and moved within and between sectors,
\* the log still reads as one record after another: those it had, without what
\* refers to volumes that are gone, each sector saying where its first begins.
\* (Not so for a record that is StillSplit: its first half is never written.)
LogReads ==
  Finished /\ flags.shrink /\ ~StillSplit =>
    LET sectors == Replayed
        cells   == FlattenSeq([m \in DOMAIN sectors |-> sectors[m].cells])
        want    == Stream(FlattenSeq([i \in DOMAIN set.log |-> Kept(set.log[i])]))
    IN  /\ Len(cells) = Len(want)
        /\ \A k \in DOMAIN cells : cells[k].k = want[k].k /\ SameRecord(cells[k].rec, want[k].rec)
        /\ \A m \in DOMAIN sectors :
             LET heads == {k \in DOMAIN sectors[m].cells : sectors[m].cells[k].k = 1}
             IN  sectors[m].first = IF heads = {} THEN Len(sectors[m].cells) ELSE Min(heads) - 1

\* The size of a stream in the log is the length of the runs that are left.
LogSizes ==
  Finished => \A n \in DOMAIN log : \A c \in Range(log[n].cells) :
    c.rec.kind = "inode" => c.rec.size = FoldLeft(LAMBDA m, run : m + run.count, 0, c.rec.runs)

\* The log that a TiVo will replay is whole and agrees with itself.
LogRight == LogReads /\ LogSizes

\* restore_make_swap: the swap header marks every page of the partition, the last one
\* included, and never its own or one that is not there.  How much is marked of a
\* partition with more pages than the bitmap has bits (127 MB) is left open: README:268
\* ("Values up to 511 are possible") has it all, restore.c:1325 stops with the bitmap.
SwapWhole ==
  done \notin {"nothing", "data", "failed"} =>
    /\ swap.marked \subseteq 1..(swap.pages - 1)
    /\ swap.pages <= (MaxWords + 1) * WordPages => swap.marked = 1..(swap.pages - 1)
=============================================================================
