----------------------------- MODULE BackupStream -----------------------------
(***************************************************************************)
(* The stream between an MFSTools backup and its restore                   *)
(* (backup/backup.c, restore/restore.c and the loops of backmain.c and     *)
(* restmain.c).  A backup is a head sector, three lists of entries that    *)
(* run on across sectors, the boot sector, the partitions and the blocks   *)
(* of the volume set.  Each side keeps nothing but cursector to tell where *)
(* the last call stopped.  The backup is made in calls of one buffer; the  *)
(* restore reads what the file or pipe gives it, tries the drives once it  *)
(* has seen the lists, and goes on.  mfscopy (mfscopy/copy.c) hands each   *)
(* buffer of an uncompressed backup to the restore at once.                *)
(*                                                                         *)
(* Memory is counted in list entries: a buffer is a sequence of them.  An  *)
(* entry-sized piece of a data sector is the place the sector was read     *)
(* from.  Where the restored sectors go on the new drives is left to the   *)
(* partitioning: a place keeps its name.  Read and write errors, which end *)
(* either program, and foreign byte order are left out.                    *)
(***************************************************************************)
EXTENDS Integers, Sequences, SequencesExt

CONSTANTS
  PerSector,   \* list entries in a sector: 512 / 8
  BufSectors,  \* BUFSIZE of the programs, in sectors
  ZBuf,        \* sectors of comp_buf
  Sources,     \* the drives to back up: their lists of partitions, blocks and volumes
  Packed,      \* may a backup be compressed?  subset of BOOLEAN
  ReadSizes,   \* the sectors one read of the backup may return
  Lengths      \* what the compressed part may come to, counted in sectors

ASSUME SizesAssumption == PerSector \in Nat \ {0} /\ BufSectors \in Nat \ {0} /\ ZBuf \in Nat \ {0}
ASSUME ReadsAssumption == ReadSizes \subseteq 1..BufSectors /\ Lengths \subseteq Nat \ {0}

VARIABLES
  src,     \* what is backed up: [parts, blocks, mfs], each a list of entries
  packed,  \* is the backup compressed?
  direct,  \* is there no file in between: mfscopy?
  len,     \* what its compressed part comes to
  stage,   \* where the two programs are
  cur,     \* cursector of the backup
  stream,  \* the sectors of the backup, before compression
  read,    \* sectors of the backup file read
  ate,     \* and of those, the ones restore_write is done with
  r,       \* the backup_info of the restore
  z        \* inflated and not written yet, the amount inflated, stream end

vars == <<src, packed, direct, len, stage, cur, stream, read, ate, r, z>>

Least(a, b) == IF a < b THEN a ELSE b
Times(e, n) == [k \in 1..n |-> e]

-----------------------------------------------------------------------------
(* The layout of a backup.                                                  *)

Zero == [kind |-> "zero", n |-> 0]

\* presector: the head and the sectors the lists fill.
Pre(l) == (Len(l.parts) + Len(l.blocks) + Len(l.mfs) + PerSector - 1) \div PerSector + 1

\* The places of the data sectors: the boot sector, the partitions, the blocks.
Run(e)    == [k \in 1..e.n |-> <<e.kind, e.first + k - 1>>]
Runs(q)   == FlattenSeq([k \in 1..Len(q) |-> Run(q[k])])
Layout(l) == <<<<"boot", 0>>>> \o Runs(l.parts) \o Runs(l.blocks)

NSectors(l) == Pre(l) + Len(Layout(l))

HeadSector(l, zip) ==
  <<[kind |-> "head", zip |-> zip, nsectors |-> NSectors(l), parts |-> Len(l.parts),
     blocks |-> Len(l.blocks), mfs |-> Len(l.mfs)]>> \o Times(Zero, PerSector - 1)

\* What these sectors are in memory.
Data(places) == [k \in 1..(Len(places) * PerSector) |-> places[1 + (k - 1) \div PerSector]]

\* The data sector a call goes on with.
Position(c, pre) == c - pre

-----------------------------------------------------------------------------
(* The three lists, on either side.  c is where a call is in them: off and  *)
(* done count entries, in the lists and up to the current one; sec is the   *)
(* sector of the lists, left the sectors the call may still handle.         *)

Lists(l) == <<l.parts, l.blocks, l.mfs>>

Enter(cursec, left) ==
  [off |-> (cursec - 1) * PerSector, done |-> 0, sec |-> cursec - 1, left |-> left,
   broken |-> FALSE]

\* Is there anything to copy of list i?  Past the first the code multiplies
\* where it should add, with both counted in bytes.
Wanted(c, i, size) ==
  IF i = 1 THEN c.off < size ELSE c.left > 0 /\ c.off < 8 * size * c.done

\* How many entries: what is missing, or what have_space says.
Portion(c, size) == Least(c.done + size - c.off, c.left * PerSector - c.off)

\* After copying n entries of a list of that size.
Copied(c, n, size) ==
  LET off == c.off + n
      sec == IF off \div PerSector > c.sec THEN off \div PerSector ELSE c.sec
  IN  [off |-> off, done |-> c.done + size, sec |-> sec, left |-> c.left - (sec - c.sec),
       broken |-> FALSE]

\* One list: copying less than nothing is a memcpy of nearly 4 GB.
Pass(c, i, size) ==
  IF c.broken THEN c
  ELSE IF ~Wanted(c, i, size) THEN Copied(c, 0, size)
  ELSE IF Portion(c, size) < 0 THEN [c EXCEPT !.broken = TRUE]
  ELSE Copied(c, Portion(c, size), size)

\* How a call gets through the lists: before the first, and after each.
Passes(c, l) ==
  LET sizes == [i \in 1..3 |-> Len(Lists(l)[i])]
      one   == {<<c, Pass(c, 1, sizes[1])>>}
      two   == {Append(f, Pass(f[2], 2, sizes[2])) : f \in one}
  IN  {Append(f, Pass(f[3], 3, sizes[3])) : f \in two}

-----------------------------------------------------------------------------
(* backup_next_sectors.  p is the state of a call: left sectors to produce, *)
(* what it put into the buffer, and whether it goes on.                     *)

Asked(n) == [cur |-> cur, left |-> n, out |-> <<>>, stop |-> "no"]

BackupHead(p) ==
  [cur |-> 1, left |-> p.left - 1, out |-> p.out \o HeadSector(src, packed), stop |-> "no"]

\* Mutant: leaves what the last list does not fill of its sector.
PaddingWhole(off, pre, c) == (Least(pre - c.sec - 1, c.left) - 1) * PerSector

\* What bzero adds once the lists are through.
Padding(off, pre, c) == Least(pre - c.sec - 1, c.left) * PerSector - (off % PerSector)

\* What a call took of list i.
Taken(list, f, i) == SubSeq(list, f[i].off - f[i].done + 1, f[i + 1].off - f[i].done)

BackupLists(p) ==
  {LET c    == f[4]
       secs == Least(Pre(src) - c.sec - 1, c.left)
       zero == IF secs > 0 THEN Padding(c.off, Pre(src), c) ELSE 0
   IN  [cur |-> 1 + c.sec + secs, left |-> c.left - secs,
        out |-> p.out \o Taken(src.parts, f, 1) \o Taken(src.blocks, f, 2) \o
                  Taken(src.mfs, f, 3) \o Times(Zero, zero),
        stop |-> IF c.broken \/ c.left - secs = p.left THEN "broken" ELSE "no"] :
     f \in Passes(Enter(p.cur, p.left), src)}

BackupData(p) ==
  LET sectors == SubSeq(Layout(src), Position(p.cur, Pre(src)) + 1, Len(Layout(src)))
      n       == Least(p.left, Len(sectors))
  IN  [cur |-> p.cur + n, left |-> p.left - n,
       out |-> p.out \o Data(SubSeq(sectors, 1, n)), stop |-> "end"]

BackupPass(p) ==
  IF p.left = 0 \/ p.stop # "no" THEN {p}
  ELSE IF p.cur >= Pre(src) THEN {BackupData(p)}
  ELSE IF p.cur > 0 THEN BackupLists(p)
  ELSE {BackupHead(p)}

\* The outcome, as a set of one.  A pass handles a sector or is the last.
BackupNext(n) ==
  LET f[k \in 0..(n + 1)] ==
        IF k = 0 THEN {Asked(n)} ELSE UNION {BackupPass(p) : p \in f[k - 1]}
  IN  f[n + 1]

-----------------------------------------------------------------------------
(* restore_next_sectors.  p is the state of a call on n sectors of buf.     *)

Given(rr, n) == [r |-> rr, at |-> 0, left |-> n, stop |-> "no"]

RestoreHead(p, buf) ==
  LET h == buf[1]
  IN  IF h.kind # "head" THEN [p EXCEPT !.stop = "error"]
      ELSE LET l == [parts |-> Times(Zero, h.parts), blocks |-> Times(Zero, h.blocks),
                     mfs |-> Times(Zero, h.mfs)]
           IN  [p EXCEPT !.r = [@ EXCEPT !.cur = 1, !.pre = Pre(l), !.nsectors = h.nsectors,
                                         !.zip = h.zip, !.lists = l],
                         !.at = PerSector, !.left = @ - 1]

\* A list after a call that went from c to d and found its entries in buf.
Filled(list, c, d, buf, at) ==
  [k \in 1..Len(list) |->
     IF k > c.off - c.done /\ k <= d.off - c.done THEN buf[at + k - (c.off - c.done)] ELSE list[k]]

\* Once all lists are there, what is left of their last sector is skipped.
RestoreLists(p, buf) ==
  {LET l     == p.r.lists
       c     == f[4]
       at(i) == p.at + f[i].off - f[1].off
       rest  == IF c.done = c.off /\ c.off % PerSector # 0 THEN 1 ELSE 0
   IN  IF c.broken THEN [p EXCEPT !.stop = "broken"]
       ELSE [r |-> [p.r EXCEPT !.cur = 1 + c.sec + rest,
                      !.lists = [parts  |-> Filled(l.parts, f[1], f[2], buf, at(1)),
                                 blocks |-> Filled(l.blocks, f[2], f[3], buf, at(2)),
                                 mfs    |-> Filled(l.mfs, f[3], f[4], buf, at(3))]],
             at |-> p.at + c.off - f[1].off + rest * (PerSector - (c.off % PerSector)),
             left |-> c.left - rest,
             stop |-> IF c.left - rest = p.left THEN "broken" ELSE "no"] :
     f \in Passes(Enter(p.r.cur, p.left), p.r.lists)}

\* The call that gets from the partitions to the first block adds the volumes.
Bootstraps(first, q, left) == q <= first /\ q + left > first

\* A sector the buffer does not hold in one piece is something else.
Held(s) == IF ToSet(s) = {s[1]} THEN s[1] ELSE <<"mixed">>

RestoreData(p, buf) ==
  IF ~p.r.ready THEN {[p EXCEPT !.stop = "end"]}
  ELSE
    {LET q     == Position(p.r.cur, p.r.pre)
         n     == Least(p.left, Len(w) - q)
         first == 1 + Len(Runs(p.r.lists.parts))
         hits(x) == {k \in 1..n : w[q + k] = x}
         new(x) == LET k == CHOOSE k \in hits(x) : TRUE
                   IN  Held(SubSeq(buf, p.at + (k - 1) * PerSector + 1, p.at + k * PerSector))
     IN  [r |-> [p.r EXCEPT
                   !.cur = @ + n,
                   !.vols = IF Bootstraps(first, q, p.left) THEN @ \o p.r.lists.mfs ELSE @,
                   !.target = [x \in DOMAIN @ |-> IF hits(x) = {} THEN @[x] ELSE new(x)]],
          at |-> p.at + n * PerSector, left |-> p.left - n, stop |-> "end"] :
       w \in {Layout(p.r.lists)}}

RestorePass(p, buf) ==
  IF p.left = 0 \/ p.stop # "no" THEN {p}
  ELSE IF p.r.cur >= p.r.pre THEN RestoreData(p, buf)
  ELSE IF p.r.cur > 0 THEN RestoreLists(p, buf)
  ELSE {RestoreHead(p, buf)}

RestoreNext(rr, buf, n) ==
  LET f[k \in 0..(n + 1)] ==
        IF k = 0 THEN {Given(rr, n)} ELSE UNION {RestorePass(p, buf) : p \in f[k - 1]}
  IN  f[n + 1]

-----------------------------------------------------------------------------
None == <<"none">>

Init ==
  /\ src \in Sources
  /\ packed \in Packed
  /\ direct \in BOOLEAN /\ ~(direct /\ packed)
  /\ len \in (IF packed THEN {n \in Lengths : n < NSectors(src)} ELSE {0})
  /\ stage = "backup"
  /\ cur = 0 /\ stream = <<>>
  /\ read = 0 /\ ate = 0
  /\ r = [cur |-> 0, pre |-> 1, nsectors |-> 1, zip |-> FALSE, ready |-> FALSE, vols |-> <<>>,
          lists |-> [parts |-> <<>>, blocks |-> <<>>, mfs |-> <<>>],
          target |-> [x \in ToSet(Layout(src)) |-> None]]
  /\ z = [buf |-> <<>>, given |-> 0, end |-> FALSE]

\* A call of backup_next_sectors; the last one returns nothing, and
\* backup_finish compares cursector with what the head announced.
BackupRead ==
  /\ stage = "backup" /\ ~direct
  /\ \E p \in BackupNext(IF ~packed THEN BufSectors ELSE IF cur = 0 THEN 1 ELSE ZBuf) :
       /\ cur' = p.cur
       /\ stream' = stream \o p.out
       /\ stage' = IF p.stop = "broken" THEN "broken"
                     ELSE IF p.out # <<>> THEN "backup"
                     ELSE IF p.cur = NSectors(src) THEN "open" ELSE "failed"
  /\ UNCHANGED <<src, packed, direct, len, read, ate, r, z>>

FileLen == IF packed THEN 1 + len ELSE Len(stream) \div PerSector
Pending == read - ate
Input   == SubSeq(stream, ate * PerSector + 1, read * PerSector)
Writing == {"first", "second", "more"}

\* Mutant: does not look at cursector at the end.
FinishesAnyway(rr) == TRUE

\* restore_finish: "Premature end of backup data" otherwise.
Finishes(rr) == rr.cur = rr.nsectors

\* A read of the backup, which is at its end when nothing is left.
ReadFile ==
  /\ stage \in {"open", "loop"} /\ ~direct
  /\ \E n \in ReadSizes :
       /\ read' = Least(read + n, FileLen)
       /\ stage' = IF stage = "open" THEN "first"
                   ELSE IF read < FileLen THEN "more"
                   ELSE IF Finishes(r) THEN "done" ELSE "failed"
  /\ UNCHANGED <<src, packed, direct, len, cur, stream, ate, r, z>>

\* mfscopy reads a buffer: the first has to be full, because all its reads begin
\* at the same place; the last one is empty, and both sides are finished.
CopyRead ==
  /\ stage \in {"backup", "loop"} /\ direct
  /\ \E p \in BackupNext(BufSectors) :
       /\ cur' = p.cur
       /\ stream' = stream \o p.out
       /\ read' = read + Len(p.out) \div PerSector
       /\ stage' = IF p.stop = "broken" THEN "broken"
                   ELSE IF p.out = <<>> THEN IF p.cur = NSectors(src) /\ Finishes(r) THEN "done" ELSE "failed"
                   ELSE IF stage = "loop" THEN "more"
                   ELSE IF Len(p.out) = BufSectors * PerSector THEN "first" ELSE "failed"
  /\ UNCHANGED <<src, packed, direct, len, ate, r, z>>

\* What main does when restore_write is done with all it was given, or not.
Returned(all) ==
  IF stage = "first" THEN "try" ELSE IF all THEN "loop" ELSE "failed"

\* restore_write: the head sector is never compressed.
WriteHead ==
  /\ stage = "first" /\ r.cur = 0
  /\ \E p \in RestoreNext(r, Input, 1) :
         /\ r' = p.r
         /\ ate' = ate + 1
         /\ stage' = IF p.stop = "error" THEN "failed" ELSE IF Pending = 1 THEN "try" ELSE stage
  /\ UNCHANGED <<src, packed, direct, len, cur, stream, read, z>>

\* The rest of an uncompressed call: nothing at all is a "Short read".
WriteSectors ==
  /\ stage \in Writing /\ r.cur > 0 /\ ~r.zip
  /\ IF Pending = 0 THEN stage' = "failed" /\ UNCHANGED <<r, ate>>
     ELSE \E p \in RestoreNext(r, Input, Pending) :
              /\ r' = p.r
              /\ ate' = read - p.left
              /\ stage' = IF p.stop = "broken" THEN "broken" ELSE Returned(p.left = 0)
  /\ UNCHANGED <<src, packed, direct, len, cur, stream, read, z>>

\* Does the loop over compressed data go round again?
Unpacking ==
  Pending > 0 \/ ((z.end \/ ~r.ready) /\ Len(z.buf) > PerSector)

Zipped == stage \in Writing /\ r.cur > 0 /\ r.zip

\* Mutant: moves the beginning of comp_buf instead of its end.
LeftoverFirst(buf, used) == SubSeq(buf, 1, Len(buf) - used)

\* memmove of what restore_next_sectors did not take.
Leftover(buf, used) == SubSeq(buf, used + 1, Len(buf))

\* Mutant: goes round for ever.
Stuck(taken) == FALSE

\* The loop is left when nothing can be taken: the drives are not ready.
Blocked(taken) == taken = 0

Flush ==
  /\ Zipped /\ Unpacking /\ Len(z.buf) > PerSector
  /\ \E p \in RestoreNext(r, z.buf, Len(z.buf) \div PerSector) :
       LET taken == Len(z.buf) \div PerSector - p.left
       IN  /\ r' = p.r
           /\ z' = [z EXCEPT !.buf = Leftover(@, taken * PerSector)]
           /\ stage' = IF p.stop = "broken" THEN "broken"
                       ELSE IF Blocked(taken) THEN Returned(Pending = 0) ELSE stage
  /\ UNCHANGED <<src, packed, direct, len, cur, stream, read, ate>>

\* avail_out.
Room == ZBuf * PerSector - Len(z.buf)

\* inflate turns some of the input into some output.  It stops at the end of the
\* input or when the output is full, and finds the end of the stream after it
\* gave everything.  Compression does not make a backup longer.
Inflate ==
  /\ Zipped /\ Unpacking /\ Len(z.buf) <= PerSector /\ ~z.end
  /\ LET rest == Len(stream) - PerSector - z.given
     IN  \E o \in 0..Least(Room, rest), unread \in 0..Pending :
           /\ o > 0 \/ unread < Pending
           /\ unread = 0 \/ o = Room
           /\ unread = 0 /\ read = FileLen => o = rest
           /\ z.given + o >= (read - unread - 1) * PerSector
           /\ z' = [buf |-> z.buf \o SubSeq(stream, PerSector + z.given + 1, PerSector + z.given + o),
                    given |-> z.given + o, end |-> unread = 0 /\ read = FileLen]
           /\ ate' = read - unread
  /\ UNCHANGED <<src, packed, direct, len, stage, cur, stream, read, r>>

ZipReturns ==
  /\ Zipped /\ ~Unpacking
  /\ stage' = Returned(Pending = 0)
  /\ UNCHANGED <<src, packed, direct, len, cur, stream, read, ate, r, z>>

\* Has the restore seen the lists?
Seen(rr) == rr.cur >= rr.pre

\* restore_trydev and restore_start.
Prepare ==
  /\ stage = "try"
  /\ IF Seen(r) /\ Len(r.lists.mfs) % 2 = 0
     THEN r' = [r EXCEPT !.ready = TRUE] /\ stage' = "second"
     ELSE stage' = "failed" /\ UNCHANGED r
  /\ UNCHANGED <<src, packed, direct, len, cur, stream, read, ate, z>>

Over == stage \in {"done", "failed", "broken"} /\ UNCHANGED vars

Next ==
  \/ BackupRead \/ ReadFile \/ CopyRead
  \/ WriteHead \/ WriteSectors
  \/ Flush \/ Inflate \/ ZipReturns
  \/ Prepare \/ Over

\* One program after the other, each a loop.
Spec == Init /\ [][Next]_vars /\ WF_vars(Next)
-----------------------------------------------------------------------------
TypeOK ==
  /\ stage \in Writing \cup {"backup", "open", "loop", "try", "done", "failed", "broken"}
  /\ cur \in 0..NSectors(src)
  /\ 0 <= ate /\ ate <= read /\ read <= FileLen
  /\ r.cur \in 0..NSectors(src)
  /\ Len(z.buf) <= ZBuf * PerSector

Whole(l, zip) ==
  LET lists == l.parts \o l.blocks \o l.mfs
      fill  == (Pre(l) - 1) * PerSector - Len(lists)
  IN  HeadSector(l, zip) \o lists \o Times(Zero, fill) \o Data(Layout(l))

\* A backup that reports success holds the head, the lists and then every sector
\* once, in order and as many as announced, whatever the size of the buffer; and
\* a copy that succeeds has handed over just that.  On the way no position leaves its
\* range and no buffer overflows.
BackupWhole ==
  /\ TypeOK
  /\ stage \in {"failed", "broken"} => read > 0
  /\ stage \in {"open", "done"} => stream = Whole(src, packed)

\* "Restore needs some information to bootstrap the process": when the drives are
\* laid out, all of the lists has arrived, as it was sent.
ListsArrived == r.ready => r.lists = src

\* However the backup is cut on its way, what is on the new drives is the
\* beginning of it, each sector in its place, as far as cursector says.
RestoredInOrder ==
  LET sofar == ToSet(SubSeq(Layout(src), 1, r.cur - r.pre))
  IN  r.ready => r.target = [x \in DOMAIN r.target |-> IF x \in sofar THEN x ELSE None]

\* "Bootstrap MFS by hand": the volumes are there, once, before the first block.
VolumesOnce ==
  /\ r.vols \in {<<>>, src.mfs}
  /\ (\E x \in DOMAIN r.target : x[1] = "mfs" /\ r.target[x] # None) => r.vols = src.mfs

\* At any boundary at which restore_write returns, the lists, the volumes and the
\* blocks it was given are there, once each and in their place.
RestoredSoFar == ListsArrived /\ RestoredInOrder /\ VolumesOnce

\* A restore that is done has restored everything.
DoneIsComplete == stage = "done" => \A x \in DOMAIN r.target : r.target[x] = x

\* The programs come to an end.
Ends == <>(stage \in {"done", "failed", "broken"})

\* "Premature end of backup data" is said of a backup that was read, and inflated,
\* to its end only when its last sector is alone in comp_buf: the loop, and what
\* follows it, ask for more than one sector.
PrematureForOneSector ==
  stage = "failed" /\ r.ready /\ z.end => Len(z.buf) = PerSector /\ r.cur + 1 = r.nsectors

\* Of a whole backup, what restore says at its end is true, with one exception.
OutcomeRight == DoneIsComplete /\ PrematureForOneSector
=============================================================================
