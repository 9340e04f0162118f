----------------------------- MODULE RestorePlan -----------------------------
(***************************************************************************)
(* How a restore lays a backup out on one or two drives (restore.c of      *)
(* MFSTools): restore_trydev decides which partitions go to which drive,   *)
(* find_optimal_partitions searches all placements of the MFS pairs, and   *)
(* build_partition_table, once per drive, adds the partitions to an empty  *)
(* table one after another.  Until the tables are begun, a try may be      *)
(* repeated with other drives, whether it failed or not.                   *)
(*                                                                         *)
(* Drives are numbered 0 and 1 as in the code.  A drive is known by the    *)
(* sectors its empty table leaves free; 0 is the empty name of a drive     *)
(* that is not there.  Byte order, names and allocation failures are left  *)
(* out.                                                                    *)
(***************************************************************************)
EXTENDS Integers, Sequences, SequencesExt, FiniteSetsExt

CONSTANTS
  Backups,   \* the partition lists of backups: [parts, mfs]
  Options,   \* what the user asks for: [nofill, balance, var, swap]
  Drives,    \* <<free sectors of drive 0, of drive 1>>; 0 is no second drive
  MaxTries,  \* how often the user tries other drives (bound)
  None       \* no drive found yet

\* A backup lists one set of boot, kernel and root partitions or both, /var
\* or not, and the MFS partitions in pairs.
Listed == [partno : 2..9, sectors : Nat \ {0}]
ASSUME BackupsAssumption ==
  \A b \in Backups : b.parts \in Seq(Listed) /\ b.mfs \in Seq(Nat \ {0}) /\ Len(b.mfs) % 2 = 0 /\ b.mfs # <<>>
ASSUME OptionsAssumption == Options \subseteq [nofill : BOOLEAN, balance : BOOLEAN, var : Nat, swap : Nat]
ASSUME DrivesAssumption == Drives \subseteq Nat \X Nat /\ MaxTries \in Nat

VARIABLES
  info,      \* the backup and the user's wishes: [parts, nofill, balance, var, swap]
  newparts,  \* the partitions to create, in the order they will be
  mfsparts,  \* where each MFS partition goes
  devs,      \* the drives chosen: a sequence of their free sectors, or None
  table,     \* the partitions of each drive from number 2 on, in the order of its table
  stage,     \* what was called: "read", "tried", "built", "failed"
  tries      \* history: the drives of each restore_trydev

vars == <<info, newparts, mfsparts, devs, table, stage, tries>>

Part(devno, partno, sectors) == [devno |-> devno, partno |-> partno, sectors |-> sectors]
Zero == Part(0, 0, 0)
Total(s) == FoldLeft(LAMBDA n, p : n + p.sectors, 0, s)

DefaultSwap == 64 * 1024 * 2
DefaultVar  == 128 * 1024 * 2
NPairs      == Len(mfsparts) \div 2
PairSize(i) == mfsparts[2 * i - 1].sectors + mfsparts[2 * i].sectors

-----------------------------------------------------------------------------
(* restore_trydev: what has to go on the first drive.                       *)

Vars == {p \in Range(info.parts) : p.partno = 9}
VarSize == IF Vars # {} THEN (CHOOSE p \in Vars : TRUE).sectors
           ELSE IF info.var = 0 THEN DefaultVar ELSE info.var
SwapSize == IF info.swap = 0 THEN DefaultSwap ELSE info.swap

\* One set of three partitions is restored twice.
Minimum ==
  LET listed == Total(SelectSeq(info.parts, LAMBDA p : p.partno # 9))
      sets   == IF Len(info.parts) \in {3, 4} THEN 2 ELSE 1
  IN  sets * listed + SwapSize + VarSize + PairSize(1)

Needed == Minimum + Total(SubSeq(mfsparts, 3, Len(mfsparts)))

\* The slot of the other set.
Alternate(partno) == IF partno < 5 THEN partno + 3 ELSE partno - 3

DefaultSize(partno) ==
  CASE partno \in {2, 3, 5, 6} -> 4096
    [] partno \in {4, 7}       -> 128 * 1024 * 2
    [] partno = 8              -> SwapSize
    [] partno = 9              -> VarSize

\* The list with everything but the other MFS pairs.  An alternate slot gets
\* the whole record of the partition that was backed up, its number included.
FirstParts ==
  LET Writers(s) == {i \in DOMAIN info.parts :
                       \/ info.parts[i].partno = s
                       \/ /\ Len(info.parts) < 6 /\ info.parts[i].partno < 8
                          /\ Alternate(info.parts[i].partno) = s}
      System(s)  == IF Writers(s) = {} THEN Part(0, s, DefaultSize(s))
                    ELSE LET p == info.parts[Max(Writers(s))] IN Part(0, p.partno, p.sectors)
  IN  [i \in 1..8 |-> System(i + 1)]
        \o <<Part(0, 10, mfsparts[1].sectors), Part(0, 11, mfsparts[2].sectors)>>

OneDriveMfs == [i \in DOMAIN mfsparts |-> Part(0, 9 + i, mfsparts[i].sectors)]

-----------------------------------------------------------------------------
(* find_optimal_partitions.  An order is a number with one bit for each MFS *)
(* pair after the first, the second pair's highest; 1 is drive 0.           *)

OnFirst(order, i) == (order \div 2^(NPairs - i)) % 2 = 1
FirstPairs(order) == {i \in 2..NPairs : OnFirst(order, i)}
SizeOf(pairs) == FoldSet(LAMBDA i, n : n + PairSize(i), 0, pairs)

\* The partitions of both drives, and what an order leaves free.
Max1(order)  == 11 + 2 * Cardinality(FirstPairs(order))
Max2(order)  == 1 + 2 * Cardinality(2..NPairs \ FirstPairs(order))
Free1(order, secs) == secs[1] - Minimum - SizeOf(FirstPairs(order))
Free2(order, secs) == secs[2] - SizeOf(2..NPairs \ FirstPairs(order))

PartLimit == IF info.nofill THEN 14 ELSE 16

\* The names of all MFS partitions have to fit the volume header.
NamesFit(order) == (Max1(order) - 9) * 11 + (Max2(order) - 1) * 10 < 128

Valid(order, secs) ==
  Max1(order) < PartLimit /\ Max2(order) < PartLimit /\ Free1(order, secs) >= 0 /\ Free2(order, secs) >= 0

Left(order, secs) ==
  LET free == Free1(order, secs)
      half == secs[1] \div 2
  IN  IF ~info.balance THEN free ELSE IF half > free THEN half - free ELSE free - half

\* Mutant: the first order that is good enough stays.
StepFirst(found, order, secs) ==
  IF Valid(order, secs) /\ NamesFit(order) /\ found.order < 0
  THEN [found EXCEPT !.order = order, !.left = Left(order, secs)] ELSE found

\* One turn of the loop: found is the best so far and what was left then.
Step(found, order, secs) ==
  IF Valid(order, secs) /\ NamesFit(order) /\ Left(order, secs) <= found.left
  THEN [order |-> order, left |-> Left(order, secs)] ELSE found

\* All orders, one after the other; -1 is none.
Search(secs) ==
  LET none == [order |-> -1, left |-> IF info.balance THEN secs[1] ELSE secs[1] - Minimum]
      best[k \in 0..2^(NPairs - 1)] == IF k = 0 THEN none ELSE Step(best[k - 1], k - 1, secs)
  IN  best[2^(NPairs - 1)]

\* Drive 0 goes on from 12, drive 1 begins with 2.
FirstFrom(devno) == IF devno = 0 THEN 12 ELSE 2

\* Where an order puts the partitions.  The first pair keeps the numbers it has.
Placed(order) ==
  [k \in DOMAIN mfsparts |->
     LET i     == (k + 1) \div 2
         devno == IF OnFirst(order, i) THEN 0 ELSE 1
         nth   == Cardinality({j \in 2..(i - 1) : OnFirst(order, j) = (devno = 0)})
     IN  IF i = 1 THEN mfsparts[k] ELSE Part(devno, FirstFrom(devno) + 2 * nth + ((k + 1) % 2), mfsparts[k].sectors)]

-----------------------------------------------------------------------------
(* The calls.                                                               *)

\* The size asked for /var is not the one in the backup.
WrongVar == \E p \in Vars : info.var # 0 /\ info.var # p.sectors

\* What restore_trydev finds wrong before it chooses drives.
Refused(secs) == WrongVar \/ Minimum > secs[1]

FitsOne(secs) == Needed <= secs[1] /\ Len(mfsparts) <= 6 /\ (info.nofill => Len(mfsparts) <= 4)

Failed == stage' = "failed"

\* Everything goes on drive 0.
UseOneDrive(secs) ==
  /\ stage' = "tried" /\ devs' = <<secs[1]>>
  /\ mfsparts' = OneDriveMfs
  /\ newparts' = SubSeq(FirstParts, 1, 8) \o OneDriveMfs

\* The MFS pairs are spread over both, if there are two.
UseTwoDrives(secs) ==
  \E found \in {IF secs[2] < 1 THEN [order |-> -1] ELSE Search(secs)} :
    IF found.order < 0
    THEN /\ Failed /\ devs' = IF secs[2] < 1 THEN devs ELSE None
         /\ newparts' = FirstParts \o [k \in 1..(Len(mfsparts) - 2) |-> Zero]
         /\ UNCHANGED mfsparts
    ELSE /\ stage' = "tried" /\ devs' = secs
         /\ mfsparts' = Placed(found.order)
         /\ \E rest \in {SubSeq(mfsparts', 3, Len(mfsparts))} :
              newparts' = FirstParts \o SelectSeq(rest, LAMBDA p : p.devno = 0)
                                     \o SelectSeq(rest, LAMBDA p : p.devno = 1)

\* restore_trydev.  The sizes of /var and the swap space are kept for another try.
TryDev(secs) ==
  /\ stage \in {"read", "tried", "failed"} /\ table[0] = None
  /\ Len(tries) < MaxTries /\ tries' = Append(tries, secs)
  /\ \/ Refused(secs) /\ Failed /\ UNCHANGED <<newparts, mfsparts, devs>>
     \/ ~Refused(secs) /\ FitsOne(secs) /\ UseOneDrive(secs)
     \/ ~Refused(secs) /\ ~FitsOne(secs) /\ UseTwoDrives(secs)
  /\ info' = IF WrongVar THEN info ELSE [info EXCEPT !.var = VarSize, !.swap = SwapSize]
  /\ UNCHANGED table

-----------------------------------------------------------------------------
(* build_partition_table.                                                   *)

\* "Balance": media partitions of this drive move to the front until half of
\* the drive is filled.  A walk is [parts, cur, done] with done partitions seen.
Moved(parts, i) == <<parts[i]>> \o RemoveAt(parts, i)
Balanced(devno) ==
  LET half == devs[devno + 1] \div 2
      Media(p) == p.devno = devno /\ p.partno > 10 /\ p.partno % 2 = 1
      Walk(w, i) ==
        LET p   == w.parts[i]
            end == w.cur + p.sectors
        IN  IF w.stop \/ w.cur >= half \/ ~Media(p) THEN w
            ELSE IF end > half /\ end - half > half - w.cur THEN [w EXCEPT !.stop = TRUE]
            ELSE [w EXCEPT !.parts = Moved(@, i), !.cur = end]
      start == [parts |-> newparts, cur |-> 64, stop |-> FALSE]
  IN  IF info.balance THEN FoldLeft(Walk, start, [i \in DOMAIN newparts |-> i]).parts ELSE newparts

\* Mutant: behind the last partition that is there.
PlaceLast(nums, partno) == Len(nums) + 2

\* The number a partition gets: at most its own, and behind no larger one.
Place(nums, partno) ==
  LET At(k) == IF k < 2 THEN k ELSE IF k - 1 <= Len(nums) THEN nums[k - 1] ELSE 255
  IN  Max({t \in 1..partno : At(t - 1) <= partno})

\* tivo_partition_add to a table that was empty: refused without a size or room.
Add(tab, t, p, secs) ==
  IF p.sectors = 0 \/ Total(tab) + p.sectors > secs THEN tab ELSE InsertAt(tab, Min({t - 1, Len(tab) + 1}), p)

BuiltTable(parts, secs) ==
  FoldLeft(LAMBDA w, p : LET t == Place(w.nums, p.partno)
                         IN  [nums |-> InsertAt(w.nums, t - 1, p.partno), tab |-> Add(w.tab, t, p, secs)],
           [nums |-> <<>>, tab |-> <<>>], parts).tab

\* build_partition_table for one drive; restore_start calls it for all.
BuildTable(devno) ==
  /\ stage = "tried" /\ devno < Len(devs) /\ table[devno] = None
  /\ devno > 0 => table[devno - 1] # None
  /\ \E parts \in {Balanced(devno)} :
       /\ newparts' = parts
       /\ table' = [table EXCEPT ![devno] =
                      BuiltTable(SelectSeq(parts, LAMBDA p : p.devno = devno), devs[devno + 1])]
  /\ stage' = IF devno + 1 = Len(devs) THEN "built" ELSE stage
  /\ UNCHANGED <<info, mfsparts, devs, tries>>

\* The set that was backed up began with 10 and 11 and went on with the second drive.
WasAt(k, sectors) == IF k <= 6 THEN Part(0, 9 + k, sectors) ELSE Part(1, k - 5, sectors)

Init ==
  /\ \E b \in Backups, o \in Options :
       /\ info = [parts |-> b.parts, nofill |-> o.nofill, balance |-> o.balance, var |-> o.var, swap |-> o.swap]
       /\ mfsparts = [k \in DOMAIN b.mfs |-> WasAt(k, b.mfs[k])]
  /\ newparts = <<>> /\ devs = None /\ table = [d \in {0, 1} |-> None]
  /\ stage = "read" /\ tries = <<>>

Next == (\E secs \in Drives : TryDev(secs)) \/ \E devno \in {0, 1} : BuildTable(devno)

Spec == Init /\ [][Next]_vars

-----------------------------------------------------------------------------
(* Properties.  A placement says for each pair but the first on which drive *)
(* it goes; it is acceptable when a TiVo can use it.                        *)

Placements == [2..NPairs -> {0, 1}]
PairsOn(f, d) == {i \in DOMAIN f : f[i] = d}

\* The bytes of the list of names in the header, with separators and end:
\* /dev/hda10 to /dev/hda15 and /dev/hdb10 on have ten, /dev/hdb2 to b9 nine.
ListBytes(n0, n1) == 11 * n0 + 10 * Min({n1, 8}) + 11 * Max({n1 - 8, 0})

\* The partitions of a drive are numbered to 15, or to 13 if there is to be
\* room for another pair.
LastNumber == IF info.nofill THEN 13 ELSE 15

Acceptable(f, secs) ==
  LET n0 == 2 + 2 * Cardinality(PairsOn(f, 0))
      n1 == 2 * Cardinality(PairsOn(f, 1))
  IN  /\ 9 + n0 <= LastNumber /\ 1 + n1 <= LastNumber
      /\ Total(FirstParts) + SizeOf(PairsOn(f, 0)) <= secs[1]
      /\ SizeOf(PairsOn(f, 1)) <= secs[2]
      /\ ListBytes(n0, n1) <= 128

\* How far drive 0 is from full, from half full, or from the nearer of the two.
Waste(f, goal, secs) ==
  LET free   == secs[1] - Total(FirstParts) - SizeOf(PairsOn(f, 0))
      half   == secs[1] \div 2
      middle == Max({free - half, half - free})
  IN  CASE goal = "end" -> free [] goal = "middle" -> middle [] goal = "either" -> Min({free, middle})

\* What a placement may aim at.  With balance (-p) restore.c:734 says "the closest
\* data to either the end or the middle" and the code looks at the middle alone; with
\* nofill (-l) README:247 says "either a half full A drive or a completely full A
\* drive" and the code looks at the end alone.  Either is right here.
Goals ==
  IF info.balance THEN {"middle", "either"}
  ELSE IF info.nofill THEN {"end", "either"}
  ELSE {"end"}

LastTry == tries[Len(tries)]

\* find_optimal_partitions "tries to figure out the best arrangement": what a
\* try decides can be used, and two drives are used only if one will not do and
\* then such that no other placement would waste less of the first, as measured by
\* what code or documentation say of the options (see Goals).
NothingBetter ==
  stage = "tried" =>
    LET chosen == [i \in 2..NPairs |-> mfsparts[2 * i].devno]
    IN  /\ Acceptable(chosen, LastTry)
        /\ Len(devs) = 2 => /\ ~Acceptable([i \in 2..NPairs |-> 0], LastTry)
                            /\ \E goal \in Goals : \A f \in Placements :
                                 Acceptable(f, LastTry) =>
                                   Waste(f, goal, LastTry) >= Waste(chosen, goal, LastTry)

\* A try fails only if there is no acceptable placement, or if the size asked
\* for /var is not the one in the backup.
FailsForCause ==
  stage = "failed" =>
    \/ WrongVar
    \/ ~\E f \in Placements : Acceptable(f, LastTry) /\ (LastTry[2] = 0 => PairsOn(f, 1) = {})

\* The search over all placements finds the best one that there is, and finds one
\* whenever there is one.
PlanRight == NothingBetter /\ FailsForCause

\* Every partition that was planned is in the table of its drive: nobody looks
\* at what tivo_partition_add returns, so all have to fit.
EverythingBuilt ==
  stage = "built" =>
    \A d \in 0..(Len(devs) - 1) :
      /\ Len(table[d]) = Cardinality({i \in DOMAIN newparts : newparts[i].devno = d})
      /\ Total(table[d]) <= devs[d + 1]

\* The header will name the MFS partitions by number, the swap space is made
\* in partition 8 and /var restored to 9: the tables have them there, whatever
\* was moved forward for balance and however system partitions are numbered.
RestoredWhereBuilt ==
  stage = "built" =>
    /\ \A k \in DOMAIN mfsparts :
         LET p == mfsparts[k] IN p.partno - 1 \in DOMAIN table[p.devno] /\ table[p.devno][p.partno - 1] = p
    /\ table[0][7].sectors = info.swap /\ table[0][8].sectors = info.var

\* The tables are what the plan says, at the numbers that header and restore use.
BuiltAsPlanned == EverythingBuilt /\ RestoredWhereBuilt

=============================================================================
