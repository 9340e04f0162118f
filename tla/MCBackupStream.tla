---------------------------- MODULE MCBackupStream ----------------------------
(***************************************************************************)
(* Small drives: three partitions as in the code, one or more blocks, two  *)
(* volumes.  With four entries to a sector their lists end inside a        *)
(* sector, at its end, or run over several.                                *)
(***************************************************************************)
EXTENDS BackupStream

Entry(kind, first, n) == [kind |-> kind, first |-> first, n |-> n]

Three   == <<Entry("boot 1", 0, 1), Entry("kernel", 0, 2), Entry("root", 0, 1)>>
Volumes == <<Entry("hda10", 0, 4), Entry("hda11", 0, 8)>>

Drive(blocks) == [parts |-> Three, blocks |-> blocks, mfs |-> Volumes]

TwoBlocks   == Drive(<<Entry("mfs", 0, 3), Entry("mfs", 5, 1)>>)
ThreeBlocks == Drive(<<Entry("mfs", 0, 2), Entry("mfs", 4, 2), Entry("mfs", 7, 1)>>)
SixBlocks   == Drive([k \in 1..6 |-> Entry("mfs", 2 * (k - 1), 1)])

SmallDrives == {TwoBlocks, ThreeBlocks}
MCSources == {TwoBlocks, ThreeBlocks, SixBlocks}
=============================================================================
