--------------------------- MODULE MCRestoreFinish ---------------------------
(***************************************************************************)
(* A set of two pairs: 0..5 and 14..16 are application volumes, 6..13 and  *)
(* 17..22 media volumes.  Many orders of inodes with one log, many logs    *)
(* with few inodes.                                                        *)
(***************************************************************************)
EXTENDS RestoreFinish

R(sector, count) == [sector |-> sector, count |-> count]
I(stream, fsid, size, used, runs) ==
  [stream |-> stream, fsid |-> fsid, size |-> size, used |-> used, runs |-> runs]
Z(media, sector, first, last) == [media |-> media, sector |-> sector, length |-> 1, first |-> first, last |-> last]

\* Streams with runs on either pair, one of which nothing is used, and files.
Inodes == {I(TRUE, 1, 4, 3, <<R(6, 2), R(10, 2)>>), I(TRUE, 2, 2, 2, <<R(8, 2)>>),
           I(TRUE, 3, 3, 3, <<R(12, 1), R(17, 2)>>), I(TRUE, 4, 1, 0, <<R(13, 1)>>),
           I(TRUE, 9, 4, 4, <<R(19, 2), R(21, 2)>>), I(FALSE, 5, 1, 1, <<R(4, 1)>>), I(FALSE, 6, 1, 1, <<R(16, 1)>>)}
Orders == UNION {{s \in [1..n -> Inodes] : \A i, j \in 1..n : s[i] = s[j] => i = j} : n \in 0..3}
Zones     == <<Z(FALSE, 1, 2, 5), Z(TRUE, 3, 6, 13), Z(TRUE, 14, 17, 22)>>
MoreZones == <<Z(FALSE, 1, 2, 5), Z(TRUE, 3, 6, 13), Z(FALSE, 15, 16, 16), Z(TRUE, 14, 17, 22)>>

\* Records that stay, shrink and go.
Map(sector) == [kind |-> "map", sector |-> sector]
Update(runs, size) == [kind |-> "inode", stream |-> TRUE, runs |-> runs, size |-> size, used |-> size]
Records == {Map(3), Map(14), [kind |-> "other"], Update(<<R(19, 2), R(21, 2)>>, 4),
            Update(<<R(12, 1), R(17, 2)>>, 3), Update(<<R(17, 2), R(10, 2), R(19, 2)>>, 6)}
OneLog  == {<<Update(<<R(12, 1), R(17, 2)>>, 3), Map(14)>>}
AllLogs == UNION {[1..n -> Records] : n \in 0..4}

Disks(volumes, there, orders, zones, logs, kernel, root) ==
  [volumes : {volumes}, there : {there}, total : {23}, inodes : orders, zones : {zones}, log : logs,
   kernel : {kernel}, root : {root}]
MCSets ==
  Disks(<<6, 8, 3, 6>>, 4, Orders, Zones, OneLog, 3, 0)
  \cup Disks(<<6, 8, 3, 6>>, 4, {<<>>}, Zones, AllLogs, 6, 4)
  \cup Disks(<<6, 8, 3, 6>>, 2, Orders, Zones, {<<>>}, 3, 0)
  \cup Disks(<<6, 8, 3, 3>>, 4, Orders, Zones, {<<>>}, 3, 0)
  \cup Disks(<<6, 8, 3, 6>>, 4, {o \in Orders : Len(o) < 3}, MoreZones, {<<>>}, 3, 0)
  \cup Disks(<<6, 8, 3, 6>>, 4, {<<>>}, Zones, {<<>>}, 0, 0)

O(shrink, bysize, tot, streamtot, incomplete, thresh) ==
  [shrink |-> shrink, bysize |-> bysize, tot |-> tot, streamtot |-> streamtot,
   incomplete |-> incomplete, var |-> TRUE, thresh |-> thresh]
MCOptions ==
  {O(sh, FALSE, FALSE, FALSE, FALSE, 3) : sh \in BOOLEAN}
  \cup {O(FALSE, TRUE, TRUE, st, FALSE, 4) : st \in BOOLEAN}
  \cup {O(TRUE, TRUE, FALSE, FALSE, TRUE, 5), O(TRUE, FALSE, FALSE, FALSE, FALSE, 9)}
=============================================================================
