---------------------------- MODULE MCRestorePlan ----------------------------
(***************************************************************************)
(* Backups with one set of system partitions, with the other and with      *)
(* both; from one to seven MFS pairs of different sizes; drives on which   *)
(* all, some or none of them fit.                                          *)
(***************************************************************************)
EXTENDS RestorePlan

File(partno, sectors) == [partno |-> partno, sectors |-> sectors]
FirstSet  == <<File(2, 4096), File(3, 8192), File(4, 262144)>>
SecondSet == <<File(5, 4096), File(6, 8192), File(7, 262144)>>
MixedSet  == <<File(2, 4096), File(3, 8192), File(7, 262144)>>
WithVar   == FirstSet \o <<File(9, 262144)>>
BothSets  == FirstSet \o SecondSet \o <<File(9, 300000)>>

\* Pairs of an application and a media region.
Pairs(media) == [k \in 1..(2 * Len(media)) |-> IF k % 2 = 1 THEN 1000 ELSE media[k \div 2]]
Plain   == {Pairs(<<9000>>), Pairs(<<9000, 20000, 50000>>)}
Uneven  == {Pairs(<<9000, 60000, 30000, 50000, 20000>>)}
Many    == {Pairs(<<9000, 9000, 9000, 9000, 9000, 9000>>),
            Pairs(<<9000, 9000, 9000, 9000, 9000, 9000, 9000>>)}

MCBackups ==
  [parts : {FirstSet}, mfs : Plain \cup Uneven \cup Many]
  \cup [parts : {SecondSet, MixedSet, WithVar, BothSets}, mfs : Plain \cup Uneven]

MCOptions ==
  [nofill : BOOLEAN, balance : BOOLEAN, var : {0}, swap : {0}]
  \cup [nofill : {FALSE}, balance : {TRUE}, var : {300000}, swap : {4096}]

\* What the system partitions of FirstSet and the first pair take.
Base == 2 * 274432 + 131072 + 262144 + 10000
MCDrives == {<<Base - 1, 200000>>, <<Base + 1000, 170000>>, <<Base + 70000, 0>>, <<Base + 72000, 90000>>,
             <<Base + 85000, 85000>>, <<3 * Base, 500000>>}
=============================================================================
