------------------------------- MODULE MCMfsAdd -------------------------------
(***************************************************************************)
(* Drives as small as the rules of mfsadd allow: ten slots on A before the *)
(* first volume, the numbers and names of the real program, and sectors in *)
(* units that give one or two blocks of room.                              *)
(***************************************************************************)
EXTENDS MfsAdd

MCDevSize == [d \in Drives |-> IF d = "A" THEN 94 ELSE 80]

\* One sector more for a map of four blocks or more.
MCMapLen == [b \in Nat |-> IF b < 4 THEN 1 ELSE 2]

\* A table from <<sectors, type>>, one after another from sector 1.
Starts(p) == LET s[k \in 1..Len(p)] == IF k = 1 THEN 1 ELSE s[k - 1] + p[k - 1][1] IN s
TableOf(p) == [k \in 1..Len(p) |-> [start |-> Starts(p)[k], sectors |-> p[k][1], type |-> p[k][2]]]

\* The map and eight partitions of the system, then the first pair.
System == <<<<Allocated, "map">>, <<11, "other">>>> \o [k \in 1..7 |-> <<1, "other">>]
First  == <<<<4, "data">>, <<8, "data">>>>
ADrive(rest) == TableOf(System \o First \o rest)
BDrive(rest) == TableOf(<<<<Allocated, "map">>>> \o rest)

Pair(d, n, t) ==
  [k \in 1..2 |-> [part |-> <<d, n + k - 1>>, start |-> t[d][n + k - 1].start,
                   sectors |-> t[d][n + k - 1].sectors, sure |-> TRUE]]

World(a, b, pairs) ==
  LET t == [d \in Drives |-> IF d = "A" THEN a ELSE b]
  IN  [disk |-> t, list |-> FlattenSeq([k \in 1..Len(pairs) |-> Pair(pairs[k][1], pairs[k][2], t)])]

OwnA == <<<<"A", 10>>>>
AFree  == ADrive(<<<<43, "free">>>>)
AFull  == ADrive(<<<<43, "other">>>>)
AMade  == ADrive(<<<<4, "data">>, <<8, "data">>, <<31, "free">>>>)
AExact == ADrive(<<<<4, "free">>, <<8, "data">>, <<24, "free">>, <<7, "other">>>>)
ALarge == ADrive(<<<<28, "free">>, <<4, "data">>, <<8, "data">>, <<3, "free">>>>)
APieces == ADrive(<<<<3, "free">>, <<4, "data">>, <<3, "free">>, <<8, "data">>, <<25, "free">>>>)
ACopied == ADrive(<<<<18, "free">>>>)
\* Free space of just the size of a map in front, and more behind the other slots.
AShift == LET t == ADrive(<<<<4, "free">>, <<8, "data">>, <<6, "free">>, <<1, "other">>, <<24, "free">>>>)
          IN  [k \in 1..16 |-> IF k <= 13 THEN t[k] ELSE IF k = 16 THEN t[14] ELSE t[k + 1]]
AGap   == ADrive(<<<<4, "free">>, <<4, "data">>, <<8, "data">>, <<27, "free">>>>)
ASix   == ADrive(<<<<4, "data">>, <<8, "data">>, <<4, "data">>, <<8, "data">>, <<19, "free">>>>)
\* The partitions of the system between free entries: of the pair that is made first,
\* the second number leads to the five free sectors, and the next pair is put before them.
ALoose == LET t == TableOf(<<<<Allocated, "map">>>> \o [k \in 1..6 |-> <<1, "other">>] \o First \o
                           <<<<4, "free">>, <<1, "other">>, <<24, "free">>, <<1, "other">>, <<4, "free">>,
                             <<1, "other">>, <<20, "free">>>>)
              at == <<1, 2, 3, 4, 5, 6, 7, 13, 15, 8, 9, 10, 11, 12, 14, 16>>
          IN  [k \in 1..16 |-> t[at[k]]]
BEmpty == <<>>
BHand  == BDrive(<<<<4, "data">>, <<8, "data">>, <<47, "free">>>>)
BPairs == BDrive(<<<<4, "data">>, <<8, "data">>, <<4, "data">>, <<8, "data">>, <<35, "free">>>>)
BTen   == BDrive(<<<<4, "data">>, <<8, "data">>, <<4, "data">>, <<8, "data">>, <<1, "other">>,
                   <<1, "other">>, <<1, "other">>, <<1, "other">>, <<31, "free">>>>)

BMany  == BDrive(<<<<4, "data">>, <<8, "data">>, <<1, "other">>, <<1, "other">>, <<1, "other">>,
                   <<1, "other">>, <<1, "other">>, <<4, "data">>, <<8, "data">>, <<30, "free">>>>)

SixA == OwnA \o <<<<"A", 12>>, <<"A", 14>>>>
MCWorlds ==
  {World(AFree, BEmpty, OwnA), World(AFull, BHand, OwnA), World(AMade, BHand, OwnA),
   World(AMade, BPairs, OwnA \o <<<<"B", 2>>>>), World(AExact, BEmpty, OwnA),
   World(ALarge, BEmpty, OwnA), World(APieces, BHand, OwnA \o <<<<"B", 2>>>>),
   World(ACopied, BHand, OwnA), World(AShift, BEmpty, OwnA), World(ALoose, BEmpty, OwnA),
   World(AGap, BEmpty, OwnA \o <<<<"A", 13>>>>), World(ASix, BPairs, SixA \o <<<<"B", 2>>, <<"B", 4>>>>),
   World(ASix, BTen, SixA \o <<<<"B", 2>>, <<"B", 4>>>>),
   World(ASix, BMany, SixA \o <<<<"B", 2>>, <<"B", 9>>>>)}

Hand == {<<>>, <<<<"A", 12>>, <<"A", 13>>>>, <<<<"B", 2>>, <<"B", 3>>>>, <<<<"B", 4>>, <<"B", 5>>>>,
         <<<<"A", 13>>, <<"A", 14>>>>, <<<<"A", 9>>, <<"A", 12>>>>, <<<<"A", 12>>, <<"A", 14>>>>, <<<<"A", 12>>>>,
         <<<<"A", 12>>, <<"A", 13>>, <<"B", 2>>, <<"B", 3>>>>}
MCOptions ==
  [b : BOOLEAN, x : BOOLEAN, xs : {<<>>, <<"A">>, <<"B">>, <<"B", "A">>, <<"A", "A">>}, pairs : Hand]
=============================================================================
