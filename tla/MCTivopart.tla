------------------------------ MODULE MCTivopart ------------------------------
(***************************************************************************)
(* Drives as TiVo makes them, with the free partition at the end; as an    *)
(* earlier version of tivopart left them, with the main root behind swap   *)
(* space; and two that cannot be converted, without a free partition and   *)
(* with a gap between 2 to 8.                                              *)
(***************************************************************************)
EXTENDS Tivopart

E(start, len, name) == [start |-> start, len |-> len, name |-> name]

\* The map, then partitions from <<length, name>> pairs, in a row.
InARow(pairs) ==
  LET at[i \in 1..Len(pairs)] == IF i = 1 THEN 0 ELSE at[i - 1] + pairs[i - 1][1]
  IN  [i \in 1..Len(pairs) |-> E(at[i], pairs[i][1], pairs[i][2])]

System(root, swap) == <<<<2, "Apple">>, <<1, "Bootstrap 1">>, <<1, "Kernel 1">>, <<root, "Root 1">>,
                        <<1, "Bootstrap 2">>, <<2, "Kernel 2">>, <<root, "Root 2">>, <<swap, "Linux swap">>>>
Mfs == <<<<2, "var">>, <<1, "MFS application">>, <<3, "MFS media">>>>

Original == InARow(System(2, 9) \o Mfs \o <<<<2, "Extra">>>>)
FreeNext == InARow(System(2, 9) \o <<<<3, "Extra">>>> \o Mfs)
Earlier  == LET r == InARow(System(2, 3) \o <<<<7, "Main root">>>> \o Mfs)
            IN  SubSeq(r, 1, 8) \o SubSeq(r, 10, 12) \o <<r[9]>>
NoExtra  == InARow(System(2, 9) \o Mfs)
Gap      == [Original EXCEPT ![6].start = @ + 1, ![6].len = @ - 1]

MCMaps == {Original, FreeNext, Earlier, NoExtra, Gap}
MCNames == {"Apple", "Bootstrap 1", "Kernel 1", "Root 1", "Bootstrap 2", "Kernel 2", "Root 2", "Linux swap",
            "var", "MFS application", "MFS media", "Extra", "Main root", "Decoy"}
MCSize == [c \in 2..7 |-> 1]
=============================================================================
