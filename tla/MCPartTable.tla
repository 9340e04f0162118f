---------------------------- MODULE MCPartTable ----------------------------
(***************************************************************************)
(* Small instances of PartTable: a device of eleven sectors, seven of them *)
(* boot block and map, with the maps a drive may carry when a tool starts. *)
(***************************************************************************)
EXTENDS PartTable, TLC

\* A map from <<start, sectors, type>> triples, padded with blank sectors.
MapOf(p) ==
  [k \in 1..MapSectors |->
     IF k <= Len(p)
     THEN [count |-> Len(p), start |-> p[k][1], sectors |-> p[k][2], type |-> p[k][3]]
     ELSE Blank]

MapEntry == <<1, MapSectors, "map">>
First    == MapSectors + 1

NewDrive    == MapOf(<<>>)
OneData     == MapOf(<<MapEntry, <<First, 2, "data">>, <<First + 2, DevSize - First - 2, "free">>>>)
TwoData     == MapOf(<<MapEntry, <<First, 1, "data">>, <<First + 1, 2, "data">>,
                       <<First + 3, DevSize - First - 3, "free">>>>)
Hole        == MapOf(<<MapEntry, <<First, 1, "data">>, <<First + 1, 2, "free">>,
                       <<First + 3, 1, "data">>>>)
\* Slots in another order than the drive, as TiVo's own tables have them.
Unordered   == MapOf(<<MapEntry, <<First + 2, 1, "data">>, <<First, 2, "free">>,
                       <<First + 3, DevSize - First - 3, "free">>>>)
\* A drive copied onto a larger one: free space at its old end.
Copied      == MapOf(<<MapEntry, <<First, 1, "data">>, <<First + 1, 2, "free">>>>)

TiledDisks == {NewDrive, OneData, TwoData, Hole, Unordered}
TornDisks  == {NewDrive, OneData, Copied}
CopiedDisk == {Copied}

Symmetry == Permutations(Handles)
=============================================================================
