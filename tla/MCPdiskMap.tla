------------------------------ MODULE MCPdiskMap ------------------------------
(***************************************************************************)
(* A small drive without a map, and one whose map is three blocks long and *)
(* full: the map itself, data and free space.                              *)
(***************************************************************************)
EXTENDS PdiskMap

\* A map from <<start, length, type>> triples.
MapOf(p) ==
  [k \in Blocks |->
     IF k <= Len(p)
     THEN [count |-> Len(p), start |-> p[k][1], len |-> p[k][2], type |-> p[k][3]]
     ELSE Blank]

NoDisk  == MapOf(<<>>)
OneData == MapOf(<<<<1, 3, "map">>, <<4, 2, "data">>, <<6, MediaSize - 6, "free">>>>)

MCDisks == {NoDisk, OneData}

\* One who tries everything and writes nothing, two who write twice.
MCUsers ==
  {[bases |-> {5, 6, 7}, lengths |-> {0, 1, 2, 15}, indices |-> {0, 1, 2, 9}, nths |-> {2}, sizes |-> {2, 4, 5},
    writes |-> 0, fails |-> 0],
   [bases |-> {6}, lengths |-> {1}, indices |-> {9}, nths |-> {}, sizes |-> {2}, writes |-> 2, fails |-> 1],
   [bases |-> {6}, lengths |-> {2}, indices |-> {9}, nths |-> {}, sizes |-> {4}, writes |-> 2, fails |-> 1]}
=============================================================================
