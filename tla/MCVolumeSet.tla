----------------------------- MODULE MCVolumeSet -----------------------------
(***************************************************************************)
(* A small volume set: hda10 holds the header, the inode zone and two zone *)
(* maps, hda11 is its media region.  Pairs that can be added, pairs that   *)
(* cannot: an application region too small for its map, a media region     *)
(* smaller than the rounding and any pair on a drive opened read-only.     *)
(***************************************************************************)
EXTENDS VolumeSet, TLC

MCParts == {"a10", "a11", "a12", "a13", "b2", "b3", "b4", "b5"}
MCSize ==
  ("a10" :> 17) @@ ("a11" :> 12) @@ ("a12" :> 9) @@ ("a13" :> 19) @@
  ("b2" :> 10) @@ ("b3" :> 8) @@ ("b4" :> 4) @@ ("b5" :> 3)
MCNameLen == [p \in MCParts |-> IF p \in {"a10", "a11", "a12", "a13"} THEN 10 ELSE 9]

\* One map sector more for a media region of two blocks or more.
MCMapLen == [b \in 0..4 |-> IF b < 2 THEN 2 ELSE 3]

TwoPairs   == {<<"a12", "a13">>, <<"b2", "b3">>}
AllPairs   == TwoPairs \cup {<<"b4", "b3">>, <<"b2", "b5">>, <<"b2", "b4">>}

\* A user may mark either drive RO:.
MCReadOnly == {{}, {"a10", "a11", "a12", "a13"}, {"b2", "b3", "b4", "b5"}}

InodeZone == [at |-> 1, backup |-> 13, len |-> 2, first |-> 7, size |-> 4,
              next |-> [at |-> 3, backup |-> 11, len |-> 2]]
MediaZone == [at |-> 3, backup |-> 11, len |-> 2, first |-> 16, size |-> 8, next |-> Nil]
FirstHeader == [kind |-> "header", list |-> <<"a10", "a11">>, total |-> 28,
                map |-> PtrTo(InodeZone)]

Sectors(z, s, k) == ZoneSectors(z)[k - s + 1]
MCFormatted ==
  [p \in MCParts |->
     [k \in 0..(MCSize[p] - 1) |->
        IF p # "a10" THEN Blank
        ELSE IF k \in {0, 15} THEN FirstHeader
        ELSE IF k \in {1, 2} THEN Sectors(InodeZone, 1, k)
        ELSE IF k \in {3, 4} THEN Sectors(MediaZone, 3, k)
        ELSE IF k \in {11, 12} THEN Sectors(MediaZone, 11, k)
        ELSE IF k \in {13, 14} THEN Sectors(InodeZone, 13, k)
        ELSE Blank]]
=============================================================================
