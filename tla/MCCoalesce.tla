------------------------------ MODULE MCCoalesce ------------------------------
(***************************************************************************)
(* Drives of fifteen partitions, as Series 4 TiVos have them: the map,     *)
(* then pairs of MFS partitions at the end, some of them adjacent.  And a  *)
(* drive with fewer, which the script only warns of and where it can join  *)
(* one pair after another.                                                 *)
(***************************************************************************)
EXTENDS Coalesce, Sequences

\* A map from a sequence of <<name, type, size>>, laid out in the given order.
Laid(parts, order) ==
  LET pos[k \in 1..Len(order)] ==
        IF k = 1 THEN 1 ELSE pos[k - 1] + parts[order[k - 1]][3]
      place(n) == CHOOSE k \in 1..Len(order) : order[k] = n
  IN  [n \in 1..Slots |->
         IF n <= Len(parts)
         THEN [name |-> parts[n][1], type |-> parts[n][2], first |-> pos[place(n)],
               size |-> parts[n][3], count |-> Len(parts)]
         ELSE Empty]

System == << <<"map", "Apple_partition_map", 2>>, <<"boot 1", "Image", 1>>,
             <<"kernel 1", "Image", 1>>, <<"root 1", "Ext2", 2>>, <<"boot 2", "Image", 1>>,
             <<"kernel 2", "Image", 1>>, <<"root 2", "Ext2", 2>>, <<"swap", "Swap", 1>>,
             <<"var", "Ext2", 2>> >>

App(s)   == <<"app region", "MFS", s>>
Media(s) == <<"media region", "MFS", s>>
SQLite   == <<"SQLite", "Ext2", 2>>

InOrder(parts) == [k \in 1..Len(parts) |-> k]

Fifteen == System \o <<App(2), Media(4), App(2), Media(4), SQLite, Media(5)>>

\* The order on the drive tivo_copy_rearranged.sh is there for.
Rearranged == <<1, 11, 12, 13, 15, 2, 3, 4, 5, 6, 7, 8, 9, 14, 10>>

Twelve == SubSeq(System, 1, 8) \o <<App(2), Media(4), App(2), Media(5)>>

MCMaps == {Laid(Fifteen, InOrder(Fifteen)), Laid(Fifteen, Rearranged), Laid(Twelve, InOrder(Twelve))}
MCTexts == {"SQLite", ""} \cup UNION {{Fifteen[k][1], Fifteen[k][2]} : k \in 1..Len(Fifteen)}
=============================================================================
