------------------------------ MODULE GrowingSet ------------------------------
(***************************************************************************)
(* What adding volumes to an MFS volume set promises.  The set is known by *)
(* two things: the list of partitions in the volume header, and the chain  *)
(* of zone maps.  A pair of partitions joins the chain first and the list  *)
(* second, with nothing else in between; a set that is left in between is  *)
(* never touched again.                                                    *)
(***************************************************************************)
EXTENDS Naturals, Sequences

CONSTANTS
  Pairs,      \* the <<application, media>> pairs that may be added
  InitList,   \* the partitions of the set at first
  InitLinked  \* the zone maps chained at first

VARIABLES
  list,   \* the partitions the header names
  linked  \* how many zone maps the chain has

\* One more zone map for every pair that was added.
Balance == linked - InitLinked = (Len(list) - Len(InitList)) \div 2

Init == list = InitList /\ linked = InitLinked

Link == /\ Balance
        /\ linked' = linked + 1
        /\ UNCHANGED list

Publish(p) == /\ linked = InitLinked + 1 + (Len(list) - Len(InitList)) \div 2
              /\ list' = list \o p
              /\ UNCHANGED linked

Next == Link \/ \E p \in Pairs : Publish(p)

Spec == Init /\ [][Next]_<<list, linked>>
=============================================================================
