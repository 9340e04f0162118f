------------------------------ MODULE VolumeSet ------------------------------
(***************************************************************************)
(* The MFS volume set of MFSTools (lib/volume.c, lib/mfs.c and the chain   *)
(* of zone maps of lib/zonemap.c): how a tool loads it and how             *)
(* mfs_add_volume_pair adds an application and a media partition to it,    *)
(* sector by sector.  The machine may stop between any two sectors and any *)
(* sector may fail to be written: no caller looks at what                  *)
(* mfsvol_write_data returns.                                              *)
(*                                                                         *)
(* A sector of a volume is a number in the whole set; the volume it is in  *)
(* follows from the list of volumes and their sizes.  A checksum is        *)
(* abstracted to what it tells: were these sectors written as one map?     *)
(***************************************************************************)
EXTENDS Integers, Sequences, SequencesExt

CONSTANTS
  Parts,      \* the partitions of the drives
  Size,       \* their sectors; 0 for one that does not exist
  ReadOnly,   \* the sets of partitions a user may ask to open for reading only
  NameLen,    \* the length of their names
  Root,       \* the partition of the first volume, /dev/hda10
  Pairs,      \* the <<application, media>> pairs a tool may be asked to add
  Round,      \* MFS_PARTITION_ROUND
  MinAlloc,   \* sectors of an allocation block
  MapLen,     \* sectors of a zone map for a number of blocks
  ListMax,    \* bytes of the volume list in the header
  Formatted,  \* the sectors of a freshly restored set
  Maps,       \* the zone maps it has
  MaxErrors,  \* how many sector writes may fail
  Nil, None

ASSUME SizeAssumption ==
  /\ Size \in [Parts -> Nat] /\ Round \in Nat \ {0} /\ MinAlloc \in Nat \ {0}
  /\ Maps \in Nat /\ MaxErrors \in Nat
ASSUME PairsAssumption == Root \in Parts /\ ReadOnly \subseteq SUBSET Parts /\ Pairs \subseteq Parts \X Parts

VARIABLES
  sec,   \* the sectors of every partition
  mem,   \* the tool's mfs_handle: the volumes and zone maps loaded, or None
  todo,  \* the sector writes mfs_add_volume_pair still has to do
  errs   \* sector writes that failed so far

vars == <<sec, mem, todo, errs>>

Ptr  == [at : Nat, backup : Nat, len : Nat]
Zone == [at : Nat, backup : Nat, len : Nat, first : Nat, size : Nat, next : Ptr \cup {Nil}]

Handle == [list : Seq(Parts), map : Ptr, ro : SUBSET Parts, zones : Seq(Zone), busy : BOOLEAN]

ASSUME NilAssumption == Nil \notin Zone \cup Ptr /\ None \notin Handle

-----------------------------------------------------------------------------
(* lib/volume.c: volumes one after another, each rounded down.              *)

Rounded(p) == (Size[p] \div Round) * Round

\* The header of a zone map alone takes a sector.
ASSUME MapLenAssumption == \A p \in Parts : MapLen[Rounded(p) \div MinAlloc] \in Nat \ {0}

\* Where the volumes begin, and past the last one the size of the set.
Starts(list) ==
  LET s[k \in 1..(Len(list) + 1)] == IF k = 1 THEN 0 ELSE s[k - 1] + Rounded(list[k - 1])
  IN  s

SetSize(list) == Starts(list)[Len(list) + 1]

\* Is the run of n sectors from s inside one volume?
Fits(list, s, n) ==
  LET at == Starts(list)
  IN  \E k \in 1..Len(list) : at[k] <= s /\ s < at[k + 1] /\ s + n <= at[k + 1]

\* Where sector s lies: its partition and the offset in it.
Place(list, s) ==
  LET at == Starts(list)
      k  == CHOOSE k \in 1..Len(list) : at[k] <= s /\ s < at[k + 1]
  IN  <<list[k], s - at[k]>>

Sector(list, s) == LET w == Place(list, s) IN sec[w[1]][w[2]]

Writable(list, ro, s) == Fits(list, s, 1) /\ Place(list, s)[1] \notin ro

-----------------------------------------------------------------------------
(* What sectors hold.  The links of a zone map are in its first sector, its *)
(* bitmaps fill the rest.                                                   *)

Blank == [kind |-> "blank"]

Header(list, map) == [kind |-> "header", list |-> list, total |-> SetSize(list), map |-> map]

ZoneSectors(z) ==
  [k \in 1..z.len |->
     IF k = 1 THEN [kind |-> "zone", zone |-> z]
     ELSE [kind |-> "bits", first |-> z.first, size |-> z.size, k |-> k]]

PtrTo(z) == [at |-> z.at, backup |-> z.backup, len |-> z.len]

-----------------------------------------------------------------------------
(* mfs_init: the header or its backup, the volumes it names, then the chain *)
(* of zone maps, each from its first copy whose checksum holds.             *)

DiskHeader ==
  IF sec[Root][0].kind = "header" THEN sec[Root][0] ELSE sec[Root][Rounded(Root) - 1]

\* The zone map read from sector s, or Nil for an I/O or a checksum error.
ReadCopy(list, s, n) ==
  LET head == Sector(list, s)
  IN  IF /\ Fits(list, s, n)
         /\ head.kind = "zone"
         /\ ZoneSectors(head.zone) = [k \in 1..n |-> Sector(list, s + k - 1)]
      THEN head.zone ELSE Nil

ReadZone(list, p) ==
  LET z == ReadCopy(list, p.at, p.len) IN IF z # Nil THEN z ELSE ReadCopy(list, p.backup, p.len)

\* The chain of zone maps so far and the next one, if there is a link to it.
Followed(list, so) ==
  IF Last(so) = Nil THEN so
  ELSE IF Last(so).next = Nil THEN so
  ELSE Append(so, ReadZone(list, Last(so).next))

\* The chain of zone maps; Nil stands for one that cannot be read, which ends
\* it.  It is followed no further than there are sectors for the maps.  c[n] is
\* a set of one chain, because TLC evaluates what is bound to a variable once.
Chain(list, map) ==
  LET c[n \in 0..SetSize(list)] ==
        IF n = 0 THEN {<<ReadZone(list, map)>>} ELSE {Followed(list, so) : so \in c[n - 1]}
  IN  CHOOSE so \in c[SetSize(list)] : TRUE

Readable(list, map) == Nil \notin ToSet(Chain(list, map))

Loadable ==
  /\ DiskHeader.kind = "header"
  /\ \A k \in 1..Len(DiskHeader.list) : Rounded(DiskHeader.list[k]) > 0
  /\ Readable(DiskHeader.list, DiskHeader.map)

-----------------------------------------------------------------------------
Init ==
  /\ sec = Formatted
  /\ mem = None
  /\ todo = <<>>
  /\ errs = 0

\* A tool starts, with some devices marked RO:; it gives up on an error or when
\* the sizes do not add up.
Start ==
  /\ mem = None
  /\ Loadable
  /\ DiskHeader.total = SetSize(DiskHeader.list)
  /\ \E ro \in ReadOnly :
       mem' = [list |-> DiskHeader.list, map |-> DiskHeader.map, ro |-> ro,
               zones |-> Chain(DiskHeader.list, DiskHeader.map), busy |-> FALSE]
  /\ UNCHANGED <<sec, todo, errs>>

\* strlen of the volume list: names with a blank between them.
Length(list) ==
  LET n[k \in 0..Len(list)] == IF k = 0 THEN -1 ELSE n[k - 1] + 1 + NameLen[list[k]] IN n[Len(list)]

NewZone(list, app, media) ==
  LET start  == SetSize(list)
      blocks == Rounded(media) \div MinAlloc
  IN  [at |-> start + 1, backup |-> start + Rounded(app) - MapLen[blocks] - 1,
       len |-> MapLen[blocks], first |-> start + Rounded(app),
       size |-> blocks * MinAlloc, next |-> Nil]

\* The names and the blanks in front of them fit into the header.
NamesFit(list, app, media) == Length(list) + NameLen[app] + NameLen[media] + 3 < ListMax

NotEmpty(app, media) == Rounded(app) > 0 /\ Rounded(media) > 0

\* Mutant: room for one copy.
MapFitsOnce(app, media) == MapLen[Rounded(media) \div MinAlloc] + 2 <= Rounded(app)

\* Room for both copies of the new zone map.
MapFits(app, media) == MapLen[Rounded(media) \div MinAlloc] * 2 + 2 <= Rounded(app)

\* Block 0 and the last zone map of the chain.
LinksWritable(list, ro, zones) == Writable(list, ro, 0) /\ Writable(list, ro, Last(zones).at)

\* mfs_add_volume_pair gives up before it writes anything otherwise; it then
\* reloads what it had.
CanAdd(list, ro, zones, app, media) ==
  LET new == list \o <<app, media>>
  IN  /\ NamesFit(list, app, media)
      /\ LinksWritable(list, ro, zones)
      /\ NotEmpty(app, media)
      /\ Writable(new, ro, SetSize(list)) /\ Writable(new, ro, SetSize(list) + Rounded(app))
      /\ MapFits(app, media)

\* mfsvol_write_data: the sector writes it comes to.
Put(list, ro, s, data) ==
  IF Fits(list, s, Len(data)) /\ Writable(list, ro, s)
  THEN [k \in 1..Len(data) |-> [place |-> Place(list, s + k - 1), v |-> data[k]]]
  ELSE <<>>

\* A new zone map twice, then the map that is linked to it twice.
ZoneWrites(list, ro, zone, last) ==
  Put(list, ro, zone.at, ZoneSectors(zone)) \o
  Put(list, ro, zone.backup, ZoneSectors(zone)) \o
  Put(list, ro, last.at, ZoneSectors(last)) \o
  Put(list, ro, last.backup, ZoneSectors(last))

\* Mutant: the backup only.
BackupWrites(list, ro, map) == Put(list, ro, Rounded(Root) - 1, <<Header(list, map)>>)

\* The header and its backup.
HeaderWrites(list, ro, map) ==
  Put(list, ro, 0, <<Header(list, map)>>) \o
  Put(list, ro, Rounded(Root) - 1, <<Header(list, map)>>)

\* Mutant: the header first.
WritesHeaderFirst(list, ro, map, zone, last) ==
  HeaderWrites(list, ro, map) \o ZoneWrites(list, ro, zone, last)

\* Mutant: the link before what it leads to.
WritesLinkFirst(list, ro, map, zone, last) ==
  ZoneWrites(list, ro, last, zone) \o HeaderWrites(list, ro, map)

Writes(list, ro, map, zone, last) ==
  ZoneWrites(list, ro, zone, last) \o HeaderWrites(list, ro, map)

\* mfs_add_volume_pair with mfs_new_zone_map.  The tools refuse a partition
\* that is in the set already.
AddPair(app, media) ==
  /\ mem # None /\ ~mem.busy
  /\ app # media /\ {app, media} \cap ToSet(mem.list) = {}
  /\ CanAdd(mem.list, mem.ro, mem.zones, app, media)
  /\ LET list == mem.list \o <<app, media>>
         zone == NewZone(mem.list, app, media)
         last == [Last(mem.zones) EXCEPT !.next = PtrTo(zone)]
     IN  /\ todo' = Writes(list, mem.ro, mem.map, zone, last)
         /\ mem' = [mem EXCEPT !.list = list, !.busy = TRUE]
  /\ UNCHANGED <<sec, errs>>

WriteSector ==
  /\ todo # <<>>
  /\ LET w == Head(todo) IN sec' = [sec EXCEPT ![w.place[1]][w.place[2]] = w.v]
  /\ todo' = Tail(todo)
  /\ UNCHANGED <<mem, errs>>

WriteFails ==
  /\ todo # <<>> /\ errs < MaxErrors
  /\ errs' = errs + 1
  /\ todo' = Tail(todo)
  /\ UNCHANGED <<sec, mem>>

\* The end of mfs_add_volume_pair: the zone maps are loaded again.
EndAdd ==
  /\ mem # None /\ mem.busy /\ todo = <<>>
  /\ mem' = IF Readable(mem.list, mem.map)
            THEN [mem EXCEPT !.zones = Chain(mem.list, mem.map), !.busy = FALSE]
            ELSE None
  /\ UNCHANGED <<sec, todo, errs>>

\* The tool exits, or the machine stops.
ToolEnds ==
  /\ mem # None
  /\ mem' = None
  /\ todo' = <<>>
  /\ UNCHANGED <<sec, errs>>

Next ==
  \/ Start
  \/ \E p \in Pairs : AddPair(p[1], p[2])
  \/ WriteSector
  \/ WriteFails
  \/ EndAdd
  \/ ToolEnds

Spec == Init /\ [][Next]_vars
-----------------------------------------------------------------------------
TypeOK ==
  /\ \A p \in Parts : DOMAIN sec[p] = 0..(Size[p] - 1)
  /\ mem # None => mem \in Handle /\ mem.ro \in ReadOnly /\ mem.zones # <<>>
  /\ \A k \in 1..Len(todo) : todo[k].place[2] \in DOMAIN sec[todo[k].place[1]]
  /\ errs \in 0..MaxErrors

\* Whenever the machine stops, and whichever sector could not be written, no
\* zone map of the chain is lost: all of them can be read with the volumes the
\* header names, or with those and the pairs added since it was written.
Recoverable ==
  /\ DiskHeader.kind = "header"
  /\ \E more \in {<<>>} \cup Pairs \cup {p \o q : p, q \in Pairs} :
       /\ IsInjective(DiskHeader.list \o more)
       /\ Readable(DiskHeader.list \o more, DiskHeader.map)

\* "It wouldn't do to get all the way to the end and not be able to update the
\* volume header": a tool that is done has in memory what is on the drives, as
\* long as no write has failed: no caller would notice.
MemoryAgrees ==
  mem # None /\ ~mem.busy /\ errs = 0 =>
    /\ Loadable
    /\ mem.list = DiskHeader.list
    /\ mem.zones = Chain(DiskHeader.list, DiskHeader.map)

\* The sectors that hold the maps, the headers and the zones, each as a range
\* with what it is for.
Occupied(list, zones) ==
  {<<"header", 0, 0>>, <<"backup header", Rounded(Root) - 1, Rounded(Root) - 1>>} \cup
  UNION {{<<"map", z.at, z.at + z.len - 1>>, <<"backup map", z.backup, z.backup + z.len - 1>>,
          <<"zone", z.first, z.first + z.size - 1>>} : z \in ToSet(zones)}

Apart(r, s) == r[3] < s[2] \/ s[3] < r[2]

\* In a set that loads, the copies of the header and of the zone maps and the
\* zones themselves keep out of each other's way, inside one volume each.
ZonesApart ==
  Loadable =>
    LET list  == DiskHeader.list
        R     == Occupied(list, Chain(list, DiskHeader.map))
    IN  /\ \A r \in R : Fits(list, r[2], r[3] - r[2] + 1)
        /\ \A r, s \in R : r # s => Apart(r, s)

\* What is on the drives and in memory is laid out as mfs_add_volume_pair meant it:
\* every sector that a write names is in its volume, and nothing overlaps.
LaidOut == TypeOK /\ ZonesApart

\* The pair joins the chain and then the list, in one step each, wherever the
\* machine stops and until a sector cannot be written.
Linked == Len(Chain(DiskHeader.list, DiskHeader.map))
Growth ==
  INSTANCE GrowingSet WITH
    InitList <- Formatted[Root][0].list,
    InitLinked <- Maps,
    list <- DiskHeader.list,
    linked <- Linked
Refines == Growth!Init /\ [][errs' = 0 => Growth!Next]_<<DiskHeader.list, Linked>>
=============================================================================
