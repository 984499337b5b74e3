---------------------------- MODULE StorageScan ----------------------------
(***************************************************************************)
(* What SCSScanStorage makes of a layout of the disks: the pools, extents  *)
(* and volumes of the provider's model, who is based on whom and who is    *)
(* allocated from whom.  (StorageConfigurationService.tla has the same     *)
(* scan with the disks as one lump of bytes and with library calls that    *)
(* fail.)  The graph of objects is a record                                *)
(*   defined  FALSE after a NULL pointer was read through                  *)
(*   ext      the extents: [size, pool, composite]                         *)
(*   pool     the pools: [total, remaining, cap], a pool with its          *)
(*            capability, which has the pool's name                        *)
(*   vol      the volumes: [size, pool, on, isLD], with their settings     *)
(*   based    BasedOn among extents: [dep, ant, order]                     *)
(*   alloc    AllocFrom among pools: [dep, ant, space]                     *)
(* Extents of a pool are its components: pool and PoolExtentsAdd go        *)
(* together.  The addresses of BasedOn are left out.                       *)
(***************************************************************************)
EXTENDS DiskLayout, TLC

CONSTANTS
    OneKB,          \* bytes in a kilobyte
    LdVolumes,      \* volume names that start with LD_: logical disks
    Primordial,     \* the pool of smsetup.conf
    PrimordialCap   \* its capability

\* A capability: what its pool gives by default and at most.
Cap(dr, pr, stripe, parity, nspf) ==
    [dr |-> dr, drMax |-> dr, pr |-> pr, prMax |-> pr, stripe |-> stripe,
     parity |-> parity, nspf |-> nspf]

ASSUME ScanAssumption ==
    /\ Primordial \notin VgNames \cup {NULL}
    /\ PrimordialCap \in [dr : Nat, drMax : Nat, pr : Nat, prMax : Nat, stripe : Nat, parity : Nat, nspf : BOOLEAN]

\* JBOD, RAID 0, 1, 10 and 5: of the default of a capability, and of a goal.
IsJBOD(c) == c.pr = 0 /\ c.dr = 1 /\ c.stripe = 1
IsRAID0(c) == c.pr = 0 /\ c.dr = 1 /\ c.stripe > 1
IsRAID1(c) == c.pr = 1 /\ c.dr > 1 /\ c.stripe = 1
IsRAID10(c) == c.pr = 1 /\ c.dr > 1 /\ c.stripe > 1
IsRAID5(c) == c.pr = 1 /\ c.dr = 1 /\ c.stripe > 2 /\ c.parity = 2

-----------------------------------------------------------------------------
\* Names: the suffixes the code tests with cmpiutilStrEndsWith.
ExtentIsFreespace(x) == x[1] = "Freespace"
IsMd(x) == x[1] = "md"

Components(G, p) == {x \in DOMAIN G.ext : G.ext[x].pool = p}
Antecedents(G, x) == {b \in G.based : b.dep = x}
DependentExtents(G, x) == {b.dep : b \in {c \in G.based : c.ant = x}}
VolumesOn(G, x) == {v \in DOMAIN G.vol : G.vol[v].on = x}
NumDependents(G, x) == Cardinality(DependentExtents(G, x)) + Cardinality(VolumesOn(G, x))

\* dependents[0] of an extent that has one dependent.
OnlyDependent(G, x) == CHOOSE y \in DependentExtents(G, x) : TRUE

\* The pool of an extent, or of the first extent below it that has one.
ExtentGetPool(G, x) ==
    LET below[y \in DOMAIN G.ext] ==
            IF G.ext[y].pool # NULL THEN G.ext[y].pool
            ELSE below[(CHOOSE b \in Antecedents(G, y) : b.order = 1).ant]
    IN  below[x]

\* An array of objects with one more, or with one replaced.
Added(objects, id, new) == [i \in DOMAIN objects \cup {id} |-> IF i = id THEN new ELSE objects[i]]
AddedIfNew(objects, ids, new(_)) ==
    [i \in DOMAIN objects \cup ids |-> IF i \in DOMAIN objects THEN objects[i] ELSE new(i)]

ExtentAlloc(G, x, bytes, p, comp) ==
    [G EXCEPT !.ext = Added(@, x, [size |-> bytes, pool |-> p, composite |-> comp])]

ExtentCreateBasedOnAssociation(G, dep, ant, order) ==
    [G EXCEPT !.based = @ \cup {[dep |-> dep, ant |-> ant, order |-> order]}]

\* The next order index: numAntecedents + 1.
NextOrder(G, x) == Cardinality(Antecedents(G, x)) + 1

PoolAlloc(G, p, total, remaining, cap) ==
    [G EXCEPT !.pool = Added(@, p, [total |-> total, remaining |-> remaining, cap |-> cap])]

PoolCreateAllocFromAssociation(G, ant, dep, bytes) ==
    [G EXCEPT !.alloc = @ \cup {[dep |-> dep, ant |-> ant, space |-> bytes]}]

PoolModifyAllocFromAssociation(G, ant, dep, bytes) ==
    [G EXCEPT !.alloc = {IF a.dep = dep /\ a.ant = ant THEN [a EXCEPT !.space = @ + bytes] ELSE a
                         : a \in @}]

Take(G, p, bytes) == [G EXCEPT !.pool[p].remaining = @ - bytes]

\* Another member of a RAID device or group that pool p uses already.
TakeMore(G, child, p, bytes) ==
    LET from == ExtentGetPool(G, child)
    IN  PoolModifyAllocFromAssociation(Take(G, from, bytes), from, p, bytes)

-----------------------------------------------------------------------------
VolumeCreateAllocFromAssociation(vol, p) == [vol EXCEPT !.pool = p]
VolumeCreateBasedOnAssociation(vol, x) == [vol EXCEPT !.on = x]
VolumeAlloc(l, bytes) == [size |-> bytes, pool |-> NULL, on |-> NULL, isLD |-> l \in LdVolumes]

\* The logical volumes of group v; those whose name is known are passed over.
ProcessVolumes(G, L, v, composite) ==
    LET vol(l) == VolumeCreateBasedOnAssociation(
                      VolumeCreateAllocFromAssociation(VolumeAlloc(l, L.vg[v].lvs[l]), v), composite)
    IN  [G EXCEPT !.vol = AddedIfNew(@, LvsIn(L, v), vol)]

\* The first device of a group: its pool, with a composite extent and one for
\* the space that is left.  A RAID device that is all of it is the composite.
FirstOfContainer(G, L, child, cap, v) ==
    LET total == SizeOfAll(L, L.vg[v].devs) \div OneKB
        free  == PeFree(L, v) \div OneKB
        one   == IsMd(child) /\ Len(L.vg[v].devs) = 1
        comp  == IF one THEN child ELSE Composite(v)
        mine  == IF IsJBOD(cap) THEN Cap(1, 0, 1, 0, FALSE) ELSE cap
        g1 == PoolAlloc(G, v, total, free, mine)
        g2 == IF one THEN [g1 EXCEPT !.ext[child].pool = v]
              ELSE ExtentCreateBasedOnAssociation(
                       ExtentAlloc(g1, comp, G.ext[child].size, v, FALSE), comp, child, 1)
        g3 == PoolCreateAllocFromAssociation(g2, ExtentGetPool(G, child), v, G.ext[child].size)
    IN  ExtentCreateBasedOnAssociation(
            ExtentAlloc(g3, Freespace(v), free, v, FALSE), Freespace(v), comp, 1)

\* Every further device.
NextOfContainer(G, child, v) ==
    LET comp == Composite(v)
        g  == PoolModifyAllocFromAssociation(G, ExtentGetPool(G, child), v, G.ext[child].size)
    IN  [ExtentCreateBasedOnAssociation(g, comp, child, NextOrder(G, comp))
            EXCEPT !.ext[comp].composite = TRUE]

ProcessContainer(G, L, child, cap, v) ==
    LET g == IF v \in DOMAIN G.pool THEN NextOfContainer(G, child, v)
             ELSE FirstOfContainer(G, L, child, cap, v)
        comp == IF Composite(v) \in DOMAIN g.ext THEN Composite(v) ELSE child
    IN  ProcessVolumes(Take(g, ExtentGetPool(G, child), G.ext[child].size), L, v, comp)

-----------------------------------------------------------------------------
\* The first member found of a RAID device makes its extent.
RegionFound(G, n) == Md(n) \in DOMAIN G.ext
NewRegion(G, L, child, n, bytes) ==
    ExtentCreateBasedOnAssociation(
        ExtentAlloc(G, Md(n), Max({bytes, L.md[n].size}), NULL, TRUE), Md(n), child, 1)
NextMember(G, child, n) ==
    ExtentCreateBasedOnAssociation(G, Md(n), child, NextOrder(G, Md(n)))

\* The group on a RAID device.
GroupOn(L, n) == CHOOSE v \in VgsUsing(L, Md(n)) : TRUE
HasGroup(L, n) == VgsUsing(L, Md(n)) # {}

\* A stripe over partitions, or over mirrors.
ProcessMDRaid0Region(G, L, child, n) ==
    LET stripes  == Len(L.md[n].devs)
        mirrored == G.ext[child].composite
        cap  == IF mirrored THEN Cap(2, 1, stripes, 0, TRUE) ELSE Cap(1, 0, stripes, 0, FALSE)
        new  == NewRegion(G, L, child, n, stripes * G.ext[child].size)
        more == NextMember(G, child, n)
        inGroup == /\ mirrored /\ more.ext[Md(n)].pool = NULL
                   /\ NumDependents(more, Md(n)) = 1
                   /\ OnlyDependent(more, Md(n))[1] = "Composite"
    IN  IF ~RegionFound(G, n)
        THEN IF HasGroup(L, n) THEN ProcessContainer(new, L, Md(n), cap, GroupOn(L, n)) ELSE new
        ELSE IF inGroup
        THEN TakeMore(more, child, ExtentGetPool(more, OnlyDependent(more, Md(n))),
                      more.ext[Md(n)].size)
        ELSE more

MutantProcessMDRaid5Region(G, L, child, n) ==
    LET devs == Len(L.md[n].devs)
        new  == NewRegion(G, L, child, n, (devs - 1) * G.ext[child].size)
        held == ProcessContainer(new, L, Md(n), Cap(1, 1, devs, 2, FALSE), GroupOn(L, n))
    IN  IF RegionFound(G, n) THEN NextMember(G, child, n)
        ELSE IF HasGroup(L, n) THEN TakeMore(held, child, GroupOn(L, n), G.ext[child].size)
        ELSE new

ProcessMDRaid5Region(G, L, child, n) ==
    LET devs == Len(L.md[n].devs)
        new  == NewRegion(G, L, child, n, (devs - 1) * G.ext[child].size)
        held == ProcessContainer(new, L, Md(n), Cap(1, 1, devs, 2, TRUE), GroupOn(L, n))
    IN  IF RegionFound(G, n) THEN NextMember(G, child, n)
        ELSE IF HasGroup(L, n) THEN TakeMore(held, child, GroupOn(L, n), G.ext[child].size)
        ELSE new

\* A mirror with more than two members changes the capability of its pool, or
\* of the pool its first dependent is in; there may be neither.
ManyMirrors(G, n) ==
    LET x == Md(n)
        members == Cardinality(Antecedents(G, x))
        p == IF G.ext[x].pool # NULL THEN G.ext[x].pool
             ELSE IF DependentExtents(G, x) = {} THEN NULL
             ELSE G.ext[OnlyDependent(G, x)].pool
    IN  IF members <= 2 THEN G
        ELSE IF p = NULL THEN [G EXCEPT !.defined = FALSE]
        ELSE [G EXCEPT !.pool[p].cap.dr = members, !.pool[p].cap.drMax = members]

ProcessMDRaid1Region(G, L, child, n) ==
    LET x    == Md(n)
        new  == NewRegion(G, L, child, n, G.ext[child].size)
        more == NextMember(G, child, n)
        p    == IF more.ext[x].pool # NULL THEN more.ext[x].pool
                ELSE IF NumDependents(more, x) = 1 THEN ExtentGetPool(more, OnlyDependent(more, x))
                ELSE NULL
    IN  IF RegionFound(G, n)
        THEN ManyMirrors(IF p # NULL THEN TakeMore(more, child, p, G.ext[child].size) ELSE more, n)
        ELSE IF HasGroup(L, n)
        THEN ProcessContainer(new, L, x, Cap(2, 1, 1, 0, TRUE), GroupOn(L, n))
        ELSE IF MdsUsing(L, x) # {}
        THEN ProcessMDRaid0Region(new, L, x, CHOOSE m \in MdsUsing(L, x) : TRUE)
        ELSE new

\* md_type.  A mirror in another RAID device is in a stripe: see LayoutOK.
ProcessRegion(G, L, child, n) ==
    CASE L.md[n].level = 0 -> ProcessMDRaid0Region(G, L, child, n)
      [] L.md[n].level = 1 -> ProcessMDRaid1Region(G, L, child, n)
      [] L.md[n].level = 5 -> ProcessMDRaid5Region(G, L, child, n)

LayoutOK(L) ==
    \A n, m \in MdsOf(L) : Md(n) \in ToSet(L.md[m].devs) => L.md[n].level = 1 /\ L.md[m].level = 0

-----------------------------------------------------------------------------
\* A partition that something is built on is an extent; the space of the
\* others leaves the pool, and that of all leaves the free space of the disk.
MutantProcessPartition(G, L, disk, p) ==
    LET x == Part(p)
        d == Disk(disk)
        g1 == ExtentCreateBasedOnAssociation(ExtentAlloc(G, x, p.size, NULL, FALSE), x, d, 1)
        g2 == IF VgsUsing(L, x) # {}
              THEN ProcessContainer(g1, L, x, G.pool[Primordial].cap, CHOOSE v \in VgsUsing(L, x) : TRUE)
              ELSE ProcessRegion(g1, L, x, CHOOSE n \in MdsUsing(L, x) : TRUE)
    IN  IF InUse(L, x) THEN g2
        ELSE [G EXCEPT !.ext[Freespace(disk)].size = @ - p.size]

ProcessPartition(G, L, disk, p) ==
    LET x == Part(p)
        d == Disk(disk)
        g1 == ExtentCreateBasedOnAssociation(ExtentAlloc(G, x, p.size, NULL, FALSE), x, d, 1)
        g2 == IF VgsUsing(L, x) # {}
              THEN ProcessContainer(g1, L, x, G.pool[Primordial].cap, CHOOSE v \in VgsUsing(L, x) : TRUE)
              ELSE ProcessRegion(g1, L, x, CHOOSE n \in MdsUsing(L, x) : TRUE)
        g3 == IF InUse(L, x) THEN g2 ELSE Take(G, Primordial, p.size)
    IN  IF x \in DOMAIN G.ext THEN G
        ELSE [g3 EXCEPT !.ext[Freespace(disk)].size = @ - p.size]

\* The i-th partition of a disk in the order of their numbers.
PartitionAt(L, d, i) ==
    CHOOSE p \in PartsOn(L, d) : Cardinality({q \in PartsOn(L, d) : q.num < p.num}) = i - 1

\* What n steps make of a graph, one after the other.
Through(n, G, step(_, _)) ==
    LET after[i \in 0..n] == IF i = 0 THEN G ELSE step(after[i - 1], i)
    IN  after[n]

\* The partitions of a disk, one after the other.
ScanPartitions(G, L, disk) ==
    Through(Cardinality(PartsOn(L, disk)), G,
            LAMBDA g, i : ProcessPartition(g, L, disk, PartitionAt(L, disk, i)))

\* One component of the primordial pool.
ScanDisk(G, L, disk) ==
    LET d  == Disk(disk)
        g1 == [G EXCEPT !.ext[d].size = DiskSize, !.pool[Primordial].total = @ + DiskSize,
                        !.pool[Primordial].remaining = @ + DiskSize]
        g2 == ExtentCreateBasedOnAssociation(
                  ExtentAlloc(g1, Freespace(disk), DiskSize, Primordial, FALSE),
                  Freespace(disk), d, 1)
    IN  IF VgsUsing(L, d) # {}
        THEN ProcessContainer(g1, L, d, G.pool[Primordial].cap, CHOOSE v \in VgsUsing(L, d) : TRUE)
        ELSE ScanPartitions(g2, L, disk)

\* smsetup.conf: the pool with its capability and its disks.
LoadPersistentStorageObjects ==
    [defined |-> TRUE,
     ext   |-> [x \in {Disk(d) : d \in ToSet(Disks)} |->
                   [size |-> 0, pool |-> Primordial, composite |-> FALSE]],
     pool  |-> [p \in {Primordial} |-> [total |-> 0, remaining |-> 0, cap |-> PrimordialCap]],
     vol   |-> [v \in {} |-> NULL], based |-> {}, alloc |-> {}]

\* A remaining size above the total is bogus: an unsigned number below zero.
Fixup(G) ==
    LET p == G.pool[Primordial]
        n == Len(Disks)
    IN  [G EXCEPT !.pool[Primordial] =
            [p EXCEPT !.remaining = IF @ \in 0..p.total THEN @ ELSE 0,
                      !.cap.nspf = n > 1 \/ p.cap.parity = 2,
                      !.cap.drMax = n, !.cap.prMax = n - 1]]

\* The disks, one after the other.
ScanDisks(L) ==
    Through(Len(Disks), LoadPersistentStorageObjects, LAMBDA g, i : ScanDisk(g, L, Disks[i]))

SCSScanStorage(L) == Fixup(ScanDisks(L))
=============================================================================
