----------------------------- MODULE DiskLayout -----------------------------
(***************************************************************************)
(* The disks as the storage library shows them to the provider: the        *)
(* partitions of a disk, the software RAID devices built from partitions   *)
(* or from other RAID devices, the LVM groups built from any of them and   *)
(* the logical volumes in a group.  The library is not part of the         *)
(* repository: each operator is what the calls through the handle "s" in   *)
(* src/src/providers/Array-Profile expect of it.  Sizes are in bytes.      *)
(*                                                                         *)
(* A layout is a record                                                    *)
(*   part   the set of partitions [disk, num, start, size]                 *)
(*   md     each RAID device [level, devs, size]; level NoLevel: none      *)
(*   vg     each group [devs, lvs]; no devs: there is no such group        *)
(***************************************************************************)
EXTENDS Integers, Sequences, FiniteSets, SequencesExt, FiniteSetsExt

CONSTANTS
    Disks,          \* the disks of smsetup.conf's pool, in its order
    DiskSize,       \* bytes of each
    MdNums,         \* numbers a RAID device can have: md0, md1, ...
    VgNames,        \* names a group can have
    LvNames,        \* names a logical volume can have
    NULL

ASSUME DiskAssumption ==
    /\ Disks \in Seq(STRING) /\ DiskSize \in Nat /\ MdNums \subseteq Nat
    /\ NULL \notin VgNames \cup LvNames

\* Names of devices, and of the extents the provider makes of them.
Disk(d) == <<"disk", d, 0>>
Part(p) == <<"part", p.disk, p.num>>
Md(n) == <<"md", "md", n>>
Freespace(name) == <<"Freespace", name, 0>>
Composite(name) == <<"Composite", name, 0>>

NoLevel == 99
NoMd == [level |-> NoLevel, devs |-> <<>>, size |-> 0]
NoVg == [devs |-> <<>>, lvs |-> [l \in LvNames |-> 0]]

BlankLayout == [part |-> {}, md |-> [n \in MdNums |-> NoMd], vg |-> [v \in VgNames |-> NoVg]]

MdsOf(L) == {n \in MdNums : L.md[n].level # NoLevel}
VgsOf(L) == {v \in VgNames : L.vg[v].devs # <<>>}
PartsOn(L, d) == {p \in L.part : p.disk = d}
LvsIn(L, v) == {l \in LvNames : L.vg[v].lvs[l] > 0}

\* usedByType and usedByDevice: the RAID devices and the groups built on x.
MdsUsing(L, x) == {n \in MdsOf(L) : x \in ToSet(L.md[n].devs)}
VgsUsing(L, x) == {v \in VgsOf(L) : x \in ToSet(L.vg[v].devs)}
InUse(L, x) == MdsUsing(L, x) \cup VgsUsing(L, x) # {}

\* The partition with device name x, and the size of any device.
PartNamed(L, x) == CHOOSE p \in L.part : Part(p) = x
DeviceExists(L, x) == (\E p \in L.part : Part(p) = x) \/ (\E n \in MdsOf(L) : Md(n) = x)
DeviceSize(L, x) == IF x[1] = "disk" THEN DiskSize
                    ELSE IF x[1] = "md" THEN L.md[x[3]].size
                    ELSE PartNamed(L, x).size
SizeOfAll(L, xs) == FoldLeft(LAMBDA n, x : n + DeviceSize(L, x), 0, xs)
-----------------------------------------------------------------------------
Overlap(p, start, n) == p.start < start + n /\ start < p.start + p.size

\* createPartitionKb can make n bytes from start on: nothing may lie there.
PartitionFits(L, d, start, n) ==
    /\ n > 0 /\ start + n <= DiskSize
    /\ \A p \in PartsOn(L, d) : ~Overlap(p, start, n)

NewNum(L, d) == Min({n \in 1..Cardinality(L.part) + 1 : \A p \in PartsOn(L, d) : p.num # n})

PartitionCreated(L, d, start, n) ==
    [L EXCEPT !.part = @ \cup {[disk |-> d, num |-> NewNum(L, d), start |-> start, size |-> n]}]

\* removePartition refuses a partition something is built on.
CanRemovePartition(L, x) == (\E p \in L.part : Part(p) = x) /\ ~InUse(L, x)
PartitionRemoved(L, x) == [L EXCEPT !.part = {p \in @ : Part(p) # x}]

Unused(L, xs) == /\ \A x \in ToSet(xs) : DeviceExists(L, x) /\ ~InUse(L, x)
                 /\ Cardinality(ToSet(xs)) = Len(xs)

\* createMdAny takes the lowest free number.
NewMd(L) == Min(MdNums \ MdsOf(L))
CanCreateMd(L, level, xs) ==
    /\ Unused(L, xs) /\ MdNums \ MdsOf(L) # {}
    /\ Len(xs) >= (IF level = 5 THEN 3 ELSE 2)
MdBytes(L, level, xs) ==
    LET least == Min({DeviceSize(L, x) : x \in ToSet(xs)})
    IN  CASE level = 0 -> Len(xs) * least
          [] level = 1 -> least
          [] level = 5 -> (Len(xs) - 1) * least
MdCreated(L, level, xs) ==
    [L EXCEPT !.md[NewMd(L)] = [level |-> level, devs |-> xs, size |-> MdBytes(L, level, xs)]]

\* removeMd and removeLvmVg; a group goes with its volumes.
CanRemoveMd(L, n) == n \in MdsOf(L) /\ ~InUse(L, Md(n))
MdRemoved(L, n) == [L EXCEPT !.md[n] = NoMd]
VgRemoved(L, v) == [L EXCEPT !.vg[v] = NoVg]

\* createLvmVg and createLvmLv.
CanCreateVg(L, v, xs) == xs # <<>> /\ v \notin VgsOf(L) /\ Unused(L, xs)
VgCreated(L, v, xs) == [L EXCEPT !.vg[v].devs = xs]
PeFree(L, v) == SizeOfAll(L, L.vg[v].devs) - MapThenSumSet(LAMBDA l : L.vg[v].lvs[l], LvNames)
LvCreated(L, v, l, n) == [L EXCEPT !.vg[v].lvs[l] = n]
=============================================================================
