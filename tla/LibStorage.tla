----------------------------- MODULE LibStorage -----------------------------
(***************************************************************************)
(* The storage library (libstorage: partitions, LVM volume groups, logical *)
(* volumes) as the provider uses it through the global handle "s".  It is  *)
(* not part of the repository: each operator is what the calls under       *)
(* src/src/providers/Array-Profile expect of the library.                  *)
(*                                                                         *)
(* A storage state is a record                                             *)
(*   free    bytes of the primordial pool's disks in no partition          *)
(*   orphan  bytes in partitions that belong to no volume group            *)
(*   size    bytes of each volume group (0: there is no such group)        *)
(*   pefree  bytes of each group's free physical extents                   *)
(*   lvs     bytes of each logical volume of each group (0: no such LV)    *)
(***************************************************************************)
EXTENDS Naturals

CONSTANTS
    VgNames,        \* names a volume group (a concrete pool) can have
    LvNames,        \* names a logical volume (a storage volume) can have
    Capacity        \* bytes of the disks smsetup.conf lists

ASSUME CapacityAssumption == Capacity \in Nat \ {0}

Storage == [free: Nat, orphan: Nat, size: [VgNames -> Nat],
            pefree: [VgNames -> Nat], lvs: [VgNames -> [LvNames -> Nat]]]

StorageOf(free, orphan, size, pefree, lvs) ==
    [free |-> free, orphan |-> orphan, size |-> size, pefree |-> pefree, lvs |-> lvs]

NoLvs == [l \in LvNames |-> 0]

BlankStorage ==
    StorageOf(Capacity, 0, [v \in VgNames |-> 0], [v \in VgNames |-> 0],
              [v \in VgNames |-> NoLvs])

VgExists(st, v) == st.size[v] > 0

LvsIn(st, v) == {l \in LvNames : st.lvs[v][l] > 0}

\* No logical volume name is used in two volume groups.  LVM itself does not
\* ask for it: a name is unique within its group only.
LvNamesUnique(st) ==
    \A v, w \in VgNames : v # w => LvsIn(st, v) \cap LvsIn(st, w) = {}

\* createPartitionKb: n bytes of free space become partitions.
Partitioned(st, n) ==
    StorageOf(st.free - n, st.orphan + n, st.size, st.pefree, st.lvs)

\* removePartition: n bytes of unused partitions become free space.
Unpartitioned(st, n) ==
    StorageOf(st.free + n, st.orphan - n, st.size, st.pefree, st.lvs)

\* createLvmVg over n bytes of unused partitions.
VgCreated(st, v, n) ==
    StorageOf(st.free, st.orphan - n, [st.size EXCEPT ![v] = n],
              [st.pefree EXCEPT ![v] = n], st.lvs)

\* extendLvmVg by n bytes of unused partitions.
VgExtended(st, v, n) ==
    StorageOf(st.free, st.orphan - n, [st.size EXCEPT ![v] = @ + n],
              [st.pefree EXCEPT ![v] = @ + n], st.lvs)

\* removeLvmVg: the group goes with every logical volume still in it.
VgRemoved(st, v) ==
    StorageOf(st.free, st.orphan + st.size[v], [st.size EXCEPT ![v] = 0],
              [st.pefree EXCEPT ![v] = 0], [st.lvs EXCEPT ![v] = NoLvs])

\* vgrename v w
VgRenamed(st, v, w) ==
    StorageOf(st.free, st.orphan, [st.size EXCEPT ![w] = st.size[v], ![v] = 0],
              [st.pefree EXCEPT ![w] = st.pefree[v], ![v] = 0],
              [st.lvs EXCEPT ![w] = st.lvs[v], ![v] = NoLvs])

\* createLvmLv
LvCreated(st, v, l, n) ==
    StorageOf(st.free, st.orphan, st.size, [st.pefree EXCEPT ![v] = @ - n],
              [st.lvs EXCEPT ![v][l] = n])

\* removeLvmLv
LvRemoved(st, v, l) ==
    StorageOf(st.free, st.orphan, st.size,
              [st.pefree EXCEPT ![v] = @ + st.lvs[v][l]],
              [st.lvs EXCEPT ![v][l] = 0])

\* resizeVolumeNoFs
LvResized(st, v, l, n) ==
    StorageOf(st.free, st.orphan, st.size,
              [st.pefree EXCEPT ![v] = (@ + st.lvs[v][l]) - n],
              [st.lvs EXCEPT ![v][l] = n])

\* lvrename v l m
LvRenamed(st, v, l, m) ==
    StorageOf(st.free, st.orphan, st.size, st.pefree,
              [st.lvs EXCEPT ![v] = [@ EXCEPT ![m] = st.lvs[v][l], ![l] = 0]])
=============================================================================
