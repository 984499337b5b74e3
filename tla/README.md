# TLA+ verification of smis-providers

smis-providers is a set of CIM providers (C, loaded by a CIM broker such as sfcb) that show the storage of a
host as an SMI-S array: disks listed in `smsetup.conf` form a *primordial pool*, LVM volume groups made of their
partitions or of software RAID devices are *concrete pools*, logical volumes are *storage volumes*, LVM snapshots
are *replicas*. Clients enumerate these objects and change the storage through extrinsic methods; the providers do
the work with libstorage (`StorageInterface *s`) and keep a model of the storage in global arrays, which a *scan*
rebuilds.

This directory holds TLA+ specifications of that code, TLC configurations, and TLAPS proofs.
`PROJECT.json` is the index: components, runs, mutants, the line map, findings, hazards, theorems.
Paths below are relative to `src/src/providers/Array-Profile/` unless they say otherwise; SCS stands for
`StorageConfigurationService.c`.

## 1. Inventory

| component | code | state | operations | modelled in |
|---|---|---|---|---|
| storage configuration service | SCS | goes through all the state below | `CreateOrModifyStoragePool`, `CreateOrModifyElementFromStoragePool`, `DeleteStoragePool`, `ReturnToStoragePool`, `ScanStorage` | `StorageConfigurationService` (concatenated pools and volumes), `RaidPool` (pools of every goal) |
| storage scan | SCS 2200–4300, 6200–6530 | `SCSNeedToScan`, the arrays | `SCSScanStorage`, `Process…` | `StorageScan`; with failing queries: `StorageConfigurationService` |
| pools, volumes, extents | `StoragePool.c`, `StorageVolume.c`, `StorageExtent.c` | `PoolArray`, `VolumeArray`, `ExtentArray`, their associations | find, add, remove; supported sizes; names; partition and unpartition; paths and instances | `StorageScan`, `RaidPool`, `ArrayProvider`; the arrays: `ObjectArray` |
| capabilities and settings | `StorageCapability.c`, `StorageSetting.c` | `CapabilityArray`, `SettingArray` | create setting, modify setting, match goal, paths and instances | `StorageScan` (what a scan makes), `ArrayProvider` |
| entry points | `ArrayProvider.c` | – | `EnumInstances`, `EnumInstanceNames`, `GetInstance`, `SetInstance`, associations, `InvokeMethod`, `Initialize`, `Cleanup` | `ArrayProvider`; scan, dispatch and reload in `StorageConfigurationService` |
| `smsetup.conf` | SCS 100–290 | `currPool`, `currCap` (static) | `WriteLineCallback` | its three outcomes |
| snapshots and copy services | `LvmCopyServices.c`, `CopyServicesExtrinsic.c`, `../copy-services-profile/` | – (asks libstorage and the arrays) | `CreateReplica`, `ModifySynchronization`, enumerations, navigation, deletion | `CopyServices` |
| server profile | `../server-profile/` | fixed instances; the object manager of the broker | enumerations, associations | `ServerProfile` |
| health state | `Utils.c` | – | two mappings, the trace | no |
| libstorage | external | staged and committed storage | partitions, RAID devices, groups, logical volumes, `commit` | `LibStorage` (bytes), `DiskLayout` (offsets and devices) |

**How they interact.** A request enters `ArrayProvider.c`, which scans if `SCSNeedToScan` is set and dispatches.
The extrinsic methods look object paths up in the arrays, decide *from the arrays*, act *on libstorage* (each
libstorage call stages a change; `s->commit()` writes it), and scan again. `vgrename` and `lvrename` are run with
`system()`, behind libstorage's back. Nothing is kept on disk by the providers themselves except through
libstorage; the arrays die with the process, which the broker may unload (`Cleanup`) or restart. The copy services
provider is a second library: it calls functions of the first, so that it has arrays of its own (never filled) or,
in one process, the same ones. The server profile shares nothing with the rest.

**What is hard.** Decisions from a cache that only a scan refreshes; two views of the disk (staged and
committed) and commits whose failure is ignored; methods that call each other (a modification is a deletion, a
scan and a creation; a volume in the primordial pool is first a pool) and keep pointers across the scans; RAID
devices built in several commits, and recognized by the scan from their members alone; offsets computed from sums;
many failing branches in the middle of a change; sizes in bytes and in kilobytes; several hand-written walks over
the same associations; processes that end anywhere. The full list, each at its line, is `hazards` in `PROJECT.json`.

**What makes each part correct.** Service: a method asks for no more than there is; what it answers is on the
disk; a pool has the redundancy it was created with; a pool with volumes is not destroyed; a deletion leaves
nothing; every request is answered. Scan: outside a request the arrays are what a scan would produce, and the
accounts of space agree. Arrays: an object found is live, all objects added are found. Entry points: names are
those of the instances, each name can be got, an association is seen from both ends, reading changes nothing. Copy
services: a replica is of the volume it was asked of; a failed copy changes nothing. These are the properties the
modules state.

## 2. The modules

```
LibStorage <- StorageConfigurationService <- ..._proofs <- ..._safety
Catalogue  <- ObjectArray <- ..._proofs
DiskLayout <- StorageScan <- RaidPool <- ArrayProvider
                  |             |             |
              ..._proofs <- ..._proofs <- ..._proofs
CopyServices <- ..._proofs      ServerProfile <- ..._proofs
```

`MC…` modules instantiate them for TLC.

### `LibStorage`

The external library as operators on a storage record: free space, partitions in no group (`orphan`), and the
size, free extents and logical volumes of each group. One operator per call of the provider. The partitions of a
request are one lump of bytes: offsets and devices are abstracted.

### `StorageConfigurationService`

| variable | code |
|---|---|
| `lib`, `disk` | what libstorage holds with its staged changes, and what is committed |
| `stale` | `vgrename` changed the disk and libstorage was not told |
| `conf` | what reading `smsetup.conf` yields: good, missing, without a pool |
| `cache` | the arrays of pools and volumes: which pools, `remainingSize`, `totalSize`, the pool each volume came from |
| `needScan` | `SCSNeedToScan` |
| `call` | the locals of the method in progress and the point it has reached |
| `reply` | the answer of the last method, or how the process ended |

One action per stretch of code up to the next library call that can fail or be followed by the end of the
process. A method is a chain of them, and the calls between methods are kept: `CreateOrModifyStoragePool` is
`ResolvePool → Find → Partition → CreateComposition → ScanAfterPool`; with a `Pool`, `Delete → RemoveVg →
Unpartition → ScanAfterDelete → Find → …`, or, when the pool is in use, `Modify → (Find → Partition → Expand) →
RenamePool → Finish → ScanAfterPool`. A volume is `ResolveElement → (Nest → Find → …) → Carve → MakeLv →
ScanAndAnswer`, or `Resize → Relabel → ScanAndAnswer`. `Kill`, `Reinitialize` and `EditConf` are the
environment: the process ends anywhere, the broker unloads and reloads the provider, the administrator changes
the configuration. The exits that commit on the way of a refusal (a volume name that exists, a group that cannot be
renamed) do so in the model. Undefined behaviour is a choice: a number traced as a string (SCS 517) may or may not end the
process, a freed goal that is read may or may not.

Abstractions: goals are concatenations (JBOD) that the pool's default capability satisfies; there is one
primordial pool; a pool's partitions are one lump; the enumerations only read; a commit that fails, or that
libstorage makes with stale knowledge, writes nothing; one request at a time. `RaidPool` is the same service with
the first three the other way round.

### `Catalogue` and `ObjectArray`

The five global arrays of objects (`PoolArray`, `VolumeArray`, `ExtentArray`, `CapabilityArray`, `SettingArray`)
are five copies of one text that differ in two lines. Those are constants: `RemoveFrees`, the removal frees the
object that it takes out (pools, extents, capabilities), and `GrowthLoses`, the loop over the new slots assigns to
the array (volumes). `slots`, `max`, `num` are the array, its size and its count, `heap` says which object is
allocated where, `fate` is anything but `"Defined"` once the code has done what C leaves undefined, after which
nothing is claimed. `Add` is an allocation with `...sAdd` (`Insert` of a new ID, `Replace` of one that is there),
`Free` is `...sFree`; both are whole functions.

`Catalogue` is what callers rely on: a map from IDs to the object last added. `ObjectArray` implements it with
`entry` mapped to what `...sFind` returns. The other modules use the arrays as such maps.

### `DiskLayout`

libstorage again, this time with the partitions of each disk at their offsets, the software RAID devices
(`level`, members, size; a member may be a RAID device), the groups and their logical volumes. One operator per
library call with the condition under which the library can do it: a partition must not overlap another, a member
or a group must not be used by anything, a device in use is not removed.

### `StorageScan`

`SCSScanStorage` as a function from a layout to the graph of objects the provider builds: pools with total,
remaining size and capability, extents with their pool, volumes, `based` (BasedOn), `alloc` (AllocatedFrom).
`ProcessPartition`, `ProcessRegion`, the three `ProcessMDRaid…Region`, `ProcessContainer` and `ProcessVolume`
follow the code's recursion over disks and partitions in its order, since each of them looks at what the earlier
ones have made: whether the extent of a RAID device exists, whether it has dependents, which pool they are in. The
scan reads through NULL in one place (a mirror of more than two members that is in no pool);
`defined` is `FALSE` from then on and the provider's process ends.

Other than in `StorageConfigurationService` the queries of this scan succeed; what a failing one leaves is modelled
there.

### `RaidPool`

Creation and deletion of pools for every goal, down to partitions and devices.

| variable | code |
|---|---|
| `lib`, `disk` | the layout libstorage has, and what is committed |
| `graph` | the global arrays, as `StorageScan` makes them |
| `needScan` | `SCSNeedToScan` |
| `call` | the locals of the method: `plan` the extents still to be cut, `devs` the devices cut, `mirrors` those of a RAID 10, `rc` |
| `reply` | the answer |
| `served` | requests so far, bounded by `MaxRequests` |

A creation is `RequestCreate → (Enter) → RefuseGoalOrSize | ChooseExtents → ExtentPartition* → Create…Composition →
ScanAndAnswer`. `ChooseExtents` is the code from the search of a pool to the selection: `GetSupportedSizeRange`,
`PoolsFindByGoal`, `GetAvailableExtents`, `SelectJBODExtents`, `SelectRAIDExtents` are operators with the code's
case distinctions; where the code reads a number it never set, the value is 0 or `Garbage`. `ExtentPartition` cuts
one extent, at the offset the code computes, and commits; a failure leaves the extent itself in the list, as the
code does. RAID 10 is `CreateMirror` per mirror, each committed, then `CreateStripe`, and `DeleteRAID1Composition`
per mirror when one of them fails. A composition that fails may end the process instead, for its number is traced as a
string (SCS 592, 671), and the clean-up reads the entries of mirrors that were never made (SCS 793). A deletion is `RefuseUsedPool | RemoveGroup → RemoveNext* → Removed →
ScanAndAnswer`: the devices to remove (`Removals`) are read from the graph in the order of the code's loops.
`UsePool` stands for the volumes of the other module and matters only in that it makes a pool in use. `LibraryFails`
says which library calls may fail that could be done; with `ProcessEnds` the process may end before any step.

### `ArrayProvider`

Extends `RaidPool` by what clients see of it and by the settings they make. `settings` is `SettingArray`.
`CapabilityCreateSetting` and `SetInstance` are a client's steps, a creation then takes its goal from a setting
(`CreateByGoal`); every scan keeps the settings of volumes only (`Rescanned`). The reading entry points are
functions of the state: `EnumInstanceNames`, `EnumInstances`, `GetInstance` and `doReferences`, per class as in the
code, each of the four written out separately because the code has four separate texts. An object is `<<class,
key>>`, an association `<<class, left, right>>`, an instance is its name and what it shows. `ShowCapability` is the
one reading that writes (`CapabilityCreateInstance` sets attributes of the capability before it shows it).
Classes are without their prefix; the broker's class hierarchy is two levels (`Derived`).

### `ServerProfile`

What the provider registers: three profiles, three subprofiles, two software identities and their associations. The
object manager is asked from the broker at each answer, and there may be none, one or several (`managers`). A client
enumerates, gets or follows an association from an object it `held`; `answer` is the last answer, and `alive` is
`FALSE` once an answer has read through NULL. As in `ArrayProvider` the four entry points are four functions.

### `CopyServices`

`CreateReplica` as steps `CreateReplica → Refuse | TakeSnapshot → ScanAndAnswer`, with `lib`, `disk`, `array` (the
group of each volume in `VolumeArray`), `needScan`, `call`, `reply`; `ReturnToStoragePool` for what it makes; and the
copy services provider: its enumerations, `GetInstance`, `DeleteInstance` and four navigations as functions to a *set*
of answers, since most of its helpers leave something undefined. An unset pointer or a name written past its buffer (20
bytes for a group, `LongVgs`, and 50 for an `ElementName`, `LongElements`) may end the process; a name or a list of names that is freed
before it is returned is then any volume's or none. Whether a volume is an origin is asked of the kernel, so of `disk`; the
snapshots of a source are listed by the library, so from `lib`. Queries and commits may fail, and a snapshot of a
snapshot is staged and then refused by LVM at the commit. `DeleteInstance` never removes a replica: it writes through NULL or, when the
volume is not found, fails and commits what is staged. `together` says whether both providers are in one process: then
one that dies takes the other with it, and otherwise the arrays the copy services provider sees are empty. `service`
says whether the array provider is registered, so that the broker finds its objects.

## 3. The runs

Bounds are constants of the configurations, named below; `MaxRequests`, `MaxSettings` and `Offered` bound what
clients do, the others are sizes of the instance.

**Service** (`MCStorageConfigurationService`). Volume groups `a`, `b`, volume names `x`, `y`, 8 bytes of disk (6 in
`faults`), the smallest volume 2 bytes and a kilobyte 2 bytes. Two pools of 4 or one of 8 fit, a pool holds two
volumes, there is a size that does not fit and a pool that has no room left; kilobytes and bytes differ; a failing
series of partitions leaves `Grain` = 2 bytes. Two groups and two volume names are what the properties relate: the
wrong pool, the wrong volume, a name in both groups. `MCAll` and `MCCareless` list the requests offered, in
`Offered`. A scan misses at most one group and the volumes of at most one.

| run | asks | shows |
|---|---|---|
| `sound` | `TypeOK`, `CacheMirrorsLib`, `RequestsFit`, `AnswerIsDurable`, `DeletedPoolIsGone`, `VolumesSurvive` | with crashes, reloads, edits of `smsetup.conf` and failing library operations, as long as queries and commits succeed and volumes get fresh names, all hold (777 628 states) |
| `faults` | `CacheMirrorsLib`, `EveryCallReturns` | also with failing queries and commits and careless clients (172 654 states) |
| `shared_names` | `VolumesSurvive` | *violated*: one name in two pools, the scan ignores the second volume and its pool can be deleted |

The switches `ClientRenamesFresh`, `QueriesFail` and `CommitFails` are constants so that the same module serves
the runs in which a property needs an assumption and the runs that show the assumption is needed.

**Arrays** (`MCObjectArray`). Four IDs over chunks of two slots, so that the array is allocated, filled and grown,
and five addresses, so that a full array of four has one left to replace an object with. Slots are looked through in
order, and two chunks show what more of them would. The array of volumes has the same text but for the loop over the new
slots (`GrowthLoses`): its first growth loses it, as one addition too many shows, and no run is spent on that.

| run | asks | shows |
|---|---|---|
| `arrays` | `LoopsMeetAll`, `ImplementsCatalogue`, `AddPuts` | the array of settings, whose two lines are right: loops from 0 to size meet every live object once, and it is a map (4 581 states) |

**Pools of every goal** (`MCRaidPool`). Four disks of 40 bytes: what a stripe over two mirrors needs, one more than
RAID 5 needs, and enough for a second pool beside each other one. Two groups; goals for JBOD, RAID 0, 1 (two and
three members), 10 and 5, one that is not supported and one that has a size and no branch; sizes 0 (as much as there
is), one below the smallest, one that fits a disk and one that does not. A kilobyte is 2 bytes, so that sizes that
are divided by stripes are rounded. Four RAID device numbers: two mirrors and a stripe, and one more. Two levels of
devices are all that the code builds. In `raid_faults` one group and fewer goals pay for failures at any cut, device
and clean-up and for the end of the process at any step, over three requests: a creation that fails, one that meets
what it left, and a deletion. A size of 27 is odd and is cut from one disk or rounded over two.

| run | asks | shows |
|---|---|---|
| `raid` | `TypeOK`, `RedundancyIsReal`, `SpaceIsAccountedFor`, `PoolIsAsAsked`, `GrantedExtentsCanBeCut`, `DeletionIsComplete`, `EveryCallReturns` | four requests, the library doing what it can: redundancy is over distinct disks, the accounts of space agree, a pool is what was asked for, deletions leave nothing (126 145 states) |
| `raid_faults` | `SpaceIsAccountedFor`, `PoolIsAsAsked`, `DeletionIsComplete`, `EveryCallReturns` | also with failures and ends of the process (316 063 states) |
| `granted` | `GrantedIsCreated` | *violated*, for requests of the primordial pool: `p` and `q` lie one behind the other on a disk, `p` is deleted and made again; its size is granted, and the offset computed for it lies inside `q` |
| `mirrors` | `FailureLeavesNoMirrors` | *violated*: the clean-up of a RAID 10 does not remove the stripe, so the mirrors stay |

**Navigation** (`MCArrayProvider`). The same disks with one group, which exercises every shape of extent; a logical
disk `LD_x` and a storage volume `sv`; three requests and two settings a client has made. Every class and every object
of each state between two calls is enumerated, got and followed.

| run | asks | shows |
|---|---|---|
| `navigation` | `SettingsAreAnchored`, `NamesAreInstances`, `NamesCanBeGot`, `EndsAgree`, `RolesSelectEnds`, `DisksAreReached`, `ShowingChangesNothing` | the four texts agree, in the cases the comments of the properties do not except, and a client gets from a volume down to the disks of the primordial pool (10 086 states; it ends when its requests are used up, so deadlock is not checked) |
| `shown` | `ExtentsCanBeShown` | *violated*, two requests with `"compose"` failing: a RAID 10 whose group fails leaves its stripe and mirrors; the instance of a mirror is then built from the pool of the stripe, which is NULL |

**Server profile** (`SP_sound.cfg`, without an MC module). Two managers, so that there may be none, one, and two in either
order.

| run | asks | shows |
|---|---|---|
| `server` | `TypeOK`, `ProfileNamesAreInstances`, `ProfileNamesCanBeGot`, `ProfileEndsAgree`, `ProfileRolesSelectEnds`, `EverythingIsDiscovered` | with an object manager the associations agree, and without one a client still discovers every profile and software (1 005 states; an answer through NULL ends it, so deadlock is not checked) |

**Copy services** (`MCCopyServices`). Two groups, one with a long name, one with room for two replicas; a logical disk
and a storage volume; two names. A copy of a copy and a second copy of a source are asked for.

| run | asks | shows |
|---|---|---|
| `copy` | `ReplicasAreOfSources`, `AnsweredReplicaIsShown`, `OnlyAnsweredChanges` | with failing queries and commits and ends of the process at every step: every replica lies beside a source of its size and class, in the library and on the disk; what is answered is in the library and the arrays; nothing else changes (16 032 states) |

No property says what the copy services provider shows: after the freed lists of its helpers that is any pair of volumes.

**Fairness.** `WF_vars(Serve)` in `StorageConfigurationService`, and in `RaidPool` the same for `Step`, written without
ENABLED: infinitely often no call is in progress or a step is taken that is not a request. The broker's thread runs
the request and none of its calls waits for another, so this is the scheduling of one thread. `Kill`, `Stopped` and
the environment have no fairness. `EveryCallReturns` excludes a chain of methods that call each other, or of
retries, without end.

**Mutants.** Every property of the passing runs has a mutant in its module (`Mutant…`, next to the definition it
replaces): a change a careless edit of the code could make, under which TLC finds the property violated.

**Disagreements that no run checks.** Met while modelling, each one call deep, so that a test shows them as well as a
model:

- Service: a failed `getLvmLvInfo` makes a pool look unused, and it can be deleted with its volumes (SCS 4260); a commit that
  fails is traced, and the request answered as done (SCS 522 and every other exit), so a restart loses it; after
  `vgrename` the arrays show the old name until the process restarts (SCS 968); after the provider was unloaded and
  initialized again in one process the arrays are empty and no scan is due; a generated volume name is compared
  without its prefix (SCS 5034); the largest supported size is computed and not returned (SCS 4395); a modification reads
  the name of a goal its scan may have freed (SCS 4689); the volume in the primordial pool that `src/README` calls not
  supported is carried out (SCS 4930).
- Arrays: a pool, extent or capability whose ID is added again is freed twice (`StoragePool.c` 1417); the 65th volume of a
  host finds the array of volumes NULL, for the loop over the new slots assigns to the array (`StorageVolume.c` 1037).
- Pools: the branch marked "WE SHOULD NEVER GET HERE" (SCS 4659) is reached by a concatenation whose
  parity layout differs from the pool's; a RAID device that cannot be removed does not fail the deletion when the next
  one can (SCS 5266).
- Entry points: device associations name the wrong class in their instances; the setting of a storage volume is
  not found from the volume.
- Copy services: 16 replicas of a source are announced (`StorageReplicationCapabilities.c` 170) and a second one is refused,
  or ends the process; a replica of a replica is not, though `CopyServicesExtrinsic.c` 197 says so and the depth announced is 1
  (`StorageReplicationCapabilities.c` 176): the test asks whether the *source* has replicas. LVM refuses it at the commit,
  which is only traced, so it is answered as made and stays staged until the process ends.

## 4. The proofs

For every set of names, disks, groups and goals, any sizes and requests, and every combination of the switches not
excluded. `X` is the property that a run checks.

| theorem | says |
|---|---|
| *`StorageConfigurationService_proofs`, `..._safety`* | |
| `TypeCorrect` | `TypeOK` |
| `CacheFollows` | `CacheMirrorsLib`, whatever fails |
| `AnswersAreDurable` | if commits succeed, `AnswerIsDurable` |
| `RequestsAlwaysFit` | if queries succeed, `RequestsFit` |
| `DeletedPoolsAreGone` | if commits succeed, `DeletedPoolIsGone` |
| `PoolsKeepVolumes` | if queries succeed and volumes get fresh names, `VolumesSurvive` |
| *`ObjectArray_proofs`* | |
| `LoopsAreComplete` | `LoopsMeetAll`, for all five arrays and any chunk |
| `AddsPut` | `AddPuts`: an addition is `Put` of the catalogue |
| `CatalogueIsImplemented` | `ImplementsCatalogue`: the refinement |
| *`StorageScan_proofs`* | |
| `FreeExtentsOfScan` | of any layout: what a scan leaves in the primordial pool with nothing based on it is free space of a disk |
| `LinkedAfterScan` | of any layout: what a scan makes hangs together, and the search for the pool of an extent ends |
| `SpaceAfterScan` | of any layout: the free space a scan shows of a disk is what its partitions leave, if names differ (`NamesDiffer`) |
| *`RaidPool_proofs`* | |
| `RaidPoolSound` | the inductive invariant `RaidInv` |
| `LayoutsAreTyped` | `TypeOK`: partitions never overlap, and no scan reads through NULL |
| `RedundancyIsAlwaysReal` | `RedundancyIsReal`, whatever fails and wherever the process ends |
| `DeletionsAreComplete` | `DeletionIsComplete`, if the library removes what it can |
| `GrantedExtentsCanAlwaysBeCut` | `GrantedExtentsCanBeCut`, whatever fails and wherever the process ends, if names differ (`NamesDiffer`) |
| *`ArrayProvider_proofs`* | |
| `NavigationSound` | the inductive invariant `NavInv` |
| `SettingsAreAlwaysAnchored` | `SettingsAreAnchored` |
| `NamesAreAlwaysInstances`, `NamesCanAlwaysBeGotFromArrays` | `NamesAreInstances`, `NamesCanBeGot` |
| `EndsAlwaysAgreeInArrays`, `RolesAlwaysSelectEndsInArrays` | `EndsAgree`, `RolesSelectEnds` |
| `ShowingNeverChanges` | `ShowingChangesNothing`, if the capability of `smsetup.conf` has no single point of failure when its parity says so |
| `DisksAreAlwaysReached` | `DisksAreReached`, whatever fails and wherever the process ends |
| `OnlyMirrorsOfLooseStripesHide` | every extent can be shown but a RAID device under a RAID device in no pool, whatever fails and wherever the process ends: the case of the run `shown` is the only one |
| *`CopyServices_proofs`* | |
| `CopyServicesSound` | the inductive invariant `CopyInv` |
| `ReplicasAreAlwaysOfSources` | `ReplicasAreOfSources`, in the library and on the disk, whatever fails |
| `OnlyAnsweredRequestsChange` | `OnlyAnsweredChanges` |
| `AnsweredReplicaIsAlwaysShown` | `AnsweredReplicaIsShown`, if the volumes at the start have different names |
| *`ServerProfile_proofs`* | |
| `ServerProfileTyped` | `TypeOK` |
| `NamesAreAlwaysInstances`, `NamesCanAlwaysBeGot` | `ProfileNamesAreInstances`, `ProfileNamesCanBeGot` |
| `EndsAlwaysAgree`, `RolesAlwaysSelectEnds` | `ProfileEndsAgree`, `ProfileRolesSelectEnds` |
| `EverythingIsAlwaysDiscovered` | `EverythingIsDiscovered`, with and without an object manager |

The assumptions on the constants are those of the modules: sizes are natural numbers, the smallest volume and the
kilobyte are not zero, `NULL` and `EMPTY` are not names, the primordial pool has a name of its own, the offered
requests are requests. Each preservation proof has a step per action.

**Service.** `TypeOK` is not inductive: it says that no size goes below zero, which needs what a step knows of the
request in progress. `TypeInv` adds `Parameters` (which parameters a method at a given step has) and `Named` (a
step that names a group or a volume has one). `CacheMirrorsLib` holds between requests only; its invariant adds
that a request that has changed nothing yet still has mirroring arrays (`BeforeChanges`, `Mirrors`), and that
every step after a change leads to a scan. `AnswerIsDurable` adds `Staged`: the steps at which a staged change may
exist. `RequestsFit` adds `ComparedInv`: where a size was compared with the arrays and the arrays still mirror
the library. `DeletedPoolIsGone` adds `DeleteInv`, which follows the deleted group from its removal in the
library over the partitions to the commit and the scan. `VolumesSurvive` adds `Tidy`: volume names are
unique over the groups, in the library and on the disk, and every volume is `Housed` in a group that exists, so that
a pool the arrays call unused has none.

**Arrays.** The theorems rest on `ArrayInv`: `Compact` (the objects are in the first `num` slots, which `Size`
and `Get` count on and the code nowhere says), no object in two slots, no ID twice, and the live objects are those
in the array. A replacement leaves a hole for one moment inside `...sAdd`, and the search for an empty slot fills
that hole and no other: this is why the order of removal and search matters.

**Scan.** `SCSScanStorage` is a function of the layout, so that what it leaves is a lemma. `Keeps` says what each
`Process…` function may not do (put anything but free space of a disk into the primordial pool, undo that something is
based on something) and is carried through the walk over disks and partitions. `Linked` says that the graph has no loose
ends. `ExtentGetPool` climbs from an extent to what it is based on until it meets a pool: this ends because each
association BasedOn leads to something of a smaller `Height` (disk, partition, mirror, other RAID device, group, what is left
in it), which is proved of every association the scan adds. The walks are recursive functions over the index of a disk or a
partition. The induction theorems of the library cannot be used here, so induction is by the smallest index at which a
claim would fail (`LeastNumber`); the existence of the recursive functions is proved the same way.

**Pools of every goal.** `RaidInv` adds to `TypeOK`: members of devices are partitions, or mirrors in a stripe
(`MembersOK`); the partitions of a layout, staged or committed, do not overlap (`PartsOK`); what is free in the graph is
free space of a disk (`GraphInv`, from `FreeExtentsOfScan`); and for a call that builds a RAID device, that the
devices cut so far and the extents still to be cut are on disks that all differ, and the mirrors made so far are
disjoint slices of the devices (`RaidCall`). The last is what makes redundancy real: `SelectRAIDExtents` takes each
extent once, a disk has one extent of free space, and a partition that cannot be cut leaves the extent itself in the
list, of which no device can be made.

`DeletionsAreComplete` follows a deletion from what the code reads off the arrays to what is left on the disks. The
arrays picture the layout when the removal starts (`Pictures`: an extent per device and partition, BasedOn between a
device and its members); `Leaves` says that the calls still to be made hold all that is left of the pool, and
`UsersFirst` that none comes before a call that removes what uses its device, so that the library refuses none
(`DeletionInv`). `Removals` goes down from the composite of the pool over what is below each extent, and the proof is
that this order is one the library allows: the stripe before its mirrors, a mirror before its partitions.
The theorem assumes that `"remove"` is not among `LibraryFails`: each `removeMd` assigns the same `rc`, so that a failure is
forgotten when the next one succeeds, and TLC then finds a deletion that succeeds and leaves a device.

`GrantedExtentsCanAlwaysBeCut` is about what is promised from the arrays and cut from the disks. `SpaceAfterScan` says that
the scan leaves the free extent of a disk as large as the disk without its partitions (`Taken`), through every `Process…`
function: `Spares` says what each may not do to extents of disks, `ProcessPartition` takes the size of its partition, and
each partition has its turn once. Its sum, a fold of the community modules, is shown to be a function (`Total`) from which
any summand can be taken first. From that extent the two choices take at most its size (`PlanFits`): in JBOD the last piece
is the smaller of what is there and what is still wanted. `SpaceInv` carries this through the cuts: a plan takes from a disk
once, so that cutting one piece leaves what the next ones rely on. `Packed` cannot be left out: see the run `granted`.
`NamesDiffer` says that no disk is listed twice in `smsetup.conf`, for the second scan of a disk would begin with its whole size
as free space again and find the extents of its partitions already there, and that no group has the name of a disk, for both would call their free space the same
(`<name>Freespace`). The code refuses neither; the names of every run here differ.

**Entry points.** `NavInv` adds to `RaidInv` that the graph is `Navigable` (what `Linked` says, without the layout)
and the settings are `Anchored`. What is enumerated, got and found is written out per class, and so are the lemmas:
what each enumeration answers (`NamesOfEach…`, `Each…`), what each name gets (`Gets…`), and what is found from an
end (`References…`). That nothing is found from other objects needs that an object is one of a known kind
(`ObjectKinds`), and that no association joins an object with itself (`EndsAreApart`).

`DisksAreReached` is about paths. From every extent that is no disk there is a step down (`DevicesInv`: the members of a
device are in the layout, so the scan has made their extents), and each step leads to one of smaller `Height`, so that
the paths end, within six steps, and at disks, which are in the primordial pool. This holds in every layout that `Next` can
leave, whole or broken off.

`OnlyMirrorsOfLooseStripesHide` is about `ExtentCreateInstance`, which looks for a pool elsewhere when an extent has none of
its own. Only partitions and RAID devices have none (`InNoPool`). A partition shows the pool of its disk, which is primordial;
a device shows that of its one dependent, and the dependent of a device is a free extent or a group's, which are in a
pool, or another device, which may be in none (`UnderLooseDevice`). A library that makes the stripe and not its group, or removes the group
and not the stripe, leaves just that, and the run `shown` has TLC reach it.

**Copy services.** `CopyInv` says that names are unique in their group, that every snapshot is of a volume beside it, as
large and of its class (`SourcesThere`), staged and committed, and that a call at a given step has passed the tests before it. A
volume with replicas is not removed and a name in use not taken again, so the source of a replica stays what it was,
also when a commit writes nothing and the process starts again from the disk. A replica of a replica is not excluded: only
that LVM never commits one.

**Server profile.** `TypeOK` suffices: every property is one of all states with managers in some order.

What the proofs showed about the model. The branches of `CreateOrModifyStoragePool` were a CASE whose guards overlap:
TLC takes the first that holds, TLA+ any of them, and so the branch on the pool's default now comes before the CASE.
`UNION` beside `\cup` is read in two ways by the tools, and is not used without a set constructor of its own. A class
of an extent was compared with `=` where only `<=>` is defined for any value. The folds of the scan, which the provers
cannot unfold, became recursive functions, and the choice of extents for a RAID device a set of sequences without sorting.

**Only model-checked.** The two `EveryCallReturns` (liveness and its fairness: ENABLED is out of the prover's reach),
and what the violation runs refute. `SpaceIsAccountedFor` and `PoolIsAsAsked`: they compare what each `Process…Region`
takes from and gives to a pool, over devices of two levels, with sums over extents and allocations.

## 5. Plan

In order of importance.

1. Proofs: the accounts of `SpaceIsAccountedFor`, from `SpaceAfterScan` and the lemmas about sums (`Totals`).
2. An abstract specification of what a client sees (pools that hold volumes, each request atomic, a failure
   changing nothing but free space), refined by `StorageConfigurationService` without the failures that the violation
   runs show.
3. Modification and expansion of RAID pools in `RaidPool`.
4. `ConfFile`: `WriteLineCallback` over files of up to five lines, with its static variables at a second reading.

## 6. Not modelled, and why

Two requests at once: a broker may have several threads and no lock is taken, so the first array that one thread frees
and another reads ends the process; no property of the code would survive. Code that is not compiled: the text between
`#if 0` or in comments, which is half of `ArrayProvider.c` (1961–2073, 3833–4072, 4490–4730, 4875–4984, 5025–7390,
7425–9807) and the EVMS part of SCS. `ModifySynchronization`, reset and rollback answer that they are not supported.
`cs_get_percent_full` has no caller. `PoolInvokeMethod` only reads `GetSupportedSizeRange`. `Utils.c`: two mappings of
a status to a text, and the trace. `malloc` that fails: every use is traced and then dereferenced or skipped, which
a model would only repeat. Tracing, the building of CIM instances and the parsing of object paths: no property depends
on their text beyond the name and the few values they carry; ranges and hints of a setting are one value. The text of
`smsetup.conf`. Names longer than the other buffers (those of a group and of an `ElementName` in the copy services are
modelled) and `CreateReplica` without its arguments, which read and write where C leaves it open. Expansion and modification of RAID pools,
which go through `CreateOrModifyStoragePool` with a pool in use, are modelled for concatenations only. Liveness and its
fairness are checked and not proved: ENABLED is out of the prover's reach.
