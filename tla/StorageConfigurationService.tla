-------------------- MODULE StorageConfigurationService --------------------
(***************************************************************************)
(* The extrinsic methods of the storage configuration service: pools and   *)
(* volumes are created, modified, deleted and returned through libstorage, *)
(* and the provider's model of the storage is rebuilt by a scan.           *)
(*                                                                         *)
(* One request is served at a time.  A request is a chain of steps, one    *)
(* per library call that can fail or that leaves something behind when the *)
(* process dies.  The pools are concatenations (JBOD goals) over one       *)
(* primordial pool, whose partitions are taken together.                   *)
(***************************************************************************)
EXTENDS LibStorage

CONSTANTS
    NULL,               \* a null pointer, an absent parameter
    EMPTY,              \* the empty string
    Primordial,         \* the pool of smsetup.conf
    MinVolumeSize,      \* MIN_VOLUME_SIZE, also the unit of createLvmLv
    OneKB,              \* bytes in a kilobyte
    Offered,            \* bound: the requests clients make
    Grain,              \* bound: what a failing series of partitions leaves
    GenVol,             \* the volume name generated in each pool
    ClientRenamesFresh, \* clients rename volumes to names used nowhere
    QueriesFail,        \* getContLvmVgInfo and getLvmLvInfo may fail
    CommitFails         \* commit may fail

ASSUME SizesAssumption ==
    /\ MinVolumeSize \in Nat \ {0}
    /\ OneKB \in Nat \ {0}
    /\ Grain \in Nat
ASSUME NamesAssumption ==
    /\ GenVol \in [VgNames -> LvNames]
    /\ NULL \notin VgNames \cup LvNames \cup {EMPTY, Primordial}
    /\ Primordial \notin VgNames
    /\ EMPTY \notin LvNames
ASSUME SwitchesAssumption ==
    {ClientRenamesFresh, QueriesFail, CommitFails} \subseteq BOOLEAN

VARIABLES
    lib,        \* the storage as libstorage sees it, staged changes included
    disk,       \* the storage as committed
    stale,      \* vgrename changed the disk and libstorage was not told
    conf,       \* smsetup.conf: "ok", "missing" or "empty"
    cache,      \* the provider's arrays of pools and volumes
    needScan,   \* SCSNeedToScan
    call,       \* the request in progress
    reply       \* what the last request answered

vars == <<lib, disk, stale, conf, cache, needScan, call, reply>>
storage == <<lib, disk, stale>>
model == <<cache, needScan>>

Pools == VgNames \cup {Primordial}

(***************************************************************************)
(* The provider's model.  Sizes of volumes and of the primordial pool are  *)
(* in bytes, those of the other pools in kilobytes.                        *)
(***************************************************************************)
EmptyCache ==
    [loaded |-> FALSE, pools |-> {}, pfree |-> 0,
     free |-> [v \in VgNames |-> 0], total |-> [v \in VgNames |-> 0],
     owner |-> [l \in LvNames |-> NULL], volSize |-> [l \in LvNames |-> 0]]

\* What a scan can make of storage st.  The query about group hidden fails
\* and the group is not seen, its partitions not subtracted; the query about
\* the volumes of group mute fails and they are not seen.  Bound: at most one
\* of each.  The first group to show a volume name owns the volume: the same
\* name in a later group is ignored.
ScanResults(st, hidden, mute) ==
    LET seen == {v \in VgNames : VgExists(st, v)} \ {hidden}
        heard(l) == {v \in seen \ {mute} : l \in LvsIn(st, v)}
        owners == {o \in [LvNames -> VgNames \cup {NULL}] :
                     \A l \in LvNames :
                        IF heard(l) = {} THEN o[l] = NULL ELSE o[l] \in heard(l)}
    IN  {[loaded |-> TRUE,
          pools  |-> seen,
          pfree  |-> st.free + (IF hidden \in VgNames THEN st.size[hidden] ELSE 0),
          free   |-> [v \in VgNames |-> IF v \in seen THEN st.pefree[v] \div OneKB ELSE 0],
          total  |-> [v \in VgNames |-> IF v \in seen THEN st.size[v] \div OneKB ELSE 0],
          owner  |-> o,
          volSize |-> [l \in LvNames |-> IF o[l] \in VgNames THEN st.lvs[o[l]][l] ELSE 0]] :
            o \in owners}

\* The groups a query can fail about.
Missed == {NULL} \cup (IF QueriesFail THEN VgNames ELSE {})

\* SCSScanStorage: the arrays are freed, then rebuilt from smsetup.conf and
\* the library.  SCSNeedToScan is cleared only when the end is reached.
ScanStorage ==
    \/ /\ conf = "ok"
       /\ \E hidden, mute \in Missed : cache' \in ScanResults(lib, hidden, mute)
       /\ needScan' = FALSE
    \/ /\ conf # "ok"
       /\ cache' = EmptyCache
       /\ UNCHANGED needScan

Remaining(p) == IF p = Primordial THEN cache.pfree ELSE cache.free[p]

\* PoolsFind and PoolsFindByName.
Holds(arrays, p) == IF p = Primordial THEN arrays.loaded ELSE p \in arrays.pools
Known(p) == Holds(cache, p)

VolumesOf(p) == {l \in LvNames : cache.owner[l] = p}

\* Mutant: only the pools allocated from a pool keep it from being deleted.
MutantInUse(p) == p = Primordial /\ cache.pools # {}

\* numDepPools > 0 or numDepVolumes > 0
InUse(p) == IF p = Primordial THEN cache.pools # {} ELSE VolumesOf(p) # {}

\* GetSupportedSizeRange for a goal the pool's default supports.
MaxSize(p) == IF Remaining(p) >= MinVolumeSize THEN Remaining(p) ELSE 0

\* Mutant: a pool has to have room, not enough room.
MutantSupports(p, size) == MaxSize(p) > 0

\* The test of PoolsFindByGoal and of the methods' given input pool.
Supports(p, size) == MaxSize(p) >= size /\ MaxSize(p) > 0

\* PoolsFindByGoal: the primordial pool comes first in the array.
PoolsFindByGoal(size) ==
    LET fits == {p \in Pools : Known(p) /\ Supports(p, size)}
    IN  IF Primordial \in fits THEN {Primordial} ELSE fits

\* PoolGenerateName: a name no pool in the array has.  Bound: once VgNames is
\* used up it is a name in use, and the library refuses the group.
GeneratedNames ==
    IF cache.pools = VgNames THEN VgNames ELSE VgNames \ cache.pools

(***************************************************************************)
(* Requests and replies.                                                   *)
(***************************************************************************)
Operations == {"Enumerate", "ScanStorage", "CreateOrModifyStoragePool",
               "CreateOrModifyElementFromStoragePool", "ReturnToStoragePool",
               "DeleteStoragePool"}

Steps == {"idle", "enter", "resolve",
          "delete", "removevg", "unpartition", "deleted",
          "find", "partition", "compose", "modify", "rename", "finish", "scan",
          "nest", "carve", "makelv", "resize", "relabel", "removelv", "volscan"}

Codes == {"OK", "FAILED", "INVALID_PARAM", "IN_USE", "SIZE_NOT_SUPPORTED",
          "NOT_SUPPORTED"}

\* How a request can end with the process, and not with an answer.
Deaths == {"killed", "traced number", "null pool", "null name", "null input pool", "freed goal"}

\* op    the method                     size   goalSize, in bytes
\* pc    the step that comes next       goal   a Goal setting was given
\* pool  Pool, InPool of a volume       part   partitions made or to unmake
\* in    InPools[0]                     vol    TheElement
\* name  the pool's name                elm    the volume's ElementName
\* rc    the code so far
NoCall == [op |-> "Enumerate", pc |-> "idle", pool |-> NULL, in |-> NULL,
           name |-> NULL, vol |-> NULL, elm |-> EMPTY, goal |-> FALSE,
           size |-> 0, part |-> 0, rc |-> "OK"]

NoReply == [op |-> "Enumerate", rc |-> "OK", pool |-> NULL, size |-> 0]

Requests ==
    [op : {"Enumerate", "ScanStorage"}, pool : {NULL}, in : {NULL}, name : {NULL},
     vol : {NULL}, elm : {EMPTY}, goal : {FALSE}, size : {0}]
    \cup
    [op : {"CreateOrModifyStoragePool"}, pool : Pools \cup {NULL},
     in : Pools \cup {NULL}, name : VgNames \cup {NULL},
     vol : {NULL}, elm : {EMPTY}, goal : BOOLEAN, size : Nat]
    \cup
    [op : {"CreateOrModifyElementFromStoragePool"}, pool : Pools \cup {NULL},
     in : {NULL}, name : {NULL}, vol : LvNames \cup {NULL},
     elm : LvNames \cup {NULL, EMPTY}, goal : BOOLEAN, size : Nat]
    \cup
    [op : {"ReturnToStoragePool"}, pool : {NULL}, in : {NULL}, name : {NULL},
     vol : LvNames, elm : {EMPTY}, goal : {FALSE}, size : {0}]
    \cup
    [op : {"DeleteStoragePool"}, pool : Pools \cup {NULL}, in : {NULL},
     name : {NULL}, vol : {NULL}, elm : {EMPTY}, goal : {FALSE}, size : {0}]

ASSUME OfferedAssumption == Offered \subseteq Requests

Idle == call.pc = "idle"

Goto(pc) == call' = [call EXCEPT !.pc = pc]

GotoWith(pc, rc) == call' = [call EXCEPT !.pc = pc, !.rc = rc]

\* The method returns.  Out parameter Size is the in parameter unless a pool
\* was found; only what the properties read of it is kept.
Answer(rc) ==
    /\ call' = NoCall
    /\ reply' = [op |-> call.op, rc |-> rc, pool |-> call.pool,
                 size |-> IF call.op = "CreateOrModifyStoragePool" THEN call.size ELSE 0]

\* s->commit(), whose failure every caller ignores.
Commit(st) ==
    /\ lib' = st
    /\ \/ disk' = IF stale THEN disk ELSE st
       \/ CommitFails /\ disk' = disk
    /\ UNCHANGED stale

\* The process ends in the middle of a request, or between two: the staged
\* changes and the arrays are lost.  The provider is loaded again, reads the
\* disk and has SCSNeedToScan set.
Die(reason) ==
    /\ lib' = disk
    /\ stale' = FALSE
    /\ cache' = EmptyCache
    /\ needScan' = TRUE
    /\ call' = NoCall
    /\ reply' = [NoReply EXCEPT !.rc = reason]
    /\ UNCHANGED <<disk, conf>>

(***************************************************************************)
(* InvokeMethod and the queries: scan if one is due, then dispatch.        *)
(***************************************************************************)
\* A client calls.
\* ClientRenamesFresh is about this step: the client picks for a volume it
\* modifies a name no volume has.
Invoke ==
    /\ Idle
    /\ \E r \in Offered :
        /\ (ClientRenamesFresh /\ r.vol # NULL /\ r.elm \in LvNames) =>
              \A v \in VgNames : r.elm \notin LvsIn(lib, v) \cup LvsIn(disk, v)
        /\ call' = [op |-> r.op, pc |-> IF needScan THEN "enter" ELSE "resolve",
                    pool |-> r.pool, in |-> r.in, name |-> r.name, vol |-> r.vol,
                    elm |-> r.elm, goal |-> r.goal, size |-> r.size,
                    part |-> 0, rc |-> "OK"]
    /\ reply' = NoReply
    /\ UNCHANGED <<storage, conf, model>>

\* The scan at the entry points; without smsetup.conf the request ends here.
Enter ==
    /\ call.pc = "enter"
    /\ ScanStorage
    /\ IF conf = "missing" THEN Answer("FAILED")
                           ELSE Goto("resolve") /\ UNCHANGED reply
    /\ UNCHANGED <<storage, conf>>

\* The enumerations and associations only read the arrays.
Enumerate ==
    /\ call.pc = "resolve" /\ call.op = "Enumerate"
    /\ Answer("OK")
    /\ UNCHANGED <<storage, conf, model>>

\* The extrinsic method ScanStorage.
RequestScan ==
    /\ call.pc = "resolve" /\ call.op = "ScanStorage"
    /\ Goto("volscan")
    /\ UNCHANGED <<storage, conf, model, reply>>

(***************************************************************************)
(* CreateOrModifyStoragePool                                               *)
(***************************************************************************)
\* The object paths are looked up in the arrays, then the size is checked.
ResolvePool ==
    /\ call.pc = "resolve" /\ call.op = "CreateOrModifyStoragePool"
    /\ LET found == /\ \A p \in {call.pool, call.in} : p = NULL \/ Known(p)
                    /\ call.goal => cache.loaded
       IN  \/ ~found /\ Answer("INVALID_PARAM")
           \/ /\ found /\ call.size # 0 /\ call.size < MinVolumeSize
              /\ Answer("SIZE_NOT_SUPPORTED")
           \/ /\ found /\ (call.size = 0 \/ call.size >= MinVolumeSize)
              /\ call' = [call EXCEPT
                            !.pc = IF call.pool = NULL THEN "find" ELSE "delete",
                            !.name = IF @ = NULL THEN call.pool ELSE @]
              /\ UNCHANGED reply
    /\ UNCHANGED <<storage, conf, model>>

\* An input pool that supports goal and size is found or checked, a size of
\* zero means all it has, and a pool without a name gets a generated one.
\* Also the first part of ModifyConcretePool's expansion, whose pool has its
\* name and whose failure still commits.
Find ==
    /\ call.pc = "find"
    /\ LET fits == IF call.in = NULL THEN PoolsFindByGoal(call.size)
                   ELSE {p \in {call.in} : Supports(p, call.size)}
       IN  \/ /\ fits = {}
              /\ GotoWith(IF call.pool = NULL THEN "scan" ELSE "finish",
                          "SIZE_NOT_SUPPORTED")
           \/ \E p \in fits :
              \E name \in IF call.name = NULL THEN GeneratedNames ELSE {call.name} :
                call' = [call EXCEPT !.pc = "partition", !.in = p, !.name = name,
                                     !.size = IF @ = 0 THEN MaxSize(p) ELSE @]
    /\ UNCHANGED <<storage, conf, model, reply>>

\* SelectJBODExtents: ExtentPartition cuts the size out of the free space of
\* the primordial pool and commits each partition.  A failure leaves those
\* made before it, and the name of no device in the list (part = 0); the
\* free space of a concrete pool cannot be partitioned.
Partition ==
    /\ call.pc = "partition"
    /\ \/ /\ call.in = Primordial /\ call.size <= lib.free
          /\ Commit(Partitioned(lib, call.size))
          /\ call' = [call EXCEPT !.pc = "compose", !.part = call.size]
       \/ /\ \E n \in {0, Grain} :
                /\ n = 0 \/ (call.in = Primordial /\ n < call.size /\ n <= lib.free)
                /\ Commit(Partitioned(lib, n))
          /\ call' = [call EXCEPT !.pc = "compose", !.part = 0]
    /\ UNCHANGED <<conf, model, reply>>

\* CreateJBODComposition: createLvmVg over the partitions, and commit.  A
\* failure is traced, its number formatted as a string: undefined, the
\* process may end there.
CreateComposition ==
    /\ call.pc = "compose" /\ call.pool = NULL
    /\ \/ /\ call.part > 0 /\ ~VgExists(lib, call.name)
          /\ Commit(VgCreated(lib, call.name, call.part))
          /\ call' = [call EXCEPT !.pc = "scan", !.part = 0]
          /\ UNCHANGED <<conf, model, reply>>
       \/ /\ Commit(lib)
          /\ call' = [call EXCEPT !.pc = "scan", !.part = 0, !.rc = "FAILED"]
          /\ UNCHANGED <<conf, model, reply>>
       \/ Die("traced number")

\* Mutant: any size is an expansion.
MutantModify ==
    /\ call.pc = "modify"
    /\ LET total == IF call.pool = Primordial THEN Capacity ELSE cache.total[call.pool]
       IN  call' = [call EXCEPT !.pc = "find", !.size = @ - total]
    /\ UNCHANGED <<storage, conf, model, reply>>

\* The in-use branch of a modification, ModifyConcretePool: a size beyond
\* totalSize expands the pool, a smaller one changes nothing.
Modify ==
    /\ call.pc = "modify"
    /\ LET total == IF call.pool = Primordial THEN Capacity ELSE cache.total[call.pool]
       IN  IF call.size > total
           THEN call' = [call EXCEPT !.pc = "find", !.size = @ - total]
           ELSE Goto("rename")
    /\ UNCHANGED <<storage, conf, model, reply>>

\* extendLvmVg is staged; a failure skips the rename.
Expand ==
    /\ call.pc = "compose" /\ call.pool # NULL
    /\ \/ /\ call.part > 0 /\ call.pool \in VgNames /\ VgExists(lib, call.pool)
          /\ lib' = VgExtended(lib, call.pool, call.part)
          /\ call' = [call EXCEPT !.pc = "rename", !.part = 0]
       \/ /\ UNCHANGED lib
          /\ call' = [call EXCEPT !.pc = "finish", !.part = 0, !.rc = "FAILED"]
    /\ UNCHANGED <<disk, stale, conf, model, reply>>

\* RenameStoragePool runs vgrename, which changes the disk, and commits, which
\* the library can no longer do: it keeps the old name.  When vgrename fails
\* the commit is that of what was staged.
RenamePool ==
    /\ call.pc = "rename"
    /\ \/ /\ call.name = call.pool
          /\ Goto("finish")
          /\ UNCHANGED storage
       \/ /\ call.name # call.pool /\ call.pool \in VgNames /\ call.name \in VgNames
          /\ VgExists(disk, call.pool) /\ ~VgExists(disk, call.name)
          /\ disk' = VgRenamed(disk, call.pool, call.name)
          /\ stale' = TRUE
          /\ Goto("finish")
          /\ UNCHANGED lib
       \/ /\ call.name # call.pool
          /\ Commit(lib)
          /\ GotoWith("finish", "FAILED")
    /\ UNCHANGED <<conf, model, reply>>

\* Mutant: no commit at the exit.
MutantFinish ==
    /\ call.pc = "finish"
    /\ Goto("scan")
    /\ UNCHANGED <<storage, conf, model, reply>>

\* The exit of ModifyConcretePool: what was staged is committed.
Finish ==
    /\ call.pc = "finish"
    /\ Commit(lib)
    /\ Goto("scan")
    /\ UNCHANGED <<conf, model, reply>>

\* The exit of CreateOrModifyStoragePool.  Called for a volume in the
\* primordial pool, it hands the new pool over if PoolsFindByName finds it.
ScanAfterPool ==
    /\ call.pc = "scan"
    /\ ScanStorage
    /\ \/ /\ call.op = "CreateOrModifyStoragePool"
          /\ Answer(call.rc)
       \/ /\ call.op = "CreateOrModifyElementFromStoragePool"
          /\ \/ /\ call.rc # "OK"
                /\ Goto("volscan")
             \/ /\ call.rc = "OK" /\ call.name \notin cache'.pools
                /\ GotoWith("volscan", "INVALID_PARAM")
             \/ /\ call.rc = "OK" /\ call.name \in cache'.pools
                /\ call' = [call EXCEPT !.pc = "carve", !.pool = call.name,
                                        !.size = cache'.free[call.name]]
          /\ UNCHANGED reply
    /\ UNCHANGED <<storage, conf>>

(***************************************************************************)
(* DeleteStoragePool, as a method and as the first step of a modification. *)
(***************************************************************************)
\* An unknown Pool is a null pointer here, and its name is traced.
ResolveDelete ==
    /\ call.pc = "resolve" /\ call.op = "DeleteStoragePool"
    /\ \/ /\ call.pool # NULL /\ Known(call.pool)
          /\ Goto("delete")
          /\ UNCHANGED <<storage, conf, model, reply>>
       \/ /\ call.pool = NULL \/ ~Known(call.pool)
          /\ Die("null pool")

\* Mutant: a pool in use is waited for.
MutantDelete ==
    /\ call.pc = "delete"
    /\ ~InUse(call.pool) /\ Goto("removevg")
    /\ UNCHANGED <<storage, conf, model, reply>>

\* A pool with pools or volumes allocated from it is in use: the method
\* answers so, a modification takes its other branch.
Delete ==
    /\ call.pc = "delete"
    /\ \/ /\ ~InUse(call.pool)
          /\ Goto("removevg")
          /\ UNCHANGED reply
       \/ /\ InUse(call.pool) /\ call.op = "DeleteStoragePool"
          /\ Answer("IN_USE")
       \/ /\ InUse(call.pool) /\ call.op = "CreateOrModifyStoragePool"
          /\ Goto("modify")
          /\ UNCHANGED reply
    /\ UNCHANGED <<storage, conf, model>>

\* Mutant: the library's error is not returned.
MutantRemoveVg ==
    /\ call.pc = "removevg"
    /\ \/ /\ call.pool \in VgNames /\ VgExists(lib, call.pool)
          /\ lib' = VgRemoved(lib, call.pool)
          /\ call' = [call EXCEPT !.pc = "unpartition", !.part = lib.size[call.pool]]
       \/ /\ UNCHANGED lib
          /\ Goto("unpartition")
    /\ UNCHANGED <<disk, stale, conf, model, reply>>

\* removeLvmVg is staged.
RemoveVg ==
    /\ call.pc = "removevg"
    /\ \/ /\ call.pool \in VgNames /\ VgExists(lib, call.pool)
          /\ lib' = VgRemoved(lib, call.pool)
          /\ call' = [call EXCEPT !.pc = "unpartition", !.part = lib.size[call.pool]]
       \/ /\ UNCHANGED lib
          /\ call' = [call EXCEPT !.pc = "unpartition", !.part = 0, !.rc = "FAILED"]
    /\ UNCHANGED <<disk, stale, conf, model, reply>>

\* ExtentUnpartition removes the group's partitions, if they are unused now,
\* and commits; its failure is ignored.
Unpartition ==
    /\ call.pc = "unpartition"
    /\ \E n \in {0, call.part} : Commit(Unpartitioned(lib, n))
    /\ call' = [call EXCEPT !.pc = "deleted", !.part = 0]
    /\ UNCHANGED <<conf, model, reply>>

\* The scan at the end of DeleteStoragePool.  A modification goes on to
\* create the pool anew, with an input pool looked up by name again and a
\* goal made from the name of the goal the scan has freed.
ScanAfterDelete ==
    /\ call.pc = "deleted"
    /\ \/ /\ ScanStorage
          /\ UNCHANGED <<storage, conf>>
          /\ \/ /\ call.op = "DeleteStoragePool"
                /\ Answer(call.rc)
             \/ /\ call.op = "CreateOrModifyStoragePool" /\ call.rc # "OK"
                /\ Goto("scan")
                /\ UNCHANGED reply
             \/ /\ call.op = "CreateOrModifyStoragePool" /\ call.rc = "OK"
                /\ call.in = NULL \/ Holds(cache', call.in)
                /\ call' = [call EXCEPT !.pc = "find", !.pool = NULL]
                /\ UNCHANGED reply
       \/ /\ call.op = "CreateOrModifyStoragePool" /\ call.rc = "OK"
          /\ call.in # NULL
          /\ call.in = call.pool \/ conf # "ok" \/ (QueriesFail /\ call.in \in VgNames)
          /\ Die("null input pool")
       \/ /\ call.op = "CreateOrModifyStoragePool" /\ call.rc = "OK" /\ call.goal
          /\ Die("freed goal")

(***************************************************************************)
(* CreateOrModifyElementFromStoragePool                                    *)
(***************************************************************************)
\* ElementName is copied before anything is checked.  Objects that are not
\* found count as not given.  Without pool and volume the first pool with
\* room is taken, concrete ones first; given a goal, any pool will do.
ResolveElement ==
    LET vol == IF call.vol \in LvNames /\ cache.owner[call.vol] # NULL
               THEN call.vol ELSE NULL
        pool == IF call.pool # NULL /\ Known(call.pool) THEN call.pool ELSE NULL
        given == call.goal /\ cache.loaded
        roomy == {p \in Pools : /\ Known(p)
                                /\ given \/ Remaining(p) >= MinVolumeSize}
        choices == IF vol # NULL THEN {cache.owner[vol]}
                   ELSE IF pool # NULL THEN {pool}
                   ELSE IF roomy \cap VgNames # {} THEN roomy \cap VgNames
                   ELSE roomy
    IN  /\ call.pc = "resolve" /\ call.op = "CreateOrModifyElementFromStoragePool"
        /\ \/ /\ call.elm = NULL
              /\ Die("null name")
           \/ /\ call.elm # NULL /\ ((pool # NULL /\ vol # NULL) \/ choices = {})
              /\ Answer("INVALID_PARAM")
              /\ UNCHANGED <<storage, conf, model>>
           \/ /\ call.elm # NULL /\ ~(pool # NULL /\ vol # NULL)
              /\ \E p \in choices :
                    call' = [call EXCEPT !.pool = p, !.vol = vol,
                                !.pc = IF vol # NULL THEN "resize"
                                       ELSE IF p = Primordial THEN "nest" ELSE "carve"]
              /\ UNCHANGED <<storage, conf, model, reply>>

\* A volume of the primordial pool: CreateOrModifyStoragePool is called for
\* a new pool without a name in it, and checks the size first.
Nest ==
    /\ call.pc = "nest"
    /\ \/ /\ call.size # 0 /\ call.size < MinVolumeSize
          /\ GotoWith("volscan", "SIZE_NOT_SUPPORTED")
       \/ /\ call.size = 0 \/ call.size >= MinVolumeSize
          /\ call' = [call EXCEPT !.pc = "find", !.pool = NULL, !.in = Primordial]
    /\ UNCHANGED <<storage, conf, model, reply>>

\* The size is compared with what is left in the pool (in kilobytes), the
\* name generated if it is empty, and CreateVolume refuses a name that is
\* in the array of volumes, but commits.
Carve ==
    /\ call.pc = "carve"
    /\ LET left == Remaining(call.pool)
           name == IF call.elm = EMPTY THEN GenVol[call.pool] ELSE call.elm
           enough == left >= call.size /\ (call.size > 0 \/ left >= MinVolumeSize)
       IN  \/ /\ ~enough
              /\ GotoWith("volscan", "SIZE_NOT_SUPPORTED")
              /\ UNCHANGED storage
           \/ /\ enough /\ cache.owner[name] # NULL
              /\ Commit(lib)
              /\ GotoWith("volscan", "INVALID_PARAM")
           \/ /\ enough /\ cache.owner[name] = NULL
              /\ call' = [call EXCEPT !.pc = "makelv", !.elm = name, !.size = IF @ = 0 THEN left ELSE @]
              /\ UNCHANGED storage
    /\ UNCHANGED <<conf, model, reply>>

\* Whole units of MinVolumeSize: sizeM = size / (1024*1024).
Truncated(n) == (n \div MinVolumeSize) * MinVolumeSize

\* CreateVolume: createLvmLv, and commit.
MakeLv ==
    /\ call.pc = "makelv"
    /\ \/ /\ VgExists(lib, call.pool) /\ call.elm \notin LvsIn(lib, call.pool)
          /\ Truncated(call.size) \in 1..lib.pefree[call.pool]
          /\ Commit(LvCreated(lib, call.pool, call.elm, Truncated(call.size)))
          /\ Goto("volscan")
       \/ /\ Commit(lib)
          /\ GotoWith("volscan", "FAILED")
    /\ UNCHANGED <<conf, model, reply>>

\* A new size that is large enough is given to resizeVolumeNoFs, and
\* committed; other sizes leave the volume as it is.
Resize ==
    /\ call.pc = "resize"
    /\ LET wanted == /\ call.size # cache.volSize[call.vol]
                     /\ call.size >= MinVolumeSize
       IN  \/ /\ ~wanted
              /\ Goto("relabel")
              /\ UNCHANGED storage
           \/ /\ wanted /\ call.vol \in LvsIn(lib, call.pool)
              /\ Truncated(call.size)
                    <= lib.pefree[call.pool] + lib.lvs[call.pool][call.vol]
              /\ Commit(LvResized(lib, call.pool, call.vol, Truncated(call.size)))
              /\ Goto("relabel")
           \/ /\ wanted
              /\ Commit(lib)
              /\ GotoWith("volscan", "NOT_SUPPORTED")
    /\ UNCHANGED <<conf, model, reply>>

\* RenameVolume: lvrename changes the disk, and libstorage reads it again,
\* whether lvrename succeeded or not.  The given name always differs from
\* the volume's, which has a prefix.
Relabel ==
    /\ call.pc = "relabel"
    /\ \/ /\ call.elm = EMPTY
          /\ Goto("volscan")
          /\ UNCHANGED storage
       \/ /\ call.elm # EMPTY
          /\ call.vol \in LvsIn(disk, call.pool) /\ call.elm \notin LvsIn(disk, call.pool)
          /\ disk' = LvRenamed(disk, call.pool, call.vol, call.elm)
          /\ lib' = disk' /\ stale' = FALSE
          /\ Goto("volscan")
       \/ /\ call.elm # EMPTY
          /\ lib' = disk /\ stale' = FALSE
          /\ GotoWith("volscan", "FAILED")
          /\ UNCHANGED disk
    /\ UNCHANGED <<conf, model, reply>>

\* Mutant: the arrays are not rebuilt.
MutantScanAndAnswer ==
    /\ call.pc = "volscan"
    /\ Answer(call.rc)
    /\ UNCHANGED <<storage, conf, model>>

\* The exit of the methods about volumes, and ScanStorage itself.
ScanAndAnswer ==
    /\ call.pc = "volscan"
    /\ ScanStorage
    /\ Answer(call.rc)
    /\ UNCHANGED <<storage, conf>>

(***************************************************************************)
(* ReturnToStoragePool                                                     *)
(***************************************************************************)
ResolveReturn ==
    /\ call.pc = "resolve" /\ call.op = "ReturnToStoragePool"
    /\ \/ /\ cache.owner[call.vol] = NULL
          /\ Answer("INVALID_PARAM")
       \/ /\ cache.owner[call.vol] # NULL
          /\ call' = [call EXCEPT !.pc = "removelv", !.pool = cache.owner[call.vol]]
          /\ UNCHANGED reply
    /\ UNCHANGED <<storage, conf, model>>

\* removeLvmLv, and commit.
RemoveLv ==
    /\ call.pc = "removelv"
    /\ \/ /\ call.vol \in LvsIn(lib, call.pool)
          /\ Commit(LvRemoved(lib, call.pool, call.vol))
          /\ Goto("volscan")
       \/ /\ Commit(lib)
          /\ GotoWith("volscan", "FAILED")
    /\ UNCHANGED <<conf, model, reply>>

(***************************************************************************)
(* The process and its configuration file.                                 *)
(***************************************************************************)
\* The process is killed, and started again for the next request.
Kill ==
    /\ call # NoCall \/ cache # EmptyCache \/ lib # disk
    /\ Die("killed")

\* Cleanup, then Initialize in the same process: the handle commits, the
\* arrays are freed, the library reads the disk; SCSNeedToScan keeps its value.
Reinitialize ==
    /\ Idle
    /\ \/ disk' = IF stale THEN disk ELSE lib
       \/ CommitFails /\ disk' = disk
    /\ lib' = disk' /\ stale' = FALSE
    /\ cache' = EmptyCache
    /\ reply' = NoReply
    /\ UNCHANGED <<conf, needScan, call>>

\* The administrator edits, removes or restores smsetup.conf.
EditConf ==
    /\ Idle
    /\ conf' \in {"ok", "missing", "empty"} \ {conf}
    /\ reply' = NoReply
    /\ UNCHANGED <<storage, model, call>>

-----------------------------------------------------------------------------
Init ==
    /\ lib = BlankStorage /\ disk = BlankStorage /\ stale = FALSE
    /\ conf = "ok"
    /\ cache = EmptyCache /\ needScan = TRUE
    /\ call = NoCall /\ reply = NoReply

\* The steps of the request in progress.
Serve ==
    \/ Enter \/ Enumerate \/ RequestScan
    \/ ResolvePool \/ Find \/ Partition \/ CreateComposition
    \/ Modify \/ Expand \/ RenamePool \/ Finish \/ ScanAfterPool
    \/ ResolveDelete \/ Delete \/ RemoveVg \/ Unpartition \/ ScanAfterDelete
    \/ ResolveElement \/ Nest \/ Carve \/ MakeLv \/ Resize \/ Relabel
    \/ ResolveReturn \/ RemoveLv \/ ScanAndAnswer

Next == Serve \/ Invoke \/ Kill \/ Reinitialize \/ EditConf

\* A request in progress is carried on: the thread that serves it runs, and
\* none of the calls it makes waits for another request.
Spec == Init /\ [][Next]_vars /\ WF_vars(Serve)

-----------------------------------------------------------------------------
(***************************************************************************)
(* Properties                                                              *)
(***************************************************************************)
Cache == [loaded : BOOLEAN, pools : SUBSET VgNames, pfree : Nat,
          free : [VgNames -> Nat], total : [VgNames -> Nat],
          owner : [LvNames -> VgNames \cup {NULL}], volSize : [LvNames -> Nat]]

Call == [op : Operations, pc : Steps, pool : Pools \cup {NULL},
         in : Pools \cup {NULL}, name : Pools \cup {NULL},
         vol : LvNames \cup {NULL}, elm : LvNames \cup {NULL, EMPTY},
         goal : BOOLEAN, size : Nat, part : Nat, rc : Codes]

Reply == [op : Operations, rc : Codes \cup Deaths, pool : Pools \cup {NULL}, size : Nat]

\* The type invariant.  No size of the library's state becomes negative: no
\* request takes more bytes out of a pool or of the disks than there are.
TypeOK ==
    /\ lib \in Storage /\ disk \in Storage /\ stale \in BOOLEAN
    /\ conf \in {"ok", "missing", "empty"}
    /\ cache \in Cache /\ needScan \in BOOLEAN
    /\ call \in Call /\ reply \in Reply

\* Between two requests the arrays, once loaded, are what a scan of the
\* library would make of them now: every path through a method that stages a
\* change ends in a scan, the failing paths and the early returns too.
CacheMirrorsLib ==
    Idle /\ cache.loaded => \E h, m \in Missed : cache \in ScanResults(lib, h, m)

\* What a method asks of the library fits into what the library has left,
\* although it was computed from arrays filled by an earlier scan and although
\* a modification scans and searches again half way.
RequestsFit ==
    /\ call.pc = "partition" /\ call.in = Primordial => call.size <= lib.free
    /\ call.pc = "makelv" => call.size <= lib.pefree[call.pool]

\* Nothing stays staged behind an answer: every path that stages a change,
\* up to the failures in its middle, commits before it returns.  (After
\* vgrename the library can no longer commit.)
AnswerIsDurable == Idle /\ ~stale => disk = lib

\* A DeleteStoragePool that answers "completed" has removed the group from
\* the disk and the pool from the arrays.
DeletedPoolIsGone ==
    (reply.op = "DeleteStoragePool" /\ reply.rc = "OK" /\ reply.pool \in VgNames /\ ~stale)
        => ~VgExists(disk, reply.pool) /\ reply.pool \notin cache.pools

\* A logical volume leaves the library's state in three ways only: it is
\* returned by name, it is renamed, or the library reads the disk again after
\* the process ended.  No deletion, modification or expansion of a pool takes
\* a volume with it (removeLvmVg would).
VolumeKept(v, l) ==
    l \in LvsIn(lib, v) /\ l \notin LvsIn(lib', v) =>
        \/ call.op = "ReturnToStoragePool" /\ call.vol = l
        \/ call.pc = "relabel"
        \/ lib' = disk /\ UNCHANGED disk
VolumesSurvive == [][\A v \in VgNames, l \in LvNames : VolumeKept(v, l)]_vars

\* Every request is answered, or ends with the process: no method waits for
\* ever, and the create inside a modification is not followed by another.
EveryCallReturns == []<>Idle
=============================================================================
