---------------------------- MODULE CopyServices ----------------------------
(***************************************************************************)
(* Snapshots.  CreateReplica, a method of the storage configuration        *)
(* service, has LVM take a snapshot beside its source; the copy services   *)
(* provider answers questions about the capability to do so and about who  *)
(* is synchronized with whom, which it finds out from the arrays and from  *)
(* the storage library.                                                    *)
(*                                                                         *)
(* Each helper that leaves a string or a list to its caller has a defect   *)
(* that makes its outcome undefined: a pointer never set, memory freed     *)
(* before it is returned.  The outcomes are "died" and what the caller     *)
(* does with memory that matches no name.                                  *)
(***************************************************************************)
EXTENDS Naturals, FiniteSets, FiniteSetsExt

CONSTANTS
    Vgs,            \* volume groups
    VgSize,         \* bytes of each
    LongVgs,        \* those whose name has 20 characters or more
    FirstLvs,       \* the volumes there are at first
    Elements,       \* values of ElementName
    LongElements,   \* those that with their prefix have 50 characters or more
    CommitFails,    \* the library's commit may fail
    QueriesFail,    \* getLvmLvInfo may fail
    NULL

Classes == {"LogicalDisk", "StorageVolume"}

\* Mutant: the prefixes are exchanged.
MutantName(class, elm) == <<IF class = "LogicalDisk" THEN "SV" ELSE "LD", elm>>
Name(class, elm) == <<IF class = "LogicalDisk" THEN "LD" ELSE "SV", elm>>
ClassOf(v) == IF v[1] = "LD" THEN "LogicalDisk" ELSE "StorageVolume"
Lv(vg, name, size, origin) == [vg |-> vg, name |-> name, size |-> size, origin |-> origin]

\* The names a volume can have.
LvNames == {l.name : l \in FirstLvs} \cup {Name(class, elm) : class \in Classes, elm \in Elements}

\* A volume's name is unique in its group; NULL is no name, and the outcomes
\* "FAILED" and "died" are not names of groups.
ASSUME CopyAssumption ==
    /\ LongVgs \subseteq Vgs /\ LongElements \subseteq Elements /\ VgSize \in [Vgs -> Nat]
    /\ \A l \in FirstLvs : l.vg \in Vgs /\ l.origin = NULL
    /\ \A l, m \in FirstLvs : l.vg = m.vg /\ l.name = m.name => l = m
    /\ NULL \notin LvNames /\ {"FAILED", "died"} \cap Vgs = {}
    /\ {CommitFails, QueriesFail} \subseteq BOOLEAN

VARIABLES
    lib,        \* the logical volumes as the library has them
    disk,       \* those on the disk
    array,      \* VolumeArray: the group of each volume that is shown
    needScan,   \* SCSNeedToScan
    call,       \* CreateReplica in progress
    reply,      \* the last answer
    service,    \* the array provider is registered
    together    \* both providers are in one process

vars == <<lib, disk, array, needScan, call, reply, service, together>>

NoCall == [pc |-> "idle", source |-> NULL, class |-> NULL, replica |-> NULL,
           copyType |-> 0, rc |-> "OK"]
Answer(op, rc, found) == [op |-> op, rc |-> rc, found |-> found]
NoReply == Answer("none", "OK", {})

-----------------------------------------------------------------------------
(***************************************************************************)
(* The storage library.                                                    *)
(***************************************************************************)
LvsOf(L, vg) == {l \in L : l.vg = vg}
FreeIn(L, vg) == VgSize[vg] - MapThenSumSet(LAMBDA l : l.size, LvsOf(L, vg))
ReplicasOf(L, vg, v) == {l \in LvsOf(L, vg) : l.origin = v}
HasReplicas(L, vg, v) == ReplicasOf(L, vg, v) # {}
Has(L, vg, v) == \E l \in LvsOf(L, vg) : l.name = v

\* A snapshot of a snapshot, which lvcreate refuses.
TooDeep(L) == \E l \in L : l.origin # NULL /\ \E o \in LvsOf(L, l.vg) : o.name = l.origin /\ o.origin # NULL

\* commit: of what the library has staged.
Commit(L) ==
    /\ lib' = L
    /\ \/ ~TooDeep(L) /\ disk' = L
       \/ (CommitFails \/ TooDeep(L)) /\ disk' = disk

\* createLvmLvSnapshot.
CanSnapshot(L, vg, v, replica, size) ==
    Has(L, vg, v) /\ ~Has(L, vg, replica) /\ size <= FreeIn(L, vg)

-----------------------------------------------------------------------------
(***************************************************************************)
(* The scan, as far as volumes go.                                         *)
(***************************************************************************)
\* A name that is found again in another group is "already processed".  A group
\* whose query fails is left out.
ScanResults(L) ==
    UNION {{f \in [{l.name : l \in M} -> Vgs] : \A v \in DOMAIN f : Has(M, f[v], v)}
           : M \in {{l \in L : l.vg \in seen} : seen \in IF QueriesFail THEN SUBSET Vgs ELSE {Vgs}}}

SCSScanStorage == array' \in ScanResults(lib) /\ needScan' = FALSE

-----------------------------------------------------------------------------
(***************************************************************************)
(* LvmCopyServices.c, called in the process whose VolumeArray holds K.     *)
(***************************************************************************)
\* get_VG_name, into 20 bytes: a longer name is written past them.
get_VG_name(K, v) ==
    IF v \notin DOMAIN K THEN {"FAILED"}
    ELSE {K[v]} \cup (IF K[v] \in LongVgs THEN {"died"} ELSE {})

get_vol_size(L, K, v) == (CHOOSE l \in LvsOf(L, K[v]) : l.name = v).size

SnapInfo(rc, name) == [rc |-> rc, name |-> name]

\* get_snap_info(SOURCE_VOLUME): no name, or, for a volume that the kernel has
\* as the origin of a snapshot, its own name, in memory already freed.
get_snap_info(K, v) ==
    UNION {IF vg \in {"FAILED", "died"} THEN {SnapInfo(vg, NULL)}
           ELSE {SnapInfo(IF Has(lib, vg, v) /\ HasReplicas(disk, vg, v) THEN "freed" ELSE "OK", NULL)}
                \cup (IF QueriesFail THEN {SnapInfo("FAILED", NULL)} ELSE {})
           : vg \in get_VG_name(K, v)}

\* cs_return_associated_snapshot_volumes: a failure or a list.  The name of
\* the group goes where an unset pointer shows, the names of the snapshots
\* where the unset entries of a list show that is freed before it is returned:
\* as many names as there are snapshots, of any volumes or of none.
cs_return_associated_snapshot_volumes(K, v) ==
    {[rc |-> "died", names |-> {}]}
    \cup (IF v \in DOMAIN K
          THEN LET n == Cardinality(ReplicasOf(lib, K[v], v))
               IN  {[rc |-> "OK", names |-> S] : S \in {T \in SUBSET LvNames : Cardinality(T) <= n}}
          ELSE {})
    \cup (IF v \notin DOMAIN K \/ QueriesFail THEN {[rc |-> "FAILED", names |-> {}]} ELSE {})

-----------------------------------------------------------------------------
(***************************************************************************)
(* The objects and the answers of the copy services provider.              *)
(***************************************************************************)
SCS == <<"StorageConfigurationService", "scs">>
VolumePath(v) == <<ClassOf(v), v>>

OMC_CreateSRCObjectPath == <<"StorageReplicationCapabilities", "UnsyncAssocDelta">>
OMC_CreateSRCInstance == OMC_CreateSRCObjectPath
SRC == OMC_CreateSRCObjectPath

Out(rc, found) == [rc |-> rc, found |-> found, commits |-> FALSE]
Failed == {Out("FAILED", {})}

\* cs_delete_snapshot: the group's name is written through NULL; a volume that
\* is not found is an error, after which what is staged is committed.
cs_delete_snapshot(K, v) ==
    IF v \in DOMAIN K THEN Out("died", {}) ELSE [Out("FAILED", {}) EXCEPT !.commits = TRUE]

\* What is answered after the list of snapshots was asked for.
WithSnapshots(K, v, Answers(_)) ==
    UNION {IF l.rc = "OK" THEN Answers(l.names) ELSE {Out(l.rc, {})}
           : l \in cs_return_associated_snapshot_volumes(K, v)}

\* And after the source: a freed name may by then be any volume's or none, and
\* is freed again.
Garbage == <<"freed", NULL>>
WithSource(K, v, Answers(_)) ==
    UNION {CASE n.rc = "OK" -> Answers(n.name)
             [] n.rc = "freed" -> {Out("died", {})} \cup UNION {Answers(w) : w \in LvNames \cup {Garbage}}
             [] OTHER -> {Out(n.rc, {})}
           : n \in get_snap_info(K, v)}

\* Two parts of one answer: the second is not tried when the first fails.
Then(first, second) ==
    {a \in first : a.rc # "OK"}
    \cup {Out(b.rc, a.found \cup b.found) : a \in {x \in first : x.rc = "OK"}, b \in second}

SynchronizedClass(class) == IF class = "LogicalDisk" THEN "StorageSynchronized" ELSE "SVStorageSynchronized"
Synchronized(class, source, synced) == <<SynchronizedClass(class), VolumePath(source), VolumePath(synced)>>
Of(class, E) == {v \in E : ClassOf(v) = class}

\* OMC_CreateSRECObjectPaths: of the first service the broker gives.
OMC_CreateSRECObjectPaths ==
    IF service THEN {Out("OK", {<<"StorageReplicationElementCapabilities", SCS, SRC>>})} ELSE Failed
OMC_CreateSRECInstances ==
    IF service THEN {Out("OK", {<<"StorageReplicationElementCapabilities", SCS, SRC>>})} ELSE Failed

\* Every volume of the class is asked for its snapshots, in any order, until
\* one fails.
OMC_EnumSSObjectPaths(class, K, E) ==
    LET of == [v \in Of(class, E) |-> WithSnapshots(K, v, LAMBDA names :
                  {Out("OK", {Synchronized(class, v, w) : w \in Of(class, E) \cap names})})]
        found(S) == FoldSet(LAMBDA v, F : {f \cup a.found : f \in F, a \in {o \in of[v] : o.rc = "OK"}}, {{}}, S)
        failing(S) == {a \in UNION {of[v] : v \in Of(class, E) \ S} : a.rc # "OK"}
    IN  IF ~service THEN Failed
        ELSE {Out("OK", f) : f \in found(Of(class, E))}
             \cup UNION {{Out(a.rc, f \cup a.found) : f \in found(S), a \in failing(S)} : S \in SUBSET Of(class, E)}
OMC_EnumSSInstances(class, K, E) == OMC_EnumSSObjectPaths(class, K, E)

\* OMC_CreateSSObjectPaths: of a source, of a synced element, or of both.
OMC_CreateSSObjectPaths(class, K, E, source, synced) ==
    IF synced = NULL
    THEN WithSnapshots(K, source, LAMBDA names :
            {Out("OK", {Synchronized(class, source, w) : w \in Of(class, E) \cap names})})
    ELSE IF source = NULL
    THEN WithSource(K, synced, LAMBDA n :
            {Out("OK", {Synchronized(class, v, synced) : v \in Of(class, E) \cap {n}})})
    ELSE WithSnapshots(K, source, LAMBDA names :
            {Out("OK", {Synchronized(class, source, w) : w \in names \cap {synced}})})
OMC_CreateSSInstances(class, K, E, source, synced) == OMC_CreateSSObjectPaths(class, K, E, source, synced)

OMC_SS_ReturnSyncedElementsOPs(class, K, E, v) ==
    WithSnapshots(K, v, LAMBDA names :
        IF service THEN {Out("OK", {VolumePath(w) : w \in Of(class, E) \cap names})} ELSE Failed)
OMC_SS_ReturnSyncedElementsInsts(class, K, E, v) == OMC_SS_ReturnSyncedElementsOPs(class, K, E, v)

\* Each volume is compared with the source, which is NULL when there is none.
OMC_SS_ReturnSourceElementOP(class, K, E, v) ==
    WithSource(K, v, LAMBDA n :
        IF ~service THEN Failed
        ELSE IF n = NULL THEN {Out(IF Of(class, E) = {} THEN "OK" ELSE "died", {})}
        ELSE {Out("OK", {VolumePath(w) : w \in Of(class, E) \cap {n}})})
OMC_SS_ReturnSourceElementInst(class, K, E, v) == OMC_SS_ReturnSourceElementOP(class, K, E, v)

\* A snapshot that is not in the list is deleted without an error, and none is.
OMC_DeleteSSInstance(K, source, synced) ==
    WithSnapshots(K, source, LAMBDA names :
        {IF synced \in names THEN cs_delete_snapshot(K, synced) ELSE Out("OK", {})})

-----------------------------------------------------------------------------
(***************************************************************************)
(* CopyServicesProvider.c                                                  *)
(***************************************************************************)
AssocClasses == {"StorageReplicationElementCapabilities", "StorageSynchronized", "SVStorageSynchronized"}
Left(assoc) == IF assoc = "StorageReplicationElementCapabilities" THEN "ManagedElement" ELSE "SystemElement"
Right(assoc) == IF assoc = "StorageReplicationElementCapabilities" THEN "Capabilities" ELSE "SyncedElement"
Roles == {Left(c) : c \in AssocClasses} \cup {Right(c) : c \in AssocClasses}
EndClasses == Classes \cup {SCS[1], SRC[1]}
Fits(x, y) == x = NULL \/ x = y

CopyServicesProviderEnumInstanceNames(class, K, E) ==
    CASE class = SRC[1] -> {Out("OK", {OMC_CreateSRCObjectPath})}
      [] class = "StorageReplicationElementCapabilities" -> OMC_CreateSRECObjectPaths
      [] class = "StorageSynchronized" -> OMC_EnumSSObjectPaths("LogicalDisk", K, E)
      [] class = "SVStorageSynchronized" -> OMC_EnumSSObjectPaths("StorageVolume", K, E)

CopyServicesProviderEnumInstances(class, K, E) ==
    CASE class = SRC[1] -> {Out("OK", {OMC_CreateSRCInstance})}
      [] class = "StorageReplicationElementCapabilities" -> OMC_CreateSRECInstances
      [] class = "StorageSynchronized" -> OMC_EnumSSInstances("LogicalDisk", K, E)
      [] class = "SVStorageSynchronized" -> OMC_EnumSSInstances("StorageVolume", K, E)

\* Of a capability, an association of the service, or one of two volumes.
CopyServicesProviderGetInstance(name, K, E) ==
    CASE name = SRC -> {Out("OK", {OMC_CreateSRCInstance})}
      [] name[1] = "StorageReplicationElementCapabilities" -> OMC_CreateSRECInstances
      [] OTHER -> {IF a.rc = "OK" /\ a.found = {} THEN Out("FAILED", {}) ELSE a
                   : a \in OMC_CreateSSInstances(name[2][1], K, E, name[2][2], name[3][2])}

CopyServicesProviderDeleteInstance(name, K) ==
    IF name[1] \in {"StorageSynchronized", "SVStorageSynchronized"}
    THEN OMC_DeleteSSInstance(K, name[2][2], name[3][2])
    ELSE {Out("OK", {})}

\* ModifyInstance, CreateInstance and ExecQuery.
NotSupported == {Out("NOT_SUPPORTED", {})}

\* From the service to the capability and back, from a source to what is
\* synced with it and back.  Without an association class only the first
\* of the three is tried.
When(p, answers) == IF p THEN answers ELSE {Out("OK", {})}
ServiceAnswer == IF service THEN {Out("OK", {SCS})} ELSE Failed
Related(e, assoc, resultClass, role, resultRole, K, E, Capabilities, Synceds(_, _, _, _), Source(_, _, _, _)) ==
    LET c == "StorageReplicationElementCapabilities"
        to(a, class, r, rr) == Fits(resultClass, class) /\ Fits(role, r) /\ Fits(resultRole, rr)
    IN  IF Fits(assoc, c)
        THEN CASE e = SCS -> When(to(c, SRC[1], Left(c), Right(c)), Capabilities)
               [] e = SRC -> When(to(c, SCS[1], Right(c), Left(c)), ServiceAnswer)
               [] OTHER -> When(FALSE, {})
        ELSE When(e[1] \in Classes /\ assoc = SynchronizedClass(e[1]),
                  Then(When(to(assoc, e[1], Left(assoc), Right(assoc)), Synceds(e[1], K, E, e[2])),
                       When(to(assoc, e[1], Right(assoc), Left(assoc)), Source(e[1], K, E, e[2]))))

CopyServicesProviderAssociatorNames(e, assoc, resultClass, role, resultRole, K, E) ==
    Related(e, assoc, resultClass, role, resultRole, K, E,
            CopyServicesProviderEnumInstanceNames(SRC[1], K, E),
            OMC_SS_ReturnSyncedElementsOPs, OMC_SS_ReturnSourceElementOP)
CopyServicesProviderAssociators(e, assoc, resultClass, role, resultRole, K, E) ==
    Related(e, assoc, resultClass, role, resultRole, K, E,
            CopyServicesProviderEnumInstances(SRC[1], K, E),
            OMC_SS_ReturnSyncedElementsInsts, OMC_SS_ReturnSourceElementInst)

\* The associations themselves.  Here storage volumes are tried also when no
\* class is given.  Only the names complain of an object of another class.
OfVolume(e, role, Between(_, _, _, _, _), K, E) ==
    Then(When(Fits(role, "SystemElement"), Between(e[1], K, E, e[2], NULL)),
         When(Fits(role, "SyncedElement"), Between(e[1], K, E, NULL, e[2])))
Associations(e, assoc, role, K, E, OtherClass, Capable, Between(_, _, _, _, _)) ==
    LET c == "StorageReplicationElementCapabilities"
        wrong == Out(IF assoc # NULL THEN "NO_SUCH_PROPERTY" ELSE "OK", {})
        end == IF e = SCS THEN Left(c) ELSE Right(c)
    IN  Then(IF Fits(assoc, c)
             THEN IF e \in {SCS, SRC} THEN IF Fits(role, end) THEN Capable ELSE {wrong}
                  ELSE IF OtherClass THEN {wrong} ELSE {Out("OK", {})}
             ELSE When(assoc = "StorageSynchronized" /\ e[1] = "LogicalDisk", OfVolume(e, role, Between, K, E)),
             When(Fits(assoc, "SVStorageSynchronized") /\ e[1] = "StorageVolume", OfVolume(e, role, Between, K, E)))

CopyServicesProviderReferenceNames(e, assoc, role, K, E) ==
    Associations(e, assoc, role, K, E, TRUE, OMC_CreateSRECObjectPaths, OMC_CreateSSObjectPaths)
CopyServicesProviderReferences(e, assoc, role, K, E) ==
    Associations(e, assoc, role, K, E, FALSE, OMC_CreateSRECInstances, OMC_CreateSSInstances)

-----------------------------------------------------------------------------
(***************************************************************************)
(* Requests.                                                               *)
(***************************************************************************)
Idle == call.pc = "idle"

\* The process ends: what was staged is lost, the arrays are empty.
Die(op) ==
    /\ lib' = disk /\ array' = <<>> /\ needScan' = TRUE
    /\ call' = NoCall /\ reply' = Answer(op, "died", {})
    /\ UNCHANGED disk

Scanned == IF needScan THEN ScanResults(lib) ELSE {array}

\* A name no other group uses: the scan would overlook it.
Fresh(a, v, replica) == \A l \in lib : l.name = replica => v \in DOMAIN a /\ l.vg = a[v]

\* CreateReplica, up to its test of the copy type.  The client refers to a
\* volume by its class, or to something else.
CreateReplica ==
    /\ Idle /\ service
    /\ array' \in Scanned /\ needScan' = FALSE
    /\ \E v \in {l.name : l \in lib}, elm \in Elements, class \in Classes \cup {"StoragePool"},
          copyType \in {4, 5}, target \in BOOLEAN :
          LET replica == Name(class, elm)
              done(rc) == call' = [NoCall EXCEPT !.pc = "scan", !.rc = rc]
          IN  /\ class \in {ClassOf(v), "StoragePool"} /\ Fresh(array', v, replica)
              /\ \/ target /\ done("INVALID_PARAM")
                 \/ ~target /\ copyType # 4 /\ done("OK")
                 \/ ~target /\ copyType = 4 /\ class = "StoragePool" /\ done("INVALID_PARAM")
                 \/ /\ ~target /\ copyType = 4 /\ class \in Classes
                    /\ call' = [pc |-> "check", source |-> v, class |-> class, replica |-> replica,
                                copyType |-> copyType, rc |-> "OK"]
    /\ reply' = NoReply
    /\ UNCHANGED <<lib, disk, service, together>>

\* "can not snapshot a snapshotted volume": the name in freed memory is freed
\* again.  A failure is not looked at.  The name of the replica is written past
\* its buffer when it is long.
Refuse ==
    /\ call.pc = "check"
    /\ \E n \in get_snap_info(array, call.source) :
          \/ /\ n.rc \in {"freed", "died"} \/ call.replica[2] \in LongElements
             /\ Die("CreateReplica")
          \/ /\ n.rc = "freed" \/ n.name # NULL
             /\ call' = [call EXCEPT !.pc = "scan", !.rc = "INVALID_PARAM"]
             /\ UNCHANGED <<lib, disk, array, needScan, reply>>
          \/ /\ n.rc \in {"OK", "FAILED"} /\ n.name = NULL
             /\ call' = [call EXCEPT !.pc = "take"]
             /\ UNCHANGED <<lib, disk, array, needScan, reply>>
    /\ UNCHANGED <<service, together>>

\* Mutant: the library's refusal of the commit is the answer.
MutantTakeSnapshot ==
    /\ call.pc = "take"
    /\ \E vg \in get_VG_name(array, call.source) :
          /\ vg \in Vgs
          /\ LET size == get_vol_size(lib, array, call.source)
             IN  /\ CanSnapshot(lib, vg, call.source, call.replica, size)
                 /\ Commit(lib \cup {Lv(vg, call.replica, size, call.source)})
                 /\ call' = [call EXCEPT !.pc = "scan", !.rc = IF disk' = lib' THEN "OK" ELSE "FAILED"]
                 /\ UNCHANGED <<array, needScan, reply, service, together>>

\* cs_take_snapshot: the refusal of the snapshot is traced as if its number
\* were a string, that of the commit is traced only.
TakeSnapshot ==
    /\ call.pc = "take"
    /\ \E vg \in get_VG_name(array, call.source) :
          \/ vg = "died" /\ Die("CreateReplica")
          \/ /\ vg = "FAILED"
             /\ Commit(lib)
             /\ call' = [call EXCEPT !.pc = "scan", !.rc = "FAILED"]
             /\ UNCHANGED <<array, needScan, reply>>
          \/ /\ vg \in Vgs
             /\ LET size == get_vol_size(lib, array, call.source)
                IN  \/ /\ CanSnapshot(lib, vg, call.source, call.replica, size)
                       /\ Commit(lib \cup {Lv(vg, call.replica, size, call.source)})
                       /\ call' = [call EXCEPT !.pc = "scan"]
                    \/ /\ ~CanSnapshot(lib, vg, call.source, call.replica, size)
                       /\ Commit(lib)
                       /\ call' = [call EXCEPT !.pc = "scan", !.rc = "FAILED"]
             /\ UNCHANGED <<array, needScan, reply>>
          \/ /\ vg \in Vgs /\ ~CanSnapshot(lib, vg, call.source, call.replica, get_vol_size(lib, array, call.source))
             /\ Die("CreateReplica")
    /\ UNCHANGED <<service, together>>

\* Mutant: the arrays stay as they were.
MutantScanAndAnswer ==
    /\ call.pc = "scan"
    /\ UNCHANGED <<array, needScan>>
    /\ call' = NoCall
    /\ reply' = [op |-> "CreateReplica", rc |-> call.rc, found |-> {call}]
    /\ UNCHANGED <<lib, disk, service, together>>

\* Every path scans before it answers.  (The reply keeps the request.)
ScanAndAnswer ==
    /\ call.pc = "scan"
    /\ SCSScanStorage
    /\ call' = NoCall
    /\ reply' = [op |-> "CreateReplica", rc |-> call.rc, found |-> {call}]
    /\ UNCHANGED <<lib, disk, service, together>>

\* ReturnToStoragePool, of a replica or a volume without one.
ReturnToStoragePool ==
    /\ Idle /\ service /\ ~needScan
    /\ \E v \in DOMAIN array :
          LET gone == {l \in LvsOf(lib, array[v]) : l.name = v}
              can == gone # {} /\ ~HasReplicas(lib, array[v], v)
          IN  /\ Commit(IF can THEN lib \ gone ELSE lib)
              /\ array' \in ScanResults(lib') /\ needScan' = FALSE
              /\ reply' = Answer("ReturnToStoragePool", IF can THEN "OK" ELSE "FAILED", {})
    /\ UNCHANGED <<call, service, together>>

\* The array provider's process is killed.
Kill ==
    /\ call # NoCall \/ lib # disk \/ ~needScan
    /\ Die("killed")
    /\ UNCHANGED <<service, together>>

\* An answer of the copy services provider: of its enumerations, which have
\* the array provider scan when it must, and of its other operations.  In a
\* process of its own it has no storage handle, and no volume is found.
Answers(answers, a) ==
    \E out \in answers :
        \/ out.rc = "died" /\ together /\ Die("copy")
        \/ /\ out.rc # "died" \/ ~together
           /\ array' = a /\ needScan' = (needScan /\ a = array)
           /\ reply' = Answer("copy", out.rc, out.found)
           /\ IF out.commits THEN Commit(lib) ELSE UNCHANGED <<lib, disk>>
           /\ UNCHANGED call
Held(a) == IF together THEN a ELSE <<>>
Shown(a) == IF service THEN DOMAIN a ELSE {}

AssocNames ==
    {<<"StorageReplicationElementCapabilities", SCS, SRC>>}
    \cup {Synchronized(class, v, w) : class \in Classes, v \in DOMAIN array, w \in LvNames}
Objects == {SCS, SRC} \cup {VolumePath(v) : v \in DOMAIN array}

Enumerate ==
    /\ Idle
    /\ \E a \in (IF service THEN Scanned ELSE {array}), class \in AssocClasses \cup {SRC[1]} :
          \/ Answers(CopyServicesProviderEnumInstanceNames(class, Held(a), Shown(a)), a)
          \/ Answers(CopyServicesProviderEnumInstances(class, Held(a), Shown(a)), a)
    /\ UNCHANGED <<service, together>>

GetOrDelete ==
    /\ Idle
    /\ \E name \in AssocNames \cup {SRC} :
          \/ Answers(CopyServicesProviderGetInstance(name, Held(array), Shown(array)), array)
          \/ Answers(CopyServicesProviderDeleteInstance(name, Held(array)), array)
          \/ Answers(NotSupported, array)
    /\ UNCHANGED <<service, together>>

Navigate ==
    /\ Idle
    /\ LET K == Held(array)
           E == Shown(array)
           asked == Objects \X (AssocClasses \cup {NULL}) \X (Roles \cup {NULL})
           ends == (EndClasses \cup {NULL}) \X (Roles \cup {NULL})
       IN  \/ Answers(UNION {CopyServicesProviderReferenceNames(q[1], q[2], q[3], K, E) : q \in asked}, array)
           \/ Answers(UNION {CopyServicesProviderReferences(q[1], q[2], q[3], K, E) : q \in asked}, array)
           \/ Answers(UNION {CopyServicesProviderAssociatorNames(q[1], q[2], r[1], q[3], r[2], K, E)
                             : q \in asked, r \in ends}, array)
           \/ Answers(UNION {CopyServicesProviderAssociators(q[1], q[2], r[1], q[3], r[2], K, E)
                             : q \in asked, r \in ends}, array)
    /\ UNCHANGED <<service, together>>

-----------------------------------------------------------------------------
Init ==
    /\ lib = FirstLvs /\ disk = FirstLvs
    /\ array = <<>> /\ needScan = TRUE
    /\ call = NoCall /\ reply = NoReply
    /\ service \in BOOLEAN /\ together \in BOOLEAN

Next ==
    \/ CreateReplica \/ Refuse \/ TakeSnapshot \/ ScanAndAnswer
    \/ ReturnToStoragePool \/ Kill
    \/ Enumerate \/ GetOrDelete \/ Navigate

Spec == Init /\ [][Next]_vars

-----------------------------------------------------------------------------
(***************************************************************************)
(* Properties                                                              *)
(***************************************************************************)
\* A replica lies beside its source, is as large, and is a logical disk if its
\* source is: in the library and on the disk, whatever commits, queries and
\* processes fail between the snapshots, the removals and the restarts.
ReplicasAreOfSources ==
    \A L \in {lib, disk} : \A l \in L : l.origin # NULL =>
        \E o \in LvsOf(L, l.vg) : o.name = l.origin /\ o.size = l.size /\ ClassOf(o.name) = ClassOf(l.name)

\* A CreateReplica of copy type 4 that is answered "completed" has made one:
\* the library has it, made of the volume that was named and beside it, and
\* arrays that show the source show it in the same group.  (A scan in which the
\* query of that group fails shows neither.)
AnsweredReplicaIsShown ==
    reply.op = "CreateReplica" /\ reply.rc = "OK" =>
        \A c \in reply.found : c.copyType = 4 =>
            /\ \E l \in lib : /\ l.name = c.replica /\ l.origin = c.source /\ Has(lib, l.vg, c.source)
                           /\ c.source \in DOMAIN array => array[c.source] = l.vg
            /\ c.source \in DOMAIN array =>
                   c.replica \in DOMAIN array /\ array[c.replica] = array[c.source]

\* What the library holds changes by a snapshot that is answered "completed",
\* by a volume given back, and by a restart: a refused or failed CreateReplica
\* and whatever is asked of the copy services provider leave it.
OnlyAnsweredChanges ==
    [][lib' # lib =>
         \/ call.pc = "take" /\ call'.rc = "OK"
         \/ reply'.op = "ReturnToStoragePool" /\ reply'.rc = "OK"
         \/ reply'.rc = "died" /\ lib' = disk]_vars
=============================================================================
