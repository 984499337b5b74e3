---------------- MODULE StorageConfigurationService_proofs ----------------
(***************************************************************************)
(* Proofs about StorageConfigurationService, for any set of groups and     *)
(* volume names, any capacity and any requests clients make.               *)
(***************************************************************************)
EXTENDS StorageConfigurationService, TLAPS

(***************************************************************************)
(* What holds of the request's parameters at each step.  The pool of a     *)
(* step that works on one is a pool, the pool and names of a step that     *)
(* works on a volume are the library's, and the partitions a step is about *)
(* to use or to remove are there.                                          *)
(***************************************************************************)
OnPool == {"delete", "removevg", "unpartition", "modify", "rename", "finish"}
OnVolume == {"resize", "relabel", "removelv"}

Parameters ==
    /\ call.pc \in OnPool => call.pool \in Pools
    /\ call.pc \in {"carve", "makelv"} \cup OnVolume => call.pool \in VgNames
    /\ call.pc \in OnVolume => call.vol \in LvNames
    /\ call.pc = "makelv" => call.elm \in LvNames
    /\ call.pc = "partition" => call.in \in Pools
    /\ call.pc \in {"compose", "unpartition"} => call.part <= lib.orphan
    /\ call.pc = "removelv" => call.op = "ReturnToStoragePool"
    /\ (call.pc \in {"enter", "resolve"} /\ call.op = "ReturnToStoragePool")
          => call.vol \in LvNames

\* A volume without the name parameter does not get past the copy of it.
Named ==
    call.elm = NULL =>
        /\ call.pc \in {"enter", "resolve"}
        /\ call.op = "CreateOrModifyElementFromStoragePool"

TypeInv == TypeOK /\ Parameters

-----------------------------------------------------------------------------
(***************************************************************************)
(* Arithmetic.                                                             *)
(***************************************************************************)
\* A size cut down to whole units is a size, no larger, and not zero unless
\* it was below one unit (createLvmLv and resizeVolumeNoFs take megabytes).
LEMMA TruncatedFacts ==
    ASSUME NEW n \in Nat
    PROVE  /\ Truncated(n) \in Nat
           /\ n >= MinVolumeSize => Truncated(n) > 0
<1>1. MinVolumeSize \in Nat /\ MinVolumeSize > 0
  BY SizesAssumption
<1>2. n \div MinVolumeSize \in Nat
  BY <1>1
<1>3. n >= MinVolumeSize => n \div MinVolumeSize >= 1
  BY <1>1
<1> DEFINE q == n \div MinVolumeSize
<1>4. q * MinVolumeSize \in Nat
  BY <1>1, <1>2
<1>5. q >= 1 => q * MinVolumeSize > 0
  BY <1>1, <1>2
<1> QED
  BY <1>3, <1>4, <1>5 DEF Truncated

\* Kilobytes of a size.
LEMMA KilobytesNat ==
    ASSUME NEW n \in Nat
    PROVE  n \div OneKB \in Nat
  BY SizesAssumption

(***************************************************************************)
(* The library's operations keep a storage state a storage state.          *)
(***************************************************************************)
\* The initial storage.
LEMMA BlankStorageType == BlankStorage \in Storage
  BY CapacityAssumption DEF BlankStorage, Storage, StorageOf, NoLvs

\* createPartitionKb and removePartition.
LEMMA PartitionTypes ==
    ASSUME NEW st \in Storage, NEW n \in Nat
    PROVE  /\ n <= st.free => Partitioned(st, n) \in Storage
           /\ n <= st.orphan => Unpartitioned(st, n) \in Storage
  BY DEF Storage, Partitioned, Unpartitioned, StorageOf

\* createLvmVg, whatever the name.
LEMMA VgCreatedType ==
    ASSUME NEW st \in Storage, NEW v, NEW n \in Nat, n <= st.orphan
    PROVE  VgCreated(st, v, n) \in Storage
<1>1. /\ st.free \in Nat /\ st.orphan - n \in Nat /\ st.lvs \in [VgNames -> [LvNames -> Nat]]
      /\ st.size \in [VgNames -> Nat] /\ st.pefree \in [VgNames -> Nat]
  BY DEF Storage
<1>2. [st.size EXCEPT ![v] = n] \in [VgNames -> Nat]
  BY <1>1
<1>3. [st.pefree EXCEPT ![v] = n] \in [VgNames -> Nat]
  BY <1>1
<1> DEFINE left == st.orphan - n
<1> HIDE DEF left
<1> QED
  BY <1>1, <1>2, <1>3 DEF Storage, VgCreated, StorageOf, left

\* extendLvmVg and removeLvmVg.
LEMMA GroupTypes ==
    ASSUME NEW st \in Storage, NEW v \in VgNames, NEW n \in Nat
    PROVE  /\ n <= st.orphan => VgExtended(st, v, n) \in Storage
           /\ VgRemoved(st, v) \in Storage
  BY DEF Storage, VgExtended, VgRemoved, StorageOf, NoLvs

\* createLvmLv, removeLvmLv and resizeVolumeNoFs.
LEMMA VolumeTypes ==
    ASSUME NEW st \in Storage, NEW v \in VgNames, NEW l \in LvNames, NEW n \in Nat
    PROVE  /\ n <= st.pefree[v] => LvCreated(st, v, l, n) \in Storage
           /\ LvRemoved(st, v, l) \in Storage
           /\ n <= st.pefree[v] + st.lvs[v][l] => LvResized(st, v, l, n) \in Storage
<1>1. n <= st.pefree[v] => LvCreated(st, v, l, n) \in Storage
  BY DEF Storage, LvCreated, StorageOf
<1>2. LvRemoved(st, v, l) \in Storage
  BY DEF Storage, LvRemoved, StorageOf
<1>3. ASSUME n <= st.pefree[v] + st.lvs[v][l]
      PROVE  LvResized(st, v, l, n) \in Storage
  <2>1. (st.pefree[v] + st.lvs[v][l]) - n \in Nat
    BY <1>3 DEF Storage
  <2> DEFINE left == (st.pefree[v] + st.lvs[v][l]) - n
  <2>2. LvResized(st, v, l, n) =
          StorageOf(st.free, st.orphan, st.size, [st.pefree EXCEPT ![v] = left],
                    [st.lvs EXCEPT ![v][l] = n])
    BY DEF LvResized
  <2> HIDE DEF left
  <2> QED
    BY <2>1, <2>2 DEF Storage, StorageOf, left
<1> QED
  BY <1>1, <1>2, <1>3

\* vgrename and lvrename.
LEMMA RenameTypes ==
    ASSUME NEW st \in Storage, NEW v \in VgNames, NEW w \in VgNames,
           NEW l \in LvNames, NEW k \in LvNames
    PROVE  /\ VgRenamed(st, v, w) \in Storage
           /\ LvRenamed(st, v, l, k) \in Storage
<1>1. VgRenamed(st, v, w) \in Storage
  BY DEF Storage, VgRenamed, StorageOf, NoLvs
<1>2. LvRenamed(st, v, l, k) \in Storage
  BY DEF Storage, LvRenamed, StorageOf
<1> QED
  BY <1>1, <1>2

\* The arrays a scan fills.
LEMMA ScanResultsType ==
    ASSUME NEW st \in Storage, NEW h \in VgNames \cup {NULL}, NEW m \in VgNames \cup {NULL},
           NEW c \in ScanResults(st, h, m)
    PROVE  c \in Cache /\ c.loaded
<1> DEFINE seen == {v \in VgNames : VgExists(st, v)} \ {h}
<1>1. PICK o \in [LvNames -> VgNames \cup {NULL}] :
        c = [loaded |-> TRUE,
             pools  |-> seen,
             pfree  |-> st.free + (IF h \in VgNames THEN st.size[h] ELSE 0),
             free   |-> [v \in VgNames |-> IF v \in seen THEN st.pefree[v] \div OneKB ELSE 0],
             total  |-> [v \in VgNames |-> IF v \in seen THEN st.size[v] \div OneKB ELSE 0],
             owner  |-> o,
             volSize |-> [l \in LvNames |-> IF o[l] \in VgNames THEN st.lvs[o[l]][l] ELSE 0]]
  BY DEF ScanResults
<1>2. st.free + (IF h \in VgNames THEN st.size[h] ELSE 0) \in Nat
  BY DEF Storage
<1>3. \A v \in VgNames : st.pefree[v] \div OneKB \in Nat /\ st.size[v] \div OneKB \in Nat
  BY KilobytesNat DEF Storage
<1>4. [l \in LvNames |-> IF o[l] \in VgNames THEN st.lvs[o[l]][l] ELSE 0] \in [LvNames -> Nat]
  BY DEF Storage
<1>5. seen \subseteq VgNames
  OBVIOUS
<1> HIDE DEF seen
<1>6. /\ [v \in VgNames |-> IF v \in seen THEN st.pefree[v] \div OneKB ELSE 0] \in [VgNames -> Nat]
      /\ [v \in VgNames |-> IF v \in seen THEN st.size[v] \div OneKB ELSE 0] \in [VgNames -> Nat]
  BY <1>3
<1> QED
  BY <1>1, <1>2, <1>4, <1>5, <1>6 DEF Cache

-----------------------------------------------------------------------------
(***************************************************************************)
(* The building blocks of the actions.                                     *)
(***************************************************************************)
\* A scan.
LEMMA ScanStorageTypes ==
    ASSUME TypeInv, ScanStorage
    PROVE  cache' \in Cache /\ needScan' \in BOOLEAN
<1>1. Missed \subseteq VgNames \cup {NULL}
  BY DEF Missed
<1>2. EmptyCache \in Cache
  BY DEF EmptyCache, Cache
<1> QED
  BY <1>1, <1>2, ScanResultsType DEF ScanStorage, TypeInv, TypeOK

\* A commit.
LEMMA CommitTypes ==
    ASSUME TypeInv, NEW st \in Storage, Commit(st)
    PROVE  lib' = st /\ lib' \in Storage /\ disk' \in Storage /\ stale' \in BOOLEAN
  BY DEF Commit, TypeInv, TypeOK

\* The call after an answer.
LEMMA NoCallType == NoCall \in Call /\ NoCall.pc = "idle" /\ NoReply \in Reply
  BY DEF NoCall, Call, Operations, Steps, Codes, Pools, NoReply, Reply

\* An answer.
LEMMA AnswerTypes ==
    ASSUME TypeInv, NEW rc \in Codes, Answer(rc)
    PROVE  call' \in Call /\ call'.pc = "idle" /\ reply' \in Reply
<1>1. call \in Call
  BY DEF TypeInv, TypeOK
<1>2. call' = NoCall
  BY DEF Answer
<1>3. reply' \in Reply
  BY <1>1 DEF Answer, Reply, Call
<1> QED
  BY <1>2, <1>3, NoCallType

\* The end of the process.
LEMMA DieTypes ==
    ASSUME TypeInv, NEW reason \in Deaths, Die(reason)
    PROVE  TypeInv'
<1>1. lib' \in Storage /\ disk' \in Storage /\ stale' \in BOOLEAN /\ conf' = conf
  BY DEF Die, TypeInv, TypeOK
<1>2. cache' \in Cache /\ needScan' \in BOOLEAN
  BY DEF Die, EmptyCache, Cache
<1>3. call' \in Call /\ call'.pc = "idle"
  BY NoCallType DEF Die
<1>4. reply' \in Reply
  BY NoCallType DEF Die, Reply
<1> QED
  BY <1>1, <1>2, <1>3, <1>4 DEF TypeInv, TypeOK, Parameters, OnPool, OnVolume

\* A step within the request: the program counter, and the code.
LEMMA GotoTypes ==
    ASSUME TypeInv, NEW pc \in Steps, NEW rc \in Codes
    PROVE  /\ Goto(pc) => call' \in Call
           /\ GotoWith(pc, rc) => call' \in Call
  BY DEF Goto, GotoWith, TypeInv, TypeOK, Call

\* Steps that ask nothing of the request's parameters.
LEMMA NoParameters ==
    ASSUME call'.pc \in {"idle", "find", "scan", "nest", "volscan", "deleted"}
    PROVE  Parameters'
  BY DEF Parameters, OnPool, OnVolume

-----------------------------------------------------------------------------
\* The initial state.
LEMMA InitTypeInv == Init => TypeInv
<1> SUFFICES ASSUME Init PROVE TypeInv
  OBVIOUS
<1>1. cache \in Cache
  BY DEF Init, EmptyCache, Cache
<1>2. call \in Call /\ call.pc = "idle" /\ reply \in Reply
  BY NoCallType DEF Init
<1> QED
  BY <1>1, <1>2, BlankStorageType DEF Init, TypeInv, TypeOK, Parameters, OnPool, OnVolume

\* A client's call.
LEMMA InvokeTypes ==
    ASSUME TypeInv, Invoke
    PROVE  TypeInv'
<1>1. PICK r \in Offered :
        call' = [op |-> r.op, pc |-> IF needScan THEN "enter" ELSE "resolve",
                 pool |-> r.pool, in |-> r.in, name |-> r.name, vol |-> r.vol,
                 elm |-> r.elm, goal |-> r.goal, size |-> r.size,
                 part |-> 0, rc |-> "OK"]
  BY DEF Invoke
<1>2. r \in Requests
  BY OfferedAssumption
<1>3. call' \in Call
  <2>1. r.op \in Operations
    BY <1>2 DEF Requests, Operations
  <2>6. r.size = 0 \/ r.size \in Nat
    BY <1>2, Zenon DEF Requests
  <2>5. r.goal \in BOOLEAN
    BY <1>2, Zenon DEF Requests
  <2>2. r.pool \in Pools \cup {NULL} /\ r.in \in Pools \cup {NULL}
    BY <1>2 DEF Requests
  <2>3. r.name \in Pools \cup {NULL}
    BY <1>2 DEF Requests, Pools
  <2>4. r.vol \in LvNames \cup {NULL} /\ r.elm \in LvNames \cup {NULL, EMPTY}
    BY <1>2 DEF Requests
  <2> QED
    BY <1>1, <2>1, <2>2, <2>3, <2>4, <2>5, <2>6 DEF Call, Steps, Codes
<1>4. call'.pc \in {"enter", "resolve"}
  BY <1>1
<1>5. r.op = "ReturnToStoragePool" => r.vol \in LvNames
  BY <1>2 DEF Requests
<1>6. call'.op = "ReturnToStoragePool" => call'.vol \in LvNames
  BY <1>1, <1>5
<1>7. Parameters'
  BY <1>4, <1>6 DEF Parameters, OnPool, OnVolume
<1>8. TypeOK'
  BY <1>3, NoCallType DEF Invoke, storage, model, TypeInv, TypeOK
<1> QED
  BY <1>7, <1>8 DEF TypeInv

\* The scan at the entry points.
LEMMA EnterTypes ==
    ASSUME TypeInv, Enter
    PROVE  TypeInv'
<1>1. cache' \in Cache /\ needScan' \in BOOLEAN
  BY ScanStorageTypes DEF Enter
<1>2. UNCHANGED <<lib, disk, stale, conf>>
  BY DEF Enter, storage
<1>3. CASE conf = "missing"
  <2>1. call' \in Call /\ call'.pc = "idle" /\ reply' \in Reply
    BY <1>3, AnswerTypes DEF Enter, Codes
  <2> QED
    BY <1>1, <1>2, <2>1, NoParameters DEF TypeInv, TypeOK
<1>4. CASE conf # "missing"
  <2>1. call' = [call EXCEPT !.pc = "resolve"] /\ reply' = reply
    BY <1>4 DEF Enter, Goto
  <2>2. call' \in Call
    BY <2>1 DEF TypeInv, TypeOK, Call, Steps
  <2>3. call'.pc = "resolve" /\ call'.op = call.op /\ call'.vol = call.vol /\ call.pc = "enter"
    BY <2>1 DEF Enter, TypeInv, TypeOK, Call
  <2>4. Parameters'
    BY <2>3 DEF TypeInv, Parameters, OnPool, OnVolume
  <2> QED
    BY <1>1, <1>2, <2>1, <2>2, <2>4 DEF TypeInv, TypeOK
<1> QED
  BY <1>3, <1>4

\* The queries, and the request for a scan.
LEMMA ReadTypes ==
    ASSUME TypeInv, Enumerate \/ RequestScan
    PROVE  TypeInv'
<1>1. UNCHANGED <<lib, disk, stale, conf, cache, needScan>>
  BY DEF Enumerate, RequestScan, storage, model
<1>2. call' \in Call /\ call'.pc \in {"idle", "volscan"} /\ reply' \in Reply
  <2>1. CASE Enumerate
    BY <2>1, AnswerTypes DEF Enumerate, Codes
  <2>2. CASE RequestScan
    BY <2>2 DEF RequestScan, Goto, Call, Steps, TypeInv, TypeOK
  <2> QED
    BY <2>1, <2>2
<1> QED
  BY <1>1, <1>2, NoParameters DEF TypeInv, TypeOK

-----------------------------------------------------------------------------
(***************************************************************************)
(* The steps of CreateOrModifyStoragePool.                                 *)
(***************************************************************************)
\* What GetSupportedSizeRange and the searches for a pool return.
LEMMA SizeTypes ==
    ASSUME TypeInv, NEW p \in Pools
    PROVE  Remaining(p) \in Nat /\ MaxSize(p) \in Nat
  BY DEF Remaining, MaxSize, Pools, TypeInv, TypeOK, Cache

\* Looking up the parameters.
LEMMA ResolvePoolTypes ==
    ASSUME TypeInv, ResolvePool
    PROVE  TypeInv'
<1>1. UNCHANGED <<lib, disk, stale, conf, cache, needScan>>
  BY DEF ResolvePool, storage, model
<1>2. call \in Call
  BY DEF TypeInv, TypeOK
<1>3. CASE Answer("INVALID_PARAM") \/ Answer("SIZE_NOT_SUPPORTED")
  <2>1. call' \in Call /\ call'.pc = "idle" /\ reply' \in Reply
    BY <1>3, AnswerTypes DEF Codes
  <2> QED
    BY <1>1, <2>1, NoParameters DEF TypeInv, TypeOK
<1>4. CASE /\ call' = [call EXCEPT
                         !.pc = IF call.pool = NULL THEN "find" ELSE "delete",
                         !.name = IF @ = NULL THEN call.pool ELSE @]
           /\ UNCHANGED reply
  <2> DEFINE name == IF call.name = NULL THEN call.pool ELSE call.name
             pc == IF call.pool = NULL THEN "find" ELSE "delete"
  <2>3. name \in Pools \cup {NULL}
    BY <1>2 DEF Call
  <2>4. call' = [call EXCEPT !.pc = pc, !.name = name]
    BY <1>4
  <2>5. /\ call.pool = NULL => pc = "find"
        /\ call.pool # NULL => pc = "delete"
    OBVIOUS
  <2> HIDE DEF name, pc
  <2>1. CASE call.pool = NULL
    <3>1. call' \in Call /\ call'.pc = "find"
      BY ZenonT(60), <1>2, <2>1, <2>3, <2>4, <2>5 DEF Call, Steps
    <3> QED
      BY <1>1, <1>4, <3>1, NoParameters DEF TypeInv, TypeOK
  <2>2. CASE call.pool # NULL
    <3>1. call' \in Call /\ call'.pc = "delete" /\ call'.pool \in Pools
      BY <1>2, <2>2, <2>3, <2>4, <2>5 DEF Call, Steps
    <3>2. Parameters'
      BY <3>1 DEF Parameters, OnPool, OnVolume
    <3> QED
      BY <1>1, <1>4, <3>1, <3>2 DEF TypeInv, TypeOK
  <2> QED
    BY <2>1, <2>2
<1> QED
  BY <1>3, <1>4 DEF ResolvePool

\* Finding the input pool.
LEMMA FindTypes ==
    ASSUME TypeInv, Find
    PROVE  TypeInv'
<1>1. UNCHANGED <<lib, disk, stale, conf, cache, needScan, reply>>
  BY DEF Find, storage, model
<1>2. call \in Call
  BY DEF TypeInv, TypeOK
<1> DEFINE fits == IF call.in = NULL THEN PoolsFindByGoal(call.size)
                   ELSE {p \in {call.in} : Supports(p, call.size)}
<1>3. fits \subseteq Pools
  BY <1>2 DEF PoolsFindByGoal, Call, Pools
<1>4. GeneratedNames \subseteq VgNames
  BY DEF GeneratedNames
<1> HIDE DEF fits
<1>5. CASE GotoWith(IF call.pool = NULL THEN "scan" ELSE "finish", "SIZE_NOT_SUPPORTED")
  <2>1. CASE call.pool = NULL
    <3>2. GotoWith("scan", "SIZE_NOT_SUPPORTED")
      BY <1>5, <2>1
    <3>1. call' \in Call /\ call'.pc = "scan"
      BY <1>2, <3>2 DEF Call, Steps, Codes, GotoWith
    <3> QED
      BY <1>1, <3>1, NoParameters DEF TypeInv, TypeOK
  <2>2. CASE call.pool # NULL
    <3>3. GotoWith("finish", "SIZE_NOT_SUPPORTED")
      BY <1>5, <2>2
    <3>1. call' \in Call /\ call'.pc = "finish" /\ call'.pool \in Pools
      BY <1>2, <2>2, <3>3 DEF Call, Steps, Codes, GotoWith
    <3>2. Parameters'
      BY <3>1 DEF Parameters, OnPool, OnVolume
    <3> QED
      BY <1>1, <3>1, <3>2 DEF TypeInv, TypeOK
  <2> QED
    BY <2>1, <2>2
<1>6. ASSUME NEW p \in fits,
             NEW name \in IF call.name = NULL THEN GeneratedNames ELSE {call.name},
             call' = [call EXCEPT !.pc = "partition", !.in = p, !.name = name,
                                  !.size = IF @ = 0 THEN MaxSize(p) ELSE @]
      PROVE  TypeInv'
  <2>1. p \in Pools /\ name \in Pools \cup {NULL} /\ MaxSize(p) \in Nat
    BY <1>2, <1>3, <1>4, SizeTypes DEF Call, Pools
  <2>2. call' \in Call /\ call'.pc = "partition" /\ call'.in \in Pools
    BY ZenonT(60), <1>2, <1>6, <2>1 DEF Call, Steps
  <2>3. Parameters'
    BY <2>2 DEF Parameters, OnPool, OnVolume
  <2> QED
    BY <1>1, <2>2, <2>3 DEF TypeInv, TypeOK
<1> QED
  BY <1>5, <1>6 DEF Find, fits

\* Partitioning.
LEMMA PartitionStepTypes ==
    ASSUME TypeInv, Partition
    PROVE  TypeInv'
<1>1. UNCHANGED <<conf, cache, needScan, reply>>
  BY DEF Partition, model
<1>2. call \in Call /\ lib \in Storage /\ call.size \in Nat
  BY DEF TypeInv, TypeOK, Call
<1>4. CASE /\ call.size <= lib.free
           /\ Commit(Partitioned(lib, call.size))
           /\ call' = [call EXCEPT !.pc = "compose", !.part = call.size]
  <2>1. Partitioned(lib, call.size) \in Storage
    BY <1>2, <1>4, PartitionTypes
  <2>2. lib' = Partitioned(lib, call.size) /\ lib' \in Storage /\ disk' \in Storage /\ stale' \in BOOLEAN
    BY <1>4, <2>1, CommitTypes
  <2>3. call' \in Call /\ call'.pc = "compose" /\ call'.part = call.size
    BY <1>2, <1>4 DEF Call, Steps
  <2>4. call.size <= lib'.orphan
    BY <1>2, <2>2 DEF Partitioned, StorageOf, Storage
  <2>5. Parameters'
    BY <2>3, <2>4 DEF Parameters, OnPool, OnVolume
  <2> QED
    BY <1>1, <2>2, <2>3, <2>5 DEF TypeInv, TypeOK
<1>5. ASSUME NEW n \in {0, Grain}, n = 0 \/ n <= lib.free,
             Commit(Partitioned(lib, n)),
             call' = [call EXCEPT !.pc = "compose", !.part = 0]
      PROVE  TypeInv'
  <2>1. n \in Nat /\ n <= lib.free
    BY <1>2, <1>5, SizesAssumption DEF Storage
  <2>2. Partitioned(lib, n) \in Storage
    BY <1>2, <2>1, PartitionTypes
  <2>3. lib' = Partitioned(lib, n) /\ lib' \in Storage /\ disk' \in Storage /\ stale' \in BOOLEAN
    BY <1>5, <2>2, CommitTypes
  <2>4. call' \in Call /\ call'.pc = "compose" /\ call'.part = 0
    BY <1>2, <1>5 DEF Call, Steps
  <2>5. Parameters'
    BY <2>3, <2>4 DEF Storage, Parameters, OnPool, OnVolume
  <2> QED
    BY <1>1, <2>3, <2>4, <2>5 DEF TypeInv, TypeOK
<1> QED
  BY <1>4, <1>5 DEF Partition

\* Creating the group.
LEMMA CreateCompositionTypes ==
    ASSUME TypeInv, CreateComposition
    PROVE  TypeInv'
<1>1. call \in Call /\ lib \in Storage
  BY DEF TypeInv, TypeOK
<1>2. call.part \in Nat /\ call.part <= lib.orphan
  BY DEF CreateComposition, TypeInv, TypeOK, Parameters, Call
<1>3. VgCreated(lib, call.name, call.part) \in Storage
  BY <1>1, <1>2, VgCreatedType
<1>4. CASE /\ \E st \in Storage : Commit(st)
           /\ \/ call' = [call EXCEPT !.pc = "scan", !.part = 0]
              \/ call' = [call EXCEPT !.pc = "scan", !.part = 0, !.rc = "FAILED"]
           /\ UNCHANGED <<conf, model, reply>>
  <2>1. PICK st \in Storage : Commit(st)
    BY <1>4
  <2>2. lib' \in Storage /\ disk' \in Storage /\ stale' \in BOOLEAN
    BY <2>1, CommitTypes
  <2>3. CASE call' = [call EXCEPT !.pc = "scan", !.part = 0]
    <3>1. call' \in Call /\ call'.pc = "scan"
      BY <1>1, <2>3 DEF Call, Steps
    <3> QED
      BY <1>4, <2>2, <3>1, NoParameters DEF model, TypeInv, TypeOK
  <2>4. CASE call' = [call EXCEPT !.pc = "scan", !.part = 0, !.rc = "FAILED"]
    <3>1. call' \in Call /\ call'.pc = "scan"
      BY <1>1, <2>4 DEF Call, Steps, Codes
    <3> QED
      BY <1>4, <2>2, <3>1, NoParameters DEF model, TypeInv, TypeOK
  <2> QED
    BY <1>4, <2>3, <2>4
<1>5. CASE Die("traced number")
  BY <1>5, DieTypes DEF Deaths
<1> QED
  BY <1>1, <1>3, <1>4, <1>5 DEF CreateComposition

\* The choice between expanding a pool and only renaming it.
LEMMA ModifyTypes ==
    ASSUME TypeInv, Modify
    PROVE  TypeInv'
<1>1. UNCHANGED <<lib, disk, stale, conf, cache, needScan, reply>>
  BY DEF Modify, storage, model
<1>2. call \in Call /\ call.size \in Nat /\ call.pool \in Pools
  BY DEF Modify, TypeInv, TypeOK, Call, Parameters, OnPool
<1> DEFINE total == IF call.pool = Primordial THEN Capacity ELSE cache.total[call.pool]
<1>3. total \in Nat
  BY <1>2, CapacityAssumption DEF TypeInv, TypeOK, Cache, Pools
<1> HIDE DEF total
<1>4. CASE Goto("rename")
  <2>1. call' \in Call /\ call'.pc = "rename" /\ call'.pool \in Pools
    BY <1>2, <1>4 DEF Goto, Call, Steps
  <2>2. Parameters'
    BY <2>1 DEF Parameters, OnPool, OnVolume
  <2> QED
    BY <1>1, <2>1, <2>2 DEF TypeInv, TypeOK
<1>5. ASSUME call.size > total, call' = [call EXCEPT !.pc = "find", !.size = @ - total]
      PROVE  TypeInv'
  <2> DEFINE more == call.size - total
  <2>1. more \in Nat
    BY <1>2, <1>3, <1>5
  <2>2. call' = [call EXCEPT !.pc = "find", !.size = more]
    BY <1>5
  <2> HIDE DEF more
  <2>3. call' \in Call /\ call'.pc = "find"
    BY <1>2, <2>1, <2>2 DEF Call, Steps
  <2> QED
    BY <1>1, <2>3, NoParameters DEF TypeInv, TypeOK
<1> QED
  BY <1>4, <1>5 DEF Modify, total

\* Extending the group.
LEMMA ExpandTypes ==
    ASSUME TypeInv, Expand
    PROVE  TypeInv'
<1>1. UNCHANGED <<disk, stale, conf, cache, needScan, reply>>
  BY DEF Expand, model
<1>2. call \in Call /\ lib \in Storage
  BY DEF TypeInv, TypeOK
<1>3. call.part \in Nat /\ call.part <= lib.orphan /\ call.pool \in Pools
  BY DEF Expand, TypeInv, TypeOK, Parameters, Call
<1>4. lib' \in Storage
  BY <1>2, <1>3, GroupTypes DEF Expand
<1>5. call' \in Call /\ call'.pc \in {"rename", "finish"} /\ call'.pool \in Pools
  <2>1. CASE call' = [call EXCEPT !.pc = "rename", !.part = 0]
    BY <1>2, <1>3, <2>1 DEF Call, Steps
  <2>2. CASE call' = [call EXCEPT !.pc = "finish", !.part = 0, !.rc = "FAILED"]
    BY <1>2, <1>3, <2>2 DEF Call, Steps, Codes
  <2> QED
    BY <2>1, <2>2 DEF Expand
<1>6. Parameters'
  BY <1>5 DEF Parameters, OnPool, OnVolume
<1> QED
  BY <1>1, <1>4, <1>5, <1>6 DEF TypeInv, TypeOK

\* Renaming the group.
LEMMA RenamePoolTypes ==
    ASSUME TypeInv, RenamePool
    PROVE  TypeInv'
<1>1. UNCHANGED <<lib, conf, cache, needScan, reply>>
  BY DEF RenamePool, model, storage, Commit
<1>2. /\ call \in Call /\ lib \in Storage /\ disk \in Storage /\ stale \in BOOLEAN
      /\ call.pool \in Pools
  BY DEF RenamePool, TypeInv, TypeOK, Parameters, OnPool
<1>3. disk' \in Storage /\ stale' \in BOOLEAN
  <2>1. ASSUME call.pool \in VgNames, call.name \in VgNames
        PROVE  VgRenamed(disk, call.pool, call.name) \in Storage
    <3>1. CASE LvNames = {}
      BY <1>2, <2>1, <3>1 DEF Storage, VgRenamed, StorageOf, NoLvs
    <3>2. CASE LvNames # {}
      BY <1>2, <2>1, <3>2, RenameTypes
    <3> QED
      BY <3>1, <3>2
  <2> QED
    BY <1>2, <2>1, CommitTypes DEF RenamePool, storage
<1>4. call' \in Call /\ call'.pc = "finish" /\ call'.pool \in Pools
  BY <1>2 DEF RenamePool, Goto, GotoWith, Call, Steps, Codes
<1>5. Parameters'
  BY <1>4 DEF Parameters, OnPool, OnVolume
<1> QED
  BY <1>1, <1>2, <1>3, <1>4, <1>5 DEF TypeInv, TypeOK

\* The exit of ModifyConcretePool.
LEMMA FinishTypes ==
    ASSUME TypeInv, Finish
    PROVE  TypeInv'
<1>1. lib \in Storage /\ UNCHANGED <<conf, cache, needScan, reply>>
  BY DEF Finish, model, TypeInv, TypeOK
<1>2. lib' \in Storage /\ disk' \in Storage /\ stale' \in BOOLEAN
  BY <1>1, CommitTypes DEF Finish
<1>3. call' \in Call /\ call'.pc = "scan"
  BY DEF Finish, Goto, Call, Steps, TypeInv, TypeOK
<1> QED
  BY <1>1, <1>2, <1>3, NoParameters DEF TypeInv, TypeOK

\* The exit of CreateOrModifyStoragePool.
LEMMA ScanAfterPoolTypes ==
    ASSUME TypeInv, ScanAfterPool
    PROVE  TypeInv'
<1>1. cache' \in Cache /\ needScan' \in BOOLEAN
  BY ScanStorageTypes DEF ScanAfterPool
<1>2. UNCHANGED <<lib, disk, stale, conf>>
  BY DEF ScanAfterPool, storage
<1>3. call \in Call /\ call.rc \in Codes /\ reply \in Reply
  BY DEF TypeInv, TypeOK, Call
<1>4. CASE Answer(call.rc)
  <2>1. call' \in Call /\ call'.pc = "idle" /\ reply' \in Reply
    BY <1>3, <1>4, AnswerTypes
  <2> QED
    BY <1>1, <1>2, <2>1, NoParameters DEF TypeInv, TypeOK
<1>5. CASE (Goto("volscan") \/ GotoWith("volscan", "INVALID_PARAM")) /\ UNCHANGED reply
  <2>1. call' \in Call /\ call'.pc = "volscan"
    BY ZenonT(60), <1>3, <1>5 DEF Goto, GotoWith, Call, Steps, Codes
  <2> QED
    BY <1>1, <1>2, <1>3, <1>5, <2>1, NoParameters DEF TypeInv, TypeOK
<1>6. CASE /\ call.name \in cache'.pools
           /\ call' = [call EXCEPT !.pc = "carve", !.pool = call.name,
                                   !.size = cache'.free[call.name]]
           /\ UNCHANGED reply
  <2>1. call.name \in VgNames /\ cache'.free[call.name] \in Nat
    BY <1>1, <1>6 DEF Cache
  <2>2. call' \in Call /\ call'.pc = "carve" /\ call'.pool \in VgNames
    BY <1>3, <1>6, <2>1 DEF Call, Steps, Pools
  <2>3. Parameters'
    BY <2>2 DEF Parameters, OnPool, OnVolume
  <2> QED
    BY <1>1, <1>2, <1>3, <1>6, <2>2, <2>3 DEF TypeInv, TypeOK
<1> QED
  BY <1>4, <1>5, <1>6 DEF ScanAfterPool

(***************************************************************************)
(* The steps of DeleteStoragePool.                                         *)
(***************************************************************************)
\* Looking up the pool.
LEMMA ResolveDeleteTypes ==
    ASSUME TypeInv, ResolveDelete
    PROVE  TypeInv'
<1>1. CASE Die("null pool")
  BY <1>1, DieTypes DEF Deaths
<1>2. CASE /\ call.pool # NULL /\ Known(call.pool)
           /\ Goto("delete")
           /\ UNCHANGED <<storage, conf, model, reply>>
  <2>1. call' \in Call /\ call'.pc = "delete" /\ call'.pool \in Pools
    BY <1>2 DEF Goto, Call, Steps, TypeInv, TypeOK
  <2>2. Parameters'
    BY <2>1 DEF Parameters, OnPool, OnVolume
  <2> QED
    BY <1>2, <2>1, <2>2 DEF storage, model, TypeInv, TypeOK
<1> QED
  BY <1>1, <1>2 DEF ResolveDelete

\* The test for a pool in use.
LEMMA DeleteTypes ==
    ASSUME TypeInv, Delete
    PROVE  TypeInv'
<1>1. UNCHANGED <<lib, disk, stale, conf, cache, needScan>>
  BY DEF Delete, storage, model
<1>2. CASE Answer("IN_USE")
  <2>1. call' \in Call /\ call'.pc = "idle" /\ reply' \in Reply
    BY <1>2, AnswerTypes DEF Codes
  <2> QED
    BY <1>1, <2>1, NoParameters DEF TypeInv, TypeOK
<1>3. CASE (Goto("removevg") \/ Goto("modify")) /\ UNCHANGED reply
  <2>1. call' \in Call /\ call'.pc \in {"removevg", "modify"} /\ call'.pool = call.pool
    BY <1>3 DEF Goto, Call, Steps, TypeInv, TypeOK
  <2>2. call.pool \in Pools
    BY DEF Delete, TypeInv, Parameters, OnPool
  <2>3. Parameters'
    BY <2>1, <2>2 DEF Parameters, OnPool, OnVolume
  <2> QED
    BY <1>1, <1>3, <2>1, <2>3 DEF TypeInv, TypeOK
<1> QED
  BY <1>2, <1>3 DEF Delete

\* Removing the group.
LEMMA RemoveVgTypes ==
    ASSUME TypeInv, RemoveVg
    PROVE  TypeInv'
<1>1. UNCHANGED <<disk, stale, conf, cache, needScan, reply>>
  BY DEF RemoveVg, model
<1>2. call \in Call /\ lib \in Storage /\ call.pool \in Pools
  BY DEF RemoveVg, TypeInv, TypeOK, Parameters, OnPool
<1>3. CASE /\ call.pool \in VgNames
           /\ lib' = VgRemoved(lib, call.pool)
           /\ call' = [call EXCEPT !.pc = "unpartition", !.part = lib.size[call.pool]]
  <2>1. lib' \in Storage /\ lib.size[call.pool] \in Nat
    BY <1>2, <1>3, GroupTypes DEF Storage
  <2>2. /\ call' \in Call /\ call'.pc = "unpartition" /\ call'.pool \in Pools
        /\ call'.part = lib.size[call.pool]
    BY <1>2, <1>3, <2>1 DEF Call, Steps
  <2>3. lib.size[call.pool] <= lib'.orphan
    BY <1>2, <1>3, <2>1 DEF VgRemoved, StorageOf, Storage
  <2>4. Parameters'
    BY <2>2, <2>3 DEF Parameters, OnPool, OnVolume
  <2> QED
    BY <1>1, <2>1, <2>2, <2>4 DEF TypeInv, TypeOK
<1>4. CASE /\ UNCHANGED lib
           /\ call' = [call EXCEPT !.pc = "unpartition", !.part = 0, !.rc = "FAILED"]
  <2>1. /\ call' \in Call /\ call'.pc = "unpartition" /\ call'.pool \in Pools
        /\ call'.part = 0
    BY <1>2, <1>4 DEF Call, Steps, Codes
  <2>2. Parameters'
    BY <1>2, <1>4, <2>1 DEF Parameters, OnPool, OnVolume, Storage
  <2> QED
    BY <1>1, <1>2, <1>4, <2>1, <2>2 DEF TypeInv, TypeOK
<1> QED
  BY <1>3, <1>4 DEF RemoveVg

\* Removing the partitions.
LEMMA UnpartitionTypes ==
    ASSUME TypeInv, Unpartition
    PROVE  TypeInv'
<1>1. UNCHANGED <<conf, cache, needScan, reply>>
  BY DEF Unpartition, model
<1>2. call \in Call /\ lib \in Storage /\ call.part \in Nat /\ call.part <= lib.orphan
  BY DEF Unpartition, TypeInv, TypeOK, Parameters, Call
<1>3. PICK n \in {0, call.part} : Commit(Unpartitioned(lib, n))
  BY DEF Unpartition
<1>4. n \in Nat /\ n <= lib.orphan
  BY <1>2, <1>3 DEF Storage
<1>5. Unpartitioned(lib, n) \in Storage
  BY <1>2, <1>4, PartitionTypes
<1>6. lib' \in Storage /\ disk' \in Storage /\ stale' \in BOOLEAN
  BY <1>3, <1>5, CommitTypes
<1>7. call' \in Call /\ call'.pc = "deleted"
  BY <1>2 DEF Unpartition, Call, Steps
<1> QED
  BY <1>1, <1>6, <1>7, NoParameters DEF TypeInv, TypeOK

\* The scan at the end.
LEMMA ScanAfterDeleteTypes ==
    ASSUME TypeInv, ScanAfterDelete
    PROVE  TypeInv'
<1>1. CASE Die("null input pool") \/ Die("freed goal")
  BY <1>1, DieTypes DEF Deaths
<1>2. CASE ScanStorage /\ UNCHANGED <<storage, conf>>
  <2>1. cache' \in Cache /\ needScan' \in BOOLEAN
    BY <1>2, ScanStorageTypes
  <2>2. call \in Call /\ call.rc \in Codes
    BY DEF TypeInv, TypeOK, Call
  <2>3. CASE Answer(call.rc)
    <3>1. call' \in Call /\ call'.pc = "idle" /\ reply' \in Reply
      BY <2>2, <2>3, AnswerTypes
    <3> QED
      BY <1>2, <2>1, <3>1, NoParameters DEF storage, TypeInv, TypeOK
  <2>4. CASE Goto("scan") /\ UNCHANGED reply
    <3>1. call' \in Call /\ call'.pc = "scan"
      BY <2>2, <2>4 DEF Goto, Call, Steps
    <3> QED
      BY <1>2, <2>1, <2>4, <3>1, NoParameters DEF storage, TypeInv, TypeOK
  <2>5. CASE call' = [call EXCEPT !.pc = "find", !.pool = NULL] /\ UNCHANGED reply
    <3>1. call' \in Call /\ call'.pc = "find"
      BY <2>2, <2>5 DEF Call, Steps
    <3> QED
      BY <1>2, <2>1, <2>5, <3>1, NoParameters DEF storage, TypeInv, TypeOK
  <2> QED
    BY <1>1, <2>3, <2>4, <2>5 DEF ScanAfterDelete
<1> QED
  BY <1>1, <1>2 DEF ScanAfterDelete

(***************************************************************************)
(* The steps about volumes.                                                *)
(***************************************************************************)
\* Looking up pool and volume.
LEMMA ResolveElementTypes ==
    ASSUME TypeInv, ResolveElement
    PROVE  TypeInv'
<1> DEFINE vol == IF call.vol \in LvNames /\ cache.owner[call.vol] # NULL
                  THEN call.vol ELSE NULL
           pool == IF call.pool # NULL /\ Known(call.pool) THEN call.pool ELSE NULL
           given == call.goal /\ cache.loaded
           roomy == {p \in Pools : /\ Known(p)
                                   /\ given \/ Remaining(p) >= MinVolumeSize}
           choices == IF vol # NULL THEN {cache.owner[vol]}
                      ELSE IF pool # NULL THEN {pool}
                      ELSE IF roomy \cap VgNames # {} THEN roomy \cap VgNames
                      ELSE roomy
<1>1. call \in Call /\ cache \in Cache
  BY DEF TypeInv, TypeOK
<1>2. vol \in LvNames \cup {NULL} /\ pool \in Pools \cup {NULL} /\ roomy \subseteq Pools
  BY <1>1 DEF Call
<1>3. vol # NULL => vol \in LvNames /\ cache.owner[vol] \in VgNames
  BY <1>1 DEF Cache
<1>4. choices \subseteq Pools /\ (vol # NULL => choices \subseteq VgNames)
  BY <1>2, <1>3 DEF Pools
<1>5. CASE Die("null name")
  BY <1>5, DieTypes DEF Deaths
<1>6. CASE Answer("INVALID_PARAM") /\ UNCHANGED <<storage, conf, model>>
  <2>1. call' \in Call /\ call'.pc = "idle" /\ reply' \in Reply
    BY <1>6, AnswerTypes DEF Codes
  <2> QED
    BY <1>6, <2>1, NoParameters DEF storage, model, TypeInv, TypeOK
<1> HIDE DEF vol, pool, given, roomy, choices
<1>7. ASSUME NEW p \in choices,
             call' = [call EXCEPT !.pool = p, !.vol = vol,
                        !.pc = IF vol # NULL THEN "resize"
                               ELSE IF p = Primordial THEN "nest" ELSE "carve"],
             UNCHANGED <<storage, conf, model, reply>>
      PROVE  TypeInv'
  <2> DEFINE pc == IF vol # NULL THEN "resize"
                   ELSE IF p = Primordial THEN "nest" ELSE "carve"
  <2>1. /\ pc \in {"resize", "nest", "carve"}
        /\ pc = "resize" => vol \in LvNames /\ p \in VgNames
        /\ pc = "carve" => p \in VgNames
    BY <1>2, <1>3, <1>4, <1>7 DEF Pools
  <2>2. call' = [call EXCEPT !.pool = p, !.vol = vol, !.pc = pc]
    BY <1>7
  <2>3. p \in Pools
    BY <1>4, <1>7
  <2> HIDE DEF pc
  <2>4. call' \in Call /\ call'.pc = pc /\ call'.pool = p /\ call'.vol = vol
    BY <1>1, <1>2, <2>1, <2>2, <2>3 DEF Call, Steps
  <2>5. Parameters'
    BY <2>1, <2>4 DEF Parameters, OnPool, OnVolume
  <2> QED
    BY <1>7, <2>4, <2>5 DEF storage, model, TypeInv, TypeOK
<1> QED
  BY <1>5, <1>6, <1>7 DEF ResolveElement, vol, pool, given, roomy, choices

\* A volume of the primordial pool.
LEMMA NestTypes ==
    ASSUME TypeInv, Nest
    PROVE  TypeInv'
<1>1. call \in Call /\ UNCHANGED <<lib, disk, stale, conf, cache, needScan, reply>>
  BY DEF Nest, storage, model, TypeInv, TypeOK
<1>2. call' \in Call /\ call'.pc \in {"volscan", "find"}
  <2>1. CASE GotoWith("volscan", "SIZE_NOT_SUPPORTED")
    BY <1>1, <2>1 DEF GotoWith, Call, Steps, Codes
  <2>2. CASE call' = [call EXCEPT !.pc = "find", !.pool = NULL, !.in = Primordial]
    BY <1>1, <2>2 DEF Call, Steps, Pools
  <2> QED
    BY <2>1, <2>2 DEF Nest
<1> QED
  BY <1>1, <1>2, NoParameters DEF TypeInv, TypeOK

\* A volume's size and name.
LEMMA CarveTypes ==
    ASSUME TypeInv, Named, Carve
    PROVE  TypeInv'
<1> DEFINE left == Remaining(call.pool)
           name == IF call.elm = EMPTY THEN GenVol[call.pool] ELSE call.elm
<1>1. call \in Call /\ lib \in Storage /\ UNCHANGED <<conf, cache, needScan, reply>>
  BY DEF Carve, model, TypeInv, TypeOK
<1>7. lib' \in Storage /\ disk' \in Storage /\ stale' \in BOOLEAN
  <2>1. UNCHANGED storage \/ Commit(lib)
    BY DEF Carve
  <2> QED
    BY <1>1, <2>1, CommitTypes DEF storage, TypeInv, TypeOK
<1>2. call.pc = "carve" /\ call.pool \in VgNames /\ call.elm # NULL
  BY DEF Carve, TypeInv, Parameters, Named
<1>3. name \in LvNames
  BY <1>1, <1>2, NamesAssumption DEF Call
<1>4. left \in Nat
  BY <1>2, SizeTypes DEF Pools
<1>5. CASE GotoWith("volscan", "SIZE_NOT_SUPPORTED") \/ GotoWith("volscan", "INVALID_PARAM")
  <2>1. call' \in Call /\ call'.pc = "volscan"
    BY ZenonT(60), <1>1, <1>5 DEF GotoWith, Call, Steps, Codes
  <2> QED
    BY <1>1, <1>7, <2>1, NoParameters DEF TypeInv, TypeOK
<1> HIDE DEF left, name
<1>6. CASE call' = [call EXCEPT !.pc = "makelv", !.elm = name,
                                !.size = IF @ = 0 THEN left ELSE @]
  <2> DEFINE size == IF call.size = 0 THEN left ELSE call.size
  <2>1. size \in Nat
    BY <1>1, <1>4 DEF Call
  <2>2. call' = [call EXCEPT !.pc = "makelv", !.elm = name, !.size = size]
    BY <1>6
  <2> HIDE DEF size
  <2>3. /\ call' \in Call /\ call'.pc = "makelv" /\ call'.elm = name
        /\ call'.pool = call.pool
    BY <1>1, <1>3, <2>1, <2>2 DEF Call, Steps
  <2>4. Parameters'
    BY <1>2, <1>3, <2>3 DEF Parameters, OnPool, OnVolume
  <2> QED
    BY <1>1, <1>7, <2>3, <2>4 DEF TypeInv, TypeOK
<1> QED
  BY <1>5, <1>6 DEF Carve, left, name

\* Creating the volume.
LEMMA MakeLvTypes ==
    ASSUME TypeInv, MakeLv
    PROVE  TypeInv'
<1>1. call \in Call /\ lib \in Storage /\ UNCHANGED <<conf, cache, needScan, reply>>
  BY DEF MakeLv, model, TypeInv, TypeOK
<1>2. call.pool \in VgNames /\ call.elm \in LvNames
  BY DEF MakeLv, TypeInv, Parameters
<1>3. PICK st \in Storage : Commit(st)
  <2>1. CASE Commit(lib)
    BY <1>1, <2>1
  <2>2. CASE /\ Truncated(call.size) \in 1..lib.pefree[call.pool]
             /\ Commit(LvCreated(lib, call.pool, call.elm, Truncated(call.size)))
    <3>1. Truncated(call.size) \in Nat /\ Truncated(call.size) <= lib.pefree[call.pool]
      BY <1>1, <1>2, <2>2, TruncatedFacts DEF Call, Storage
    <3> QED
      BY <1>1, <1>2, <2>2, <3>1, VolumeTypes
  <2> QED
    BY <2>1, <2>2 DEF MakeLv
<1>4. lib' \in Storage /\ disk' \in Storage /\ stale' \in BOOLEAN
  BY <1>3, CommitTypes
<1>5. call' \in Call /\ call'.pc = "volscan"
  BY ZenonT(60), <1>1 DEF MakeLv, Goto, GotoWith, Call, Steps, Codes
<1> QED
  BY <1>1, <1>4, <1>5, NoParameters DEF TypeInv, TypeOK

\* Resizing the volume.
LEMMA ResizeTypes ==
    ASSUME TypeInv, Resize
    PROVE  TypeInv'
<1>1. call \in Call /\ lib \in Storage /\ UNCHANGED <<conf, cache, needScan, reply>>
  BY DEF Resize, model, TypeInv, TypeOK
<1>2. call.pc = "resize" /\ call.pool \in VgNames /\ call.vol \in LvNames
  BY DEF Resize, TypeInv, Parameters, OnVolume
<1>3. lib' \in Storage /\ disk' \in Storage /\ stale' \in BOOLEAN
  <2>1. CASE UNCHANGED storage
    BY <2>1 DEF storage, TypeInv, TypeOK
  <2>2. CASE Commit(lib)
    BY <1>1, <2>2, CommitTypes
  <2>3. CASE /\ Truncated(call.size) <= lib.pefree[call.pool] + lib.lvs[call.pool][call.vol]
             /\ Commit(LvResized(lib, call.pool, call.vol, Truncated(call.size)))
    <3>1. Truncated(call.size) \in Nat
      BY <1>1, TruncatedFacts DEF Call
    <3>2. LvResized(lib, call.pool, call.vol, Truncated(call.size)) \in Storage
      BY <1>1, <1>2, <2>3, <3>1, VolumeTypes
    <3> QED
      BY <2>3, <3>2, CommitTypes
  <2> QED
    BY <2>1, <2>2, <2>3 DEF Resize
<1>4. CASE Goto("relabel")
  <2>1. /\ call' \in Call /\ call'.pc = "relabel" /\ call'.pool = call.pool
        /\ call'.vol = call.vol
    BY <1>1, <1>4 DEF Goto, Call, Steps
  <2>2. Parameters'
    BY <1>2, <2>1 DEF Parameters, OnPool, OnVolume
  <2> QED
    BY <1>1, <1>3, <2>1, <2>2 DEF TypeInv, TypeOK
<1>5. CASE GotoWith("volscan", "NOT_SUPPORTED")
  <2>1. call' \in Call /\ call'.pc = "volscan"
    BY <1>1, <1>5 DEF GotoWith, Call, Steps, Codes
  <2> QED
    BY <1>1, <1>3, <2>1, NoParameters DEF TypeInv, TypeOK
<1> QED
  BY <1>4, <1>5 DEF Resize

\* Renaming the volume.
LEMMA RelabelTypes ==
    ASSUME TypeInv, Named, Relabel
    PROVE  TypeInv'
<1>1. call \in Call /\ disk \in Storage /\ UNCHANGED <<conf, cache, needScan, reply>>
  BY DEF Relabel, model, TypeInv, TypeOK
<1>2. call.pool \in VgNames /\ call.vol \in LvNames /\ call.elm # NULL
  BY DEF Relabel, TypeInv, Parameters, OnVolume, Named
<1>3. call.elm # EMPTY => call.elm \in LvNames
  BY <1>1, <1>2 DEF Call
<1>4. lib' \in Storage /\ disk' \in Storage /\ stale' \in BOOLEAN
  <2>1. CASE UNCHANGED storage
    BY <2>1 DEF storage, TypeInv, TypeOK
  <2>2. CASE lib' = disk /\ stale' = FALSE /\ UNCHANGED disk
    BY <1>1, <2>2
  <2>3. CASE /\ call.elm # EMPTY
             /\ disk' = LvRenamed(disk, call.pool, call.vol, call.elm)
             /\ lib' = disk' /\ stale' = FALSE
    BY <1>1, <1>2, <1>3, <2>3, RenameTypes
  <2> QED
    BY <2>1, <2>2, <2>3 DEF Relabel
<1>5. call' \in Call /\ call'.pc = "volscan"
  BY ZenonT(60), <1>1 DEF Relabel, Goto, GotoWith, Call, Steps, Codes
<1> QED
  BY <1>1, <1>4, <1>5, NoParameters DEF TypeInv, TypeOK

\* The exit of the methods about volumes.
LEMMA ScanAndAnswerTypes ==
    ASSUME TypeInv, ScanAndAnswer
    PROVE  TypeInv'
<1>1. call.rc \in Codes
  BY DEF TypeInv, TypeOK, Call
<1>2. cache' \in Cache /\ needScan' \in BOOLEAN
  BY ScanStorageTypes DEF ScanAndAnswer
<1>3. call' \in Call /\ call'.pc = "idle" /\ reply' \in Reply
  BY <1>1, AnswerTypes DEF ScanAndAnswer
<1> QED
  BY <1>2, <1>3, NoParameters DEF ScanAndAnswer, storage, TypeInv, TypeOK

\* Looking up the volume to return.
LEMMA ResolveReturnTypes ==
    ASSUME TypeInv, ResolveReturn
    PROVE  TypeInv'
<1>1. call \in Call /\ cache \in Cache /\ UNCHANGED <<lib, disk, stale, conf, cache, needScan>>
  BY DEF ResolveReturn, storage, model, TypeInv, TypeOK
<1>2. CASE Answer("INVALID_PARAM")
  <2>1. call' \in Call /\ call'.pc = "idle" /\ reply' \in Reply
    BY <1>2, AnswerTypes DEF Codes
  <2> QED
    BY <1>1, <2>1, NoParameters DEF TypeInv, TypeOK
<1>3. CASE /\ cache.owner[call.vol] # NULL
           /\ call' = [call EXCEPT !.pc = "removelv", !.pool = cache.owner[call.vol]]
           /\ UNCHANGED reply
  <2>1. call.vol \in LvNames /\ call.op = "ReturnToStoragePool"
    BY DEF ResolveReturn, TypeInv, Parameters
  <2>2. cache.owner[call.vol] \in VgNames
    BY <1>1, <1>3, <2>1 DEF Cache
  <2>3. /\ call' \in Call /\ call'.pc = "removelv" /\ call'.pool \in VgNames
        /\ call'.vol = call.vol /\ call'.op = call.op
    BY <1>1, <1>3, <2>2 DEF Call, Steps, Pools
  <2>4. Parameters'
    BY <2>1, <2>3 DEF Parameters, OnPool, OnVolume
  <2> QED
    BY <1>1, <1>3, <2>3, <2>4 DEF TypeInv, TypeOK
<1> QED
  BY <1>2, <1>3 DEF ResolveReturn

\* Removing the volume.
LEMMA RemoveLvTypes ==
    ASSUME TypeInv, RemoveLv
    PROVE  TypeInv'
<1>1. call \in Call /\ lib \in Storage /\ UNCHANGED <<conf, cache, needScan, reply>>
  BY DEF RemoveLv, model, TypeInv, TypeOK
<1>2. call.pool \in VgNames /\ call.vol \in LvNames
  BY DEF RemoveLv, TypeInv, Parameters, OnVolume
<1>3. 0 \in Nat
  OBVIOUS
<1>4. LvRemoved(lib, call.pool, call.vol) \in Storage
  BY <1>1, <1>2, <1>3, VolumeTypes
<1>5. PICK st \in Storage : Commit(st)
  BY <1>1, <1>4 DEF RemoveLv
<1>6. lib' \in Storage /\ disk' \in Storage /\ stale' \in BOOLEAN
  BY <1>5, CommitTypes
<1>7. call' \in Call /\ call'.pc = "volscan"
  BY ZenonT(60), <1>1 DEF RemoveLv, Goto, GotoWith, Call, Steps, Codes
<1> QED
  BY <1>1, <1>6, <1>7, NoParameters DEF TypeInv, TypeOK

-----------------------------------------------------------------------------
(***************************************************************************)
(* The process and its configuration file.                                 *)
(***************************************************************************)
\* Kill, Reinitialize and EditConf.
LEMMA ProcessTypes ==
    ASSUME TypeInv, Kill \/ Reinitialize \/ EditConf
    PROVE  TypeInv'
<1>1. CASE Kill
  BY <1>1, DieTypes DEF Kill, Deaths
<1>2. CASE Reinitialize
  <2>1. lib' \in Storage /\ disk' \in Storage /\ stale' \in BOOLEAN
    BY <1>2 DEF Reinitialize, TypeInv, TypeOK
  <2>2. cache' \in Cache
    BY <1>2 DEF Reinitialize, EmptyCache, Cache
  <2>3. UNCHANGED <<conf, needScan, call>> /\ call'.pc = "idle" /\ reply' \in Reply
    BY <1>2, NoCallType DEF Reinitialize, Idle
  <2> QED
    BY <2>1, <2>2, <2>3, NoParameters DEF TypeInv, TypeOK
<1>3. CASE EditConf
  <2>1. /\ UNCHANGED <<lib, disk, stale, cache, needScan, call>> /\ call'.pc = "idle"
        /\ reply' \in Reply /\ conf' \in {"ok", "missing", "empty"}
    BY <1>3, NoCallType DEF EditConf, Idle, storage, model
  <2> QED
    BY <2>1, NoParameters DEF TypeInv, TypeOK
<1> QED
  BY <1>1, <1>2, <1>3

\* Only CreateOrModifyElementFromStoragePool has a volume's name, and it does
\* not get past its first step without.
LEMMA NamedStep ==
    ASSUME TypeInv, Named, Next
    PROVE  Named'
<1>1. call \in Call /\ NoCall.elm = EMPTY /\ EMPTY # NULL
  BY NamesAssumption DEF TypeInv, TypeOK, NoCall
<1>2. ASSUME call' = NoCall \/ call'.elm # NULL
      PROVE  Named'
  BY <1>1, <1>2 DEF Named
<1>3. ASSUME call.elm # NULL, call' = NoCall \/ call'.elm = call.elm
      PROVE  Named'
  BY <1>2, <1>3
<1>4. CASE Invoke
  <2>1. PICK r \in Offered :
          call' = [op |-> r.op, pc |-> IF needScan THEN "enter" ELSE "resolve",
                   pool |-> r.pool, in |-> r.in, name |-> r.name, vol |-> r.vol,
                   elm |-> r.elm, goal |-> r.goal, size |-> r.size,
                   part |-> 0, rc |-> "OK"]
    BY <1>4 DEF Invoke
  <2>2. r \in Requests
    BY OfferedAssumption
  <2>3. r.elm = NULL => r.op = "CreateOrModifyElementFromStoragePool"
    BY <2>2, NamesAssumption DEF Requests
  <2> QED
    BY <2>1, <2>3 DEF Named
<1>5. CASE Enter
  <2>1. call' = NoCall \/ call' = [call EXCEPT !.pc = "resolve"]
    BY <1>5 DEF Enter, Answer, Goto
  <2> QED
    BY <1>1, <2>1 DEF Named, Call
<1>6. CASE Enumerate \/ RequestScan \/ ResolvePool \/ ResolveDelete \/ ResolveReturn
  <2>1. call.elm # NULL
    BY <1>6 DEF Named, Enumerate, RequestScan, ResolvePool, ResolveDelete, ResolveReturn
  <2>2. call' = NoCall \/ call'.elm = call.elm
    BY <1>1, <1>6 DEF Enumerate, RequestScan, ResolvePool, ResolveDelete, ResolveReturn,
                      Answer, Goto, Die, Call
  <2> QED
    BY <1>3, <2>1, <2>2
<1>7. CASE ResolveElement
  <2>1. call' = NoCall \/ (call.elm # NULL /\ call'.elm = call.elm)
    BY <1>1, <1>7 DEF ResolveElement, Answer, Die, Call
  <2> QED
    BY <1>2, <2>1
<1>8. CASE Carve
  <2>1. call.pool \in VgNames /\ call.elm # NULL
    BY <1>8 DEF Carve, TypeInv, Parameters, Named
  <2>2. GenVol[call.pool] # NULL
    BY <2>1, NamesAssumption
  <2>3. call'.elm \in {call.elm, GenVol[call.pool]}
    BY <1>1, <1>8 DEF Carve, GotoWith, Call
  <2> QED
    BY <1>2, <2>1, <2>2, <2>3
<1>9. CASE Find \/ Partition \/ CreateComposition \/ Modify \/ Expand \/ RenamePool
           \/ Finish \/ ScanAfterPool
  <2>1. call.elm # NULL
    BY <1>9 DEF Named, Find, Partition, CreateComposition, Modify, Expand, RenamePool,
                Finish, ScanAfterPool
  <2>2. call' = NoCall \/ call'.elm = call.elm
    BY <1>1, <1>9 DEF Find, Partition, CreateComposition, Modify, Expand, RenamePool,
                      Finish, ScanAfterPool, Answer, Goto, GotoWith, Die, Call
  <2> QED
    BY <1>3, <2>1, <2>2
<1>10. CASE Delete \/ RemoveVg \/ Unpartition \/ ScanAfterDelete
  <2>1. call.elm # NULL
    BY <1>10 DEF Named, Delete, RemoveVg, Unpartition, ScanAfterDelete
  <2>2. call' = NoCall \/ call'.elm = call.elm
    BY <1>1, <1>10 DEF Delete, RemoveVg, Unpartition, ScanAfterDelete, Answer, Goto, Die, Call
  <2> QED
    BY <1>3, <2>1, <2>2
<1>11. CASE Nest \/ MakeLv \/ Resize \/ Relabel \/ RemoveLv \/ ScanAndAnswer
  <2>1. call.elm # NULL
    BY <1>11 DEF Named, Nest, MakeLv, Resize, Relabel, RemoveLv, ScanAndAnswer
  <2>2. call' = NoCall \/ call'.elm = call.elm
    BY <1>1, <1>11 DEF Nest, MakeLv, Resize, Relabel, RemoveLv, ScanAndAnswer,
                       Answer, Goto, GotoWith, Call
  <2> QED
    BY <1>3, <2>1, <2>2
<1>12. CASE Kill \/ Reinitialize \/ EditConf
  BY <1>2, <1>12 DEF Kill, Die, Reinitialize, EditConf, Named
<1> QED
  BY <1>4, <1>5, <1>6, <1>7, <1>8, <1>9, <1>10, <1>11, <1>12 DEF Next, Serve

(***************************************************************************)
(* The theorem.                                                            *)
(***************************************************************************)
\* A step keeps the invariant.
LEMMA StepTypeInv ==
    ASSUME TypeInv, Named, Next
    PROVE  TypeInv'
  BY InvokeTypes, EnterTypes, ReadTypes, ResolvePoolTypes, FindTypes, PartitionStepTypes,
     CreateCompositionTypes, ModifyTypes, ExpandTypes, RenamePoolTypes, FinishTypes,
     ScanAfterPoolTypes, ResolveDeleteTypes, DeleteTypes, RemoveVgTypes, UnpartitionTypes,
     ScanAfterDeleteTypes, ResolveElementTypes, NestTypes, CarveTypes, MakeLvTypes,
     ResizeTypes, RelabelTypes, ResolveReturnTypes, RemoveLvTypes, ScanAndAnswerTypes,
     ProcessTypes, Zenon DEF Next, Serve

\* The inductive invariant.
LEMMA Inductive == Spec => [](TypeInv /\ Named)
<1>1. Init => TypeInv /\ Named
  BY InitTypeInv, NamesAssumption DEF Init, Named, NoCall
<1>2. TypeInv /\ Named /\ [Next]_vars => (TypeInv /\ Named)'
  <2>1. CASE Next
    BY <2>1, StepTypeInv, NamedStep
  <2>2. CASE UNCHANGED vars
    BY <2>2 DEF vars, TypeInv, TypeOK, Parameters, Named
  <2> QED
    BY <2>1, <2>2
<1> QED
  BY <1>1, <1>2, PTL DEF Spec

\* In every reachable state the sizes that libstorage keeps of disks, groups
\* and volumes are numbers: whatever the clients ask, whatever fails and
\* whenever the process ends, no method makes the library take more bytes out
\* of a disk or a pool than it holds, and the parameters a step works on are
\* objects of the right kind.
THEOREM TypeCorrect == Spec => []TypeOK
<1>1. TypeInv => TypeOK
  BY DEF TypeInv
<1> QED
  BY <1>1, Inductive, PTL
=============================================================================
