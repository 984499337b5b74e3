--------------- MODULE StorageConfigurationService_safety ---------------
(***************************************************************************)
(* Safety of StorageConfigurationService, beyond its types.                *)
(***************************************************************************)
EXTENDS StorageConfigurationService_proofs

(***************************************************************************)
(* The arrays mirror the library from a scan to the first change a request *)
(* makes: at the steps named here nothing has been changed since.          *)
(***************************************************************************)
BeforeChanges == {"idle", "enter", "resolve", "delete", "removevg", "modify", "find",
                  "partition", "nest", "carve", "makelv", "resize", "removelv"}

Mirrors == \E h, m \in Missed : cache \in ScanResults(lib, h, m)

CacheInv ==
    /\ call.pc \in BeforeChanges /\ cache.loaded => Mirrors
    /\ ~cache.loaded => cache = EmptyCache

\* A scan gives arrays that mirror the library, or empty ones.
LEMMA ScanMirrors ==
    ASSUME TypeInv, ScanStorage, UNCHANGED lib
    PROVE  /\ cache'.loaded => Mirrors'
           /\ ~cache'.loaded => cache' = EmptyCache
<1>1. CASE \E h, m \in Missed : cache' \in ScanResults(lib, h, m)
  <2>1. PICK h \in Missed, m \in Missed : cache' \in ScanResults(lib, h, m)
    BY <1>1
  <2>2. cache'.loaded
    BY <2>1, ScanResultsType DEF Missed, TypeInv, TypeOK
  <2>3. lib' = lib
    OBVIOUS
  <2>4. Mirrors'
    BY <2>1, <2>3 DEF Mirrors, Missed
  <2> QED
    BY <2>2, <2>4
<1>2. CASE cache' = EmptyCache
  BY <1>2 DEF EmptyCache
<1> QED
  BY <1>1, <1>2 DEF ScanStorage

\* Steps that change neither the arrays nor the library.
LEMMA ReadingKeepsCacheInv ==
    ASSUME CacheInv, call.pc \in BeforeChanges, UNCHANGED <<lib, cache>>
    PROVE  CacheInv'
  BY DEF CacheInv, Mirrors, Missed

\* Steps that leave the steps before changes, and keep the arrays.
LEMMA ChangingKeepsCacheInv ==
    ASSUME CacheInv, call'.pc \notin BeforeChanges, UNCHANGED cache
    PROVE  CacheInv'
  BY DEF CacheInv

\* Every step keeps the arrays right.
LEMMA CacheStep ==
    ASSUME TypeInv, CacheInv, Next
    PROVE  CacheInv'
<1>1. call \in Call
  BY DEF TypeInv, TypeOK
<1>2. CASE ScanStorage /\ UNCHANGED storage
  BY <1>2, ScanMirrors DEF CacheInv, storage
<1>3. ASSUME NEW reason \in Deaths, Die(reason)
      PROVE  CacheInv'
  BY <1>3 DEF Die, EmptyCache, CacheInv
<1>4. CASE Enter \/ ScanAfterPool \/ ScanAndAnswer
  BY <1>2, <1>4 DEF Enter, ScanAfterPool, ScanAndAnswer
<1>5. CASE ScanAfterDelete
  BY <1>2, <1>3, <1>5 DEF ScanAfterDelete, Deaths
<1>13. CASE Carve
  <2>1. call.pc \in BeforeChanges /\ UNCHANGED <<lib, cache>>
    BY <1>13 DEF Carve, Commit, BeforeChanges, storage, model
  <2> QED
    BY <2>1, ReadingKeepsCacheInv
<1>6. CASE Invoke \/ Enumerate \/ RequestScan \/ ResolvePool \/ Find \/ Modify
           \/ Delete \/ Nest \/ ResolveReturn
  <2>1. call.pc \in BeforeChanges /\ UNCHANGED <<lib, cache>>
    BY ZenonT(60), <1>6 DEF Invoke, Idle, Enumerate, RequestScan, ResolvePool, Find, Modify, Delete, Nest,
                ResolveReturn, BeforeChanges, storage, model
  <2> QED
    BY <2>1, ReadingKeepsCacheInv
<1>7. CASE ResolveDelete \/ ResolveElement
  <2>1. CASE UNCHANGED <<storage, conf, model>>
    <3>1. call.pc \in BeforeChanges /\ UNCHANGED <<lib, cache>>
      BY <1>7, <2>1 DEF ResolveDelete, ResolveElement, BeforeChanges, storage, model
    <3> QED
      BY <3>1, ReadingKeepsCacheInv
  <2> QED
    BY ZenonT(60), <1>3, <1>7, <2>1 DEF ResolveDelete, ResolveElement, Deaths
<1>12. CASE CreateComposition
  <2>1. CASE Die("traced number")
    BY <1>3, <2>1 DEF Deaths
  <2>2. CASE /\ UNCHANGED <<conf, model, reply>>
             /\ \/ call' = [call EXCEPT !.pc = "scan", !.part = 0]
                \/ call' = [call EXCEPT !.pc = "scan", !.part = 0, !.rc = "FAILED"]
    <3>1. UNCHANGED cache /\ call'.pc = "scan"
      BY <1>1, <2>2 DEF model, Call
    <3> QED
      BY <3>1, ChangingKeepsCacheInv DEF BeforeChanges
  <2> QED
    BY <1>12, <2>1, <2>2 DEF CreateComposition
<1>8. CASE Partition \/ Expand \/ RenamePool \/ Finish
           \/ RemoveVg \/ Unpartition
  <2>1. UNCHANGED cache
    BY <1>8 DEF Partition, Expand, RenamePool, Finish, RemoveVg,
                Unpartition, model
  <2>2. call'.pc \in {"compose", "scan", "rename", "finish", "unpartition", "deleted"}
    BY <1>1, <1>8 DEF Partition, Expand, RenamePool, Finish, RemoveVg,
                      Unpartition, Goto, GotoWith, Call
  <2> QED
    BY <2>1, <2>2, ChangingKeepsCacheInv DEF BeforeChanges
<1>9. CASE MakeLv \/ Resize \/ Relabel \/ RemoveLv
  <2>1. UNCHANGED cache
    BY <1>9 DEF MakeLv, Resize, Relabel, RemoveLv, model
  <2>2. call'.pc \in {"volscan", "relabel"}
    BY <1>1, <1>9 DEF MakeLv, Resize, Relabel, RemoveLv, Goto, GotoWith, Call
  <2> QED
    BY <2>1, <2>2, ChangingKeepsCacheInv DEF BeforeChanges
<1>10. CASE Kill \/ Reinitialize
  <2>1. CASE Kill
    BY <1>3, <2>1 DEF Kill, Deaths
  <2>2. CASE Reinitialize
    <3>1. cache' = EmptyCache /\ ~EmptyCache.loaded
      BY <2>2 DEF Reinitialize, EmptyCache
    <3> QED
      BY <3>1 DEF CacheInv
  <2> QED
    BY <1>10, <2>1, <2>2
<1>11. CASE EditConf
  BY <1>11, ReadingKeepsCacheInv DEF EditConf, Idle, BeforeChanges, storage, model
<1> QED
  BY <1>4, <1>5, <1>6, <1>7, <1>8, <1>9, <1>10, <1>11, <1>12, <1>13 DEF Next, Serve

\* The inductive invariant, with the types.
LEMMA CacheInductive == Spec => [](TypeInv /\ CacheInv)
<1>1. Init => CacheInv
  BY DEF Init, CacheInv, EmptyCache
<1>2. TypeInv /\ CacheInv /\ [Next]_vars => CacheInv'
  <2>1. CASE UNCHANGED vars
    BY <2>1 DEF vars, CacheInv, Mirrors, Missed
  <2> QED
    BY <2>1, CacheStep
<1> QED
  BY <1>1, <1>2, Inductive, PTL DEF Spec

\* Between two requests the arrays that are filled mirror the library,
\* whatever queries fail, commits fail and requests are made: there is no way
\* through a method, its early returns and failures included, that stages a
\* change and answers without a scan.
THEOREM CacheFollows == Spec => []CacheMirrorsLib
<1>1. CacheInv => CacheMirrorsLib
  BY DEF CacheInv, CacheMirrorsLib, Idle, BeforeChanges, Mirrors
<1> QED
  BY <1>1, CacheInductive, PTL

-----------------------------------------------------------------------------
(***************************************************************************)
(* What is staged is committed before the answer, if commits succeed.  The *)
(* steps between removeLvmVg or extendLvmVg and the next commit are the    *)
(* only ones with something staged.                                        *)
(***************************************************************************)
Staged == {"unpartition", "rename", "finish"}

DurableInv == ~stale /\ call.pc \notin Staged => disk = lib

\* A commit leaves nothing staged.
LEMMA CommitIsDurable ==
    ASSUME ~CommitFails, NEW st, Commit(st)
    PROVE  DurableInv'
  BY DEF Commit, DurableInv

\* A step that changes no storage, from a step with nothing staged.
LEMMA ReadingKeepsDurable ==
    ASSUME DurableInv, call.pc \notin Staged, UNCHANGED storage
    PROVE  DurableInv'
  BY DEF DurableInv, storage

\* A step that goes to one with something staged.
LEMMA StagingKeepsDurable ==
    ASSUME call'.pc \in Staged
    PROVE  DurableInv'
  BY DEF DurableInv

\* Every step keeps the storage durable.
LEMMA DurableStep ==
    ASSUME ~CommitFails, TypeInv, DurableInv, Next
    PROVE  DurableInv'
<1>1. call \in Call
  BY DEF TypeInv, TypeOK
<1>2. ASSUME NEW reason, Die(reason)
      PROVE  DurableInv'
  BY <1>2 DEF Die, DurableInv
<1>3. CASE Invoke \/ Enter \/ Enumerate \/ RequestScan \/ ResolvePool \/ ResolveReturn
           \/ ScanAndAnswer \/ EditConf
  <2>1. call.pc \notin Staged /\ UNCHANGED storage
    BY <1>3 DEF Invoke, Idle, Enter, Enumerate, RequestScan, ResolvePool, ResolveReturn,
                ScanAndAnswer, EditConf, Staged
  <2> QED
    BY <2>1, ReadingKeepsDurable
<1>4. CASE Find \/ Modify \/ ScanAfterPool \/ Delete \/ Nest
  <2>1. call.pc \notin Staged /\ UNCHANGED storage
    BY ZenonT(60), <1>4 DEF Find, Modify, ScanAfterPool, Delete, Nest, Staged
  <2> QED
    BY <2>1, ReadingKeepsDurable
<1>5. CASE ResolveDelete \/ ResolveElement \/ ScanAfterDelete
  <2>1. CASE UNCHANGED storage
    <3>1. call.pc \notin Staged
      BY <1>5 DEF ResolveDelete, ResolveElement, ScanAfterDelete, Staged
    <3> QED
      BY <2>1, <3>1, ReadingKeepsDurable
  <2> QED
    BY <1>2, <1>5, <2>1 DEF ResolveDelete, ResolveElement, ScanAfterDelete
<1>6. CASE Partition \/ CreateComposition \/ Finish \/ Unpartition \/ MakeLv \/ RemoveLv
  BY <1>2, <1>6, CommitIsDurable DEF Partition, CreateComposition, Finish, Unpartition, MakeLv,
                               RemoveLv
<1>10. CASE Carve
  <2>1. call.pc \notin Staged /\ (UNCHANGED storage \/ Commit(lib))
    BY <1>10 DEF Carve, Staged
  <2> QED
    BY <2>1, ReadingKeepsDurable, CommitIsDurable
<1>7. CASE Expand \/ RenamePool \/ RemoveVg
  <2>1. call'.pc \in Staged
    BY <1>1, <1>7 DEF Expand, RenamePool, RemoveVg, Goto, GotoWith, Staged, Call
  <2> QED
    BY <2>1, StagingKeepsDurable
<1>8. CASE Resize \/ Relabel
  <2>1. CASE UNCHANGED storage
    <3>1. call.pc \notin Staged
      BY <1>8 DEF Resize, Relabel, Staged
    <3> QED
      BY <2>1, <3>1, ReadingKeepsDurable
  <2>2. CASE Relabel /\ lib' = disk'
    BY <2>2 DEF DurableInv
  <2> QED
    BY <1>8, <2>1, <2>2, CommitIsDurable DEF Resize, Relabel
<1>9. CASE Kill \/ Reinitialize
  BY <1>2, <1>9 DEF Kill, Reinitialize, DurableInv
<1> QED
  BY <1>3, <1>4, <1>5, <1>6, <1>7, <1>8, <1>9, <1>10 DEF Next, Serve

\* Without failing commits nothing a method staged is lost by a crash after
\* its answer, as long as vgrename has not cut the library off the disk: the
\* disk has what the library has.
THEOREM AnswersAreDurable ==
    ASSUME ~CommitFails
    PROVE  Spec => []AnswerIsDurable
<1>1. Init => DurableInv
  BY DEF Init, DurableInv
<1>2. TypeInv /\ DurableInv /\ [Next]_vars => DurableInv'
  <2>1. CASE UNCHANGED vars
    BY <2>1 DEF vars, DurableInv
  <2> QED
    BY <2>1, DurableStep
<1>3. DurableInv => AnswerIsDurable
  BY DEF DurableInv, AnswerIsDurable, Idle, Staged
<1> QED
  BY <1>1, <1>2, <1>3, Inductive, PTL DEF Spec

-----------------------------------------------------------------------------
(***************************************************************************)
(* What is asked of the library was compared with the arrays, and the      *)
(* arrays, if no query fails, show no more than there is.                  *)
(***************************************************************************)
ComparedInv ==
    /\ call.pc = "partition" /\ call.in = Primordial => call.size <= cache.pfree
    /\ call.pc = "makelv" => call.size <= cache.free[call.pool]

\* Kilobytes are fewer than bytes.
LEMMA KilobytesFewer ==
    ASSUME NEW n \in Nat
    PROVE  n \div OneKB <= n
<1>1. OneKB \in Nat /\ OneKB >= 1
  BY SizesAssumption
<1> QED
  BY <1>1

\* A scan whose queries succeed shows what the library has free, in bytes or
\* cut down to kilobytes.
LEMMA ScanShowsFree ==
    ASSUME NEW st \in Storage, NEW c \in ScanResults(st, NULL, NULL)
    PROVE  c.pfree = st.free /\ \A v \in VgNames : c.free[v] <= st.pefree[v]
<1> DEFINE seen == {v \in VgNames : VgExists(st, v)} \ {NULL}
<1>1. PICK o : c = [loaded |-> TRUE,
             pools  |-> seen,
             pfree  |-> st.free + (IF NULL \in VgNames THEN st.size[NULL] ELSE 0),
             free   |-> [v \in VgNames |-> IF v \in seen THEN st.pefree[v] \div OneKB ELSE 0],
             total  |-> [v \in VgNames |-> IF v \in seen THEN st.size[v] \div OneKB ELSE 0],
             owner  |-> o,
             volSize |-> [l \in LvNames |-> IF o[l] \in VgNames THEN st.lvs[o[l]][l] ELSE 0]]
  BY DEF ScanResults
<1>2. c.pfree = st.free
  BY <1>1, NamesAssumption DEF Storage
<1>3. ASSUME NEW v \in VgNames
      PROVE  c.free[v] <= st.pefree[v]
  <2>1. st.pefree[v] \in Nat
    BY DEF Storage
  <2>2. st.pefree[v] \div OneKB <= st.pefree[v]
    BY <2>1, KilobytesFewer
  <2>3. c.free[v] = IF v \in seen THEN st.pefree[v] \div OneKB ELSE 0
    BY <1>1
  <2> QED
    BY <2>1, <2>2, <2>3
<1> QED
  BY <1>2, <1>3

\* Only the search for an input pool leads to partitions, and only the
\* comparison of sizes to createLvmLv.
LEMMA Comparing ==
    ASSUME TypeInv, Next, ~Find, ~Carve
    PROVE  call'.pc \notin {"partition", "makelv"}
<1>1. call \in Call
  BY DEF TypeInv, TypeOK
<1>2. ASSUME NEW rc, Answer(rc)
      PROVE  call'.pc = "idle"
  BY <1>2 DEF Answer, NoCall
<1>3. ASSUME NEW reason, Die(reason)
      PROVE  call'.pc = "idle"
  BY <1>3 DEF Die, NoCall
<1>4. ASSUME NEW pc, Goto(pc)
      PROVE  call'.pc = pc
  BY <1>1, <1>4 DEF Goto, Call
<1>5. ASSUME NEW pc, NEW rc, GotoWith(pc, rc)
      PROVE  call'.pc = pc
  BY <1>1, <1>5 DEF GotoWith, Call
<1>6. CASE Invoke
  BY <1>6 DEF Invoke
<1>7. CASE Enter \/ Enumerate \/ RequestScan \/ ScanAndAnswer \/ Kill
  BY <1>2, <1>3, <1>4, <1>7 DEF Enter, Enumerate, RequestScan, ScanAndAnswer, Kill
<1>8. CASE ResolvePool
  BY <1>1, <1>2, <1>8 DEF ResolvePool, Call
<1>9. CASE Partition \/ CreateComposition \/ Expand
  BY <1>1, <1>3, <1>9 DEF Partition, CreateComposition, Expand, Call
<1>10. CASE Modify
  BY <1>1, <1>4, <1>10 DEF Modify, Call
<1>11. CASE RenamePool \/ Finish
  BY <1>4, <1>5, <1>11 DEF RenamePool, Finish
<1>12. CASE ScanAfterPool
  BY <1>1, <1>2, <1>4, <1>5, <1>12 DEF ScanAfterPool, Call
<1>13. CASE ResolveDelete \/ Delete
  BY <1>2, <1>3, <1>4, <1>13 DEF ResolveDelete, Delete
<1>14. CASE RemoveVg \/ Unpartition
  BY <1>1, <1>14 DEF RemoveVg, Unpartition, Call
<1>15. CASE ScanAfterDelete
  BY <1>1, <1>2, <1>3, <1>4, <1>15 DEF ScanAfterDelete, Call
<1>16. CASE ResolveElement
  BY ZenonT(60), <1>1, <1>2, <1>3, <1>16 DEF ResolveElement, Call
<1>17. CASE Nest
  BY <1>1, <1>5, <1>17 DEF Nest, Call
<1>18. CASE MakeLv \/ Resize \/ Relabel \/ RemoveLv
  BY <1>4, <1>5, <1>18 DEF MakeLv, Resize, Relabel, RemoveLv
<1>19. CASE ResolveReturn
  BY <1>1, <1>2, <1>19 DEF ResolveReturn, Call
<1>20. CASE Reinitialize \/ EditConf
  BY <1>20 DEF Reinitialize, EditConf, Idle
<1> QED
  BY <1>6, <1>7, <1>8, <1>9, <1>10, <1>11, <1>12, <1>13, <1>14, <1>15, <1>16, <1>17, <1>18,
     <1>19, <1>20 DEF Next, Serve

\* The sizes at the two steps that take bytes were compared with the arrays.
LEMMA ComparedStep ==
    ASSUME TypeInv, Next
    PROVE  ComparedInv'
<1>1. call \in Call /\ call.size \in Nat /\ cache \in Cache
  BY DEF TypeInv, TypeOK, Call
<1>2. ASSUME call'.pc \notin {"partition", "makelv"}
      PROVE  ComparedInv'
  BY <1>2 DEF ComparedInv
<1>3. CASE Find
  <2>1. CASE call'.pc = "partition"
    <3> DEFINE fits == IF call.in = NULL THEN PoolsFindByGoal(call.size)
                       ELSE {p \in {call.in} : Supports(p, call.size)}
    <3>1. \A p \in fits : p \in Pools /\ Supports(p, call.size)
      BY <1>1 DEF PoolsFindByGoal, Call
    <3> HIDE DEF fits
    <3>2. GotoWith(IF call.pool = NULL THEN "scan" ELSE "finish", "SIZE_NOT_SUPPORTED")
            => call'.pc # "partition"
      BY <1>1 DEF GotoWith, Call
    <3>3. PICK p \in fits : \E name :
            call' = [call EXCEPT !.pc = "partition", !.in = p, !.name = name,
                                 !.size = IF @ = 0 THEN MaxSize(p) ELSE @]
      BY <1>3, <2>1, <3>2 DEF Find, fits
    <3> DEFINE size == IF call.size = 0 THEN MaxSize(p) ELSE call.size
    <3>4. MaxSize(p) \in Nat /\ Remaining(p) \in Nat /\ call.size <= MaxSize(p)
      BY <1>1, <3>1, SizeTypes DEF Supports
    <3>5. MaxSize(p) <= Remaining(p)
      BY <3>4 DEF MaxSize
    <3>6. size <= Remaining(p)
      BY <1>1, <3>4, <3>5
    <3>7. \E name : call' = [call EXCEPT !.pc = "partition", !.in = p, !.name = name,
                                         !.size = size]
      BY <3>3
    <3> HIDE DEF size
    <3>8. call'.size = size /\ call'.in = p
      BY <1>1, <3>7 DEF Call
    <3>9. cache' = cache
      BY <1>3 DEF Find, model
    <3> QED
      BY <2>1, <3>6, <3>8, <3>9 DEF ComparedInv, Remaining
  <2>2. CASE call'.pc # "partition"
    <3>1. call'.pc \in {"scan", "finish", "partition"}
      BY <1>1, <1>3 DEF Find, GotoWith, Call
    <3> QED
      BY <1>2, <2>2, <3>1
  <2> QED
    BY <2>1, <2>2
<1>4. CASE Carve
  <2> DEFINE left == Remaining(call.pool)
             name == IF call.elm = EMPTY THEN GenVol[call.pool] ELSE call.elm
             size == IF call.size = 0 THEN left ELSE call.size
  <2>1. left \in Nat /\ left = cache.free[call.pool]
    BY <1>1, <1>4, NamesAssumption DEF Carve, TypeInv, Parameters, Remaining, Cache
  <2>2. CASE /\ left >= call.size
             /\ call' = [call EXCEPT !.pc = "makelv", !.elm = name,
                                     !.size = IF @ = 0 THEN left ELSE @]
    <3>1. size <= left
      BY <1>1, <2>1, <2>2
    <3>2. call' = [call EXCEPT !.pc = "makelv", !.elm = name, !.size = size]
      BY <2>2
    <3> HIDE DEF size, name, left
    <3>3. call'.pc = "makelv" /\ call'.size = size /\ call'.pool = call.pool
      BY <1>1, <3>2 DEF Call
    <3>4. cache' = cache
      BY <1>4 DEF Carve, model
    <3> QED
      BY <2>1, <3>1, <3>3, <3>4 DEF ComparedInv
  <2>3. CASE GotoWith("volscan", "SIZE_NOT_SUPPORTED") \/ GotoWith("volscan", "INVALID_PARAM")
    <3>1. call'.pc = "volscan"
      BY <1>1, <2>3 DEF GotoWith, Call
    <3> QED
      BY <1>2, <3>1
  <2> QED
    BY <1>4, <2>2, <2>3 DEF Carve
<1>5. CASE call'.pc \notin {"partition", "makelv"}
  BY <1>2, <1>5
<1> QED
  BY <1>3, <1>4, <1>5, Comparing

\* A size that was compared fits.
LEMMA ComparedFits ==
    ASSUME ~QueriesFail, TypeInv, CacheInv, ComparedInv
    PROVE  RequestsFit
<1>1. lib \in Storage /\ cache \in Cache /\ call.size \in Nat
  BY DEF TypeInv, TypeOK, Call
<1>2. ASSUME call.pc \in {"partition", "makelv"}
      PROVE  /\ cache.pfree <= lib.free
             /\ \A v \in VgNames : cache.free[v] <= lib.pefree[v]
  <2>1. CASE cache.loaded
    <3>1. cache \in ScanResults(lib, NULL, NULL)
      BY <1>2, <2>1 DEF CacheInv, BeforeChanges, Mirrors, Missed
    <3> QED
      BY <1>1, <3>1, ScanShowsFree DEF Storage
  <2>2. CASE ~cache.loaded
    <3>1. cache = EmptyCache
      BY <2>2 DEF CacheInv
    <3> QED
      BY <1>1, <3>1 DEF EmptyCache, Storage
  <2> QED
    BY <2>1, <2>2
<1>3. CASE call.pc = "partition" /\ call.in = Primordial
  BY <1>1, <1>2, <1>3 DEF ComparedInv, RequestsFit, Cache, Storage
<1>4. CASE call.pc = "makelv"
  <2>1. call.pool \in VgNames
    BY <1>4 DEF TypeInv, Parameters
  <2> QED
    BY <1>1, <1>2, <1>4, <2>1 DEF ComparedInv, RequestsFit, Cache, Storage
<1>5. CASE ~(call.pc = "partition" /\ call.in = Primordial) /\ call.pc # "makelv"
  BY <1>5 DEF RequestsFit
<1> QED
  BY <1>3, <1>4, <1>5

\* While queries succeed, no method asks for more than there is: not after a
\* modification that has deleted the pool and scanned on its way, not for the
\* volume of a pool that was made for it.
THEOREM RequestsAlwaysFit ==
    ASSUME ~QueriesFail
    PROVE  Spec => []RequestsFit
<1>1. Init => ComparedInv
  BY DEF Init, NoCall, ComparedInv
<1>2. TypeInv /\ ComparedInv /\ [Next]_vars => ComparedInv'
  <2>1. CASE UNCHANGED vars
    BY <2>1 DEF vars, ComparedInv
  <2> QED
    BY <2>1, ComparedStep
<1>3. TypeInv /\ CacheInv /\ ComparedInv => RequestsFit
  BY ComparedFits
<1> QED
  BY <1>1, <1>2, <1>3, CacheInductive, PTL DEF Spec

-----------------------------------------------------------------------------
(***************************************************************************)
(* A deletion that is answered "completed".  A request is not answered     *)
(* while it is being served, a deletion goes its own way, and one that is  *)
(* still "OK" behind removeLvmVg has removed the group.                    *)
(***************************************************************************)
Deleting == {"enter", "resolve", "delete", "removevg", "unpartition", "deleted"}

DeleteInv ==
    /\ call.pc # "idle" => reply = NoReply
    /\ call.op = "DeleteStoragePool" => call.pc \in Deleting
    /\ call.op = "DeleteStoragePool" /\ call.pc \in {"unpartition", "deleted"} /\ call.rc = "OK" =>
           call.pool \in VgNames /\ ~VgExists(lib, call.pool)
    /\ DeletedPoolIsGone

\* A step goes on, answers or ends the process.
GoesOn == call.pc # "idle" /\ UNCHANGED reply /\ call'.op = call.op
AnswersOrDies == (\E rc \in Codes : Answer(rc)) \/ (\E reason \in Deaths : Die(reason))

LEMMA ServeGoesOn ==
    ASSUME TypeInv, Serve
    PROVE  GoesOn \/ AnswersOrDies
<1>1. call \in Call /\ call.rc \in Codes
  BY DEF TypeInv, TypeOK, Call
<1>2. CASE Enter \/ Enumerate \/ RequestScan \/ ResolvePool \/ Find
  BY ZenonT(60), <1>1, <1>2 DEF Enter, Enumerate, RequestScan, ResolvePool, Find, GoesOn, AnswersOrDies, Codes,
                    Goto, GotoWith, Call
<1>3. CASE Partition \/ CreateComposition \/ Modify \/ Expand \/ RenamePool \/ Finish
  BY <1>1, <1>3 DEF Partition, CreateComposition, Modify, Expand, RenamePool, Finish, GoesOn,
                    AnswersOrDies, Deaths, Goto, GotoWith, Call
<1>4. CASE ScanAfterPool \/ ResolveDelete \/ Delete
  BY <1>1, <1>4 DEF ScanAfterPool, ResolveDelete, Delete, GoesOn, AnswersOrDies, Codes, Deaths,
                    Goto, GotoWith, Call
<1>5. CASE RemoveVg \/ Unpartition \/ ScanAfterDelete
  BY <1>1, <1>5 DEF RemoveVg, Unpartition, ScanAfterDelete, GoesOn, AnswersOrDies, Deaths,
                    Goto, GotoWith, Call
<1>6. CASE ResolveElement \/ Nest \/ Carve \/ MakeLv
  BY ZenonT(60), <1>1, <1>6 DEF ResolveElement, Nest, Carve, MakeLv, GoesOn, AnswersOrDies, Codes, Deaths,
                    Goto, GotoWith, Call
<1>7. CASE Resize \/ Relabel \/ ResolveReturn \/ RemoveLv \/ ScanAndAnswer
  BY <1>1, <1>7 DEF Resize, Relabel, ResolveReturn, RemoveLv, ScanAndAnswer, GoesOn, AnswersOrDies,
                    Codes, Goto, GotoWith, Call
<1> QED
  BY <1>2, <1>3, <1>4, <1>5, <1>6, <1>7 DEF Serve

\* An answer that is no success of a deletion.
LEMMA OtherAnswer ==
    ASSUME NEW rc, Answer(rc), call.op # "DeleteStoragePool" \/ rc # "OK"
    PROVE  DeleteInv'
  BY DEF Answer, NoCall, DeleteInv, DeletedPoolIsGone

LEMMA NoAnswer ==
    ASSUME NEW reason \in Deaths, Die(reason)
    PROVE  DeleteInv'
<1>1. reason # "OK"
  BY DEF Deaths
<1> QED
  BY <1>1 DEF Die, NoCall, NoReply, DeleteInv, DeletedPoolIsGone

\* A deletion goes on.
LEMMA StillDeleting ==
    ASSUME DeleteInv, GoesOn, call'.pc \in Deleting,
           call'.pc \in {"unpartition", "deleted"} /\ call'.rc = "OK" =>
               call'.pool \in VgNames /\ ~VgExists(lib', call'.pool)
    PROVE  DeleteInv'
  BY DEF DeleteInv, DeletedPoolIsGone, GoesOn, NoReply

\* The scan at its end does not see the group.
LEMMA ScanSeesNoGroup ==
    ASSUME ScanStorage, NEW v \in VgNames, ~VgExists(lib, v)
    PROVE  v \notin cache'.pools
<1>1. CASE \E hidden, mute \in Missed : cache' \in ScanResults(lib, hidden, mute)
  <2>1. PICK hidden, mute : cache' \in ScanResults(lib, hidden, mute)
    BY <1>1
  <2>2. cache'.pools = {u \in VgNames : VgExists(lib, u)} \ {hidden}
    BY <2>1 DEF ScanResults
  <2> QED
    BY <2>2
<1>2. CASE cache' = EmptyCache
  BY <1>2 DEF EmptyCache
<1> QED
  BY <1>1, <1>2 DEF ScanStorage

LEMMA DeletingStep ==
    ASSUME TypeInv, DurableInv, DeleteInv, call.op = "DeleteStoragePool", Serve
    PROVE  DeleteInv'
<1>1. call.pc \in Deleting /\ call \in Call /\ lib \in Storage
  BY DEF DeleteInv, TypeInv, TypeOK
<1>2. CASE Enter
  <2>1. CASE Answer("FAILED")
    BY <2>1, OtherAnswer
  <2>2. CASE Goto("resolve") /\ UNCHANGED reply
    BY <1>1, <1>2, <2>2, StillDeleting DEF Enter, Goto, Call, GoesOn, Deleting
  <2> QED
    BY <1>2, <2>1, <2>2 DEF Enter
<1>3. CASE ResolveDelete
  <2>1. CASE Goto("delete") /\ UNCHANGED reply
    BY <1>1, <1>3, <2>1, StillDeleting DEF ResolveDelete, Goto, Call, GoesOn, Deleting
  <2> QED
    BY <1>3, <2>1, NoAnswer DEF ResolveDelete, Deaths
<1>4. CASE Delete
  <2>1. CASE Goto("removevg") /\ UNCHANGED reply
    BY <1>1, <1>4, <2>1, StillDeleting DEF Delete, Goto, Call, GoesOn, Deleting
  <2>2. CASE Answer("IN_USE")
    BY <2>2, OtherAnswer
  <2> QED
    BY <1>4, <2>1, <2>2 DEF Delete
<1>5. CASE RemoveVg
  <2>1. GoesOn /\ call'.pc = "unpartition" /\ call'.pool = call.pool
    BY <1>1, <1>5 DEF RemoveVg, GoesOn, Call
  <2>2. call'.rc = "OK" => call.pool \in VgNames /\ ~VgExists(lib', call.pool)
    <3>1. CASE call'.rc = "OK"
      <4>1. call.pool \in VgNames /\ lib' = VgRemoved(lib, call.pool)
        BY <1>1, <1>5, <3>1 DEF RemoveVg, Call
      <4>2. lib'.size = [lib.size EXCEPT ![call.pool] = 0] /\ DOMAIN lib.size = VgNames
        BY <1>1, <4>1 DEF VgRemoved, StorageOf, Storage
      <4>3. lib'.size[call.pool] = 0
        BY <4>1, <4>2
      <4> QED
        BY <4>1, <4>3 DEF VgExists
    <3> QED
      BY <3>1
  <2> QED
    BY <2>1, <2>2, StillDeleting DEF Deleting
<1>6. CASE Unpartition
  <2>1. GoesOn /\ call'.pc = "deleted" /\ call'.pool = call.pool /\ call'.rc = call.rc
    BY <1>1, <1>6 DEF Unpartition, GoesOn, Call
  <2>2. lib'.size = lib.size
    BY <1>6 DEF Unpartition, Commit, Unpartitioned, StorageOf
  <2> QED
    BY <1>6, <2>1, <2>2, StillDeleting DEF Deleting, DeleteInv, Unpartition, VgExists
<1>7. CASE ScanAfterDelete
  <2>1. CASE ScanStorage /\ UNCHANGED <<storage, conf>> /\ Answer(call.rc)
    <3>1. CASE call.rc # "OK"
      BY <2>1, <3>1, OtherAnswer
    <3>2. CASE call.rc = "OK"
      <4>1. call.pool \in VgNames /\ ~VgExists(lib, call.pool) /\ call.pc = "deleted"
        BY <1>7, <3>2 DEF DeleteInv, ScanAfterDelete
      <4>2. call.pool \notin cache'.pools
        BY <2>1, <4>1, ScanSeesNoGroup
      <4>3. ~stale => disk = lib
        BY <4>1 DEF DurableInv, Staged
      <4>4. DeletedPoolIsGone'
        BY <2>1, <4>1, <4>2, <4>3 DEF DeletedPoolIsGone, Answer, storage
      <4> QED
        BY <2>1, <4>4 DEF DeleteInv, Answer, NoCall
    <3> QED
      BY <3>1, <3>2
  <2> QED
    BY <1>7, <2>1, NoAnswer DEF ScanAfterDelete, Deaths
<1> QED
  BY <1>1, <1>2, <1>3, <1>4, <1>5, <1>6, <1>7
     DEF Serve, Deleting, Enumerate, RequestScan, ResolvePool, Find, Partition, CreateComposition, Modify,
         Expand, RenamePool, Finish, ScanAfterPool, ResolveElement, Nest, Carve, MakeLv, Resize, Relabel,
         ResolveReturn, RemoveLv, ScanAndAnswer

LEMMA DeleteStep ==
    ASSUME TypeInv, DurableInv, DeleteInv, [Next]_vars
    PROVE  DeleteInv'
<1>1. CASE Serve /\ call.op = "DeleteStoragePool"
  BY <1>1, DeletingStep
<1>2. CASE Serve /\ call.op # "DeleteStoragePool"
  <2>1. CASE GoesOn
    BY <1>2, <2>1 DEF GoesOn, DeleteInv, DeletedPoolIsGone, NoReply
  <2>2. CASE AnswersOrDies
    BY <1>2, <2>2, OtherAnswer, NoAnswer DEF AnswersOrDies
  <2> QED
    BY <1>2, <2>1, <2>2, ServeGoesOn
<1>3. CASE Invoke
  <2>1. reply' = NoReply /\ call'.pc \in {"enter", "resolve"}
    BY <1>3 DEF Invoke
  <2> QED
    BY <2>1 DEF DeleteInv, DeletedPoolIsGone, NoReply, Deleting
<1>4. CASE Kill
  BY <1>4, NoAnswer DEF Kill, Deaths
<1>5. CASE Reinitialize \/ EditConf
  BY <1>5 DEF Reinitialize, EditConf, Idle, DeleteInv, DeletedPoolIsGone, NoReply, Deleting
<1>6. CASE UNCHANGED vars
  BY <1>6 DEF vars, DeleteInv, DeletedPoolIsGone
<1> QED
  BY <1>1, <1>2, <1>3, <1>4, <1>5, <1>6 DEF Next

\* Without failing commits a deletion that is answered "completed" has removed
\* the group from the disks and the pool from the arrays, also when queries of
\* the last scan fail.
THEOREM DeletedPoolsAreGone ==
    ASSUME ~CommitFails
    PROVE  Spec => []DeletedPoolIsGone
<1>1. Init => DurableInv /\ DeleteInv
  BY DEF Init, DurableInv, DeleteInv, DeletedPoolIsGone, NoCall, NoReply, Deleting
<1>2. TypeInv /\ DurableInv /\ DeleteInv /\ [Next]_vars => DurableInv' /\ DeleteInv'
  <2>1. CASE UNCHANGED vars
    BY <2>1, DeleteStep DEF vars, DurableInv
  <2> QED
    BY <2>1, DurableStep, DeleteStep
<1>3. DeleteInv => DeletedPoolIsGone
  BY DEF DeleteInv
<1> QED
  BY <1>1, <1>2, <1>3, Inductive, PTL DEF Spec

(***************************************************************************)
(* Pools do not take volumes with them, for clients that rename volumes to *)
(* names used nowhere and for scans whose queries succeed.                 *)
(***************************************************************************)

(***************************************************************************)
(* The storage is tidy: a volume's name is used in one group only, so that *)
(* the scan, which ignores a name it has seen, misses no volume, and       *)
(* volumes are in groups that exist.                                       *)
(***************************************************************************)
Housed(st) == \A v \in VgNames : ~VgExists(st, v) => LvsIn(st, v) = {}

Tidy(st) == LvNamesUnique(st) /\ Housed(st)

UsedNowhere(l) == \A v \in VgNames : l \notin LvsIn(lib, v) /\ l \notin LvsIn(disk, v)

VolumeInv ==
    /\ Tidy(lib) /\ Tidy(disk)
    /\ call.pc \in {"delete", "carve"} => cache.loaded
    /\ call.pc = "removevg" /\ call.pool \in VgNames => LvsIn(lib, call.pool) = {}
    /\ call.pc = "makelv" => \A v \in VgNames : call.elm \notin LvsIn(lib, v)
    /\ (call.pc \in {"enter", "resolve"} /\ call.vol # NULL) \/ call.pc \in {"resize", "relabel"}
         => (call.elm \in LvNames => UsedNowhere(call.elm))

-----------------------------------------------------------------------------
(***************************************************************************)
(* What the library's operations do to the volumes.                        *)
(***************************************************************************)
\* Storage with the same volumes and no fewer groups.
LEMMA SameVolumes ==
    ASSUME NEW st, NEW ts, ts.lvs = st.lvs, Tidy(st),
           \A v \in VgNames : VgExists(st, v) => VgExists(ts, v)
    PROVE  Tidy(ts) /\ \A v \in VgNames : LvsIn(ts, v) = LvsIn(st, v)
<1>1. \A v \in VgNames : LvsIn(ts, v) = LvsIn(st, v)
  BY DEF LvsIn
<1> QED
  BY <1>1 DEF Tidy, Housed, LvNamesUnique

\* createPartitionKb, removePartition, createLvmVg and extendLvmVg.
LEMMA GroupVolumes ==
    ASSUME NEW st \in Storage, Tidy(st), NEW n \in Nat, NEW v
    PROVE  /\ Tidy(Partitioned(st, n)) /\ Partitioned(st, n).lvs = st.lvs
           /\ Tidy(Unpartitioned(st, n)) /\ Unpartitioned(st, n).lvs = st.lvs
           /\ n > 0 => Tidy(VgCreated(st, v, n))
           /\ VgCreated(st, v, n).lvs = st.lvs
           /\ v \in VgNames => Tidy(VgExtended(st, v, n))
           /\ VgExtended(st, v, n).lvs = st.lvs
<1>1. Tidy(Partitioned(st, n)) /\ Partitioned(st, n).lvs = st.lvs
  BY SameVolumes DEF Partitioned, StorageOf, VgExists
<1>2. Tidy(Unpartitioned(st, n)) /\ Unpartitioned(st, n).lvs = st.lvs
  BY SameVolumes DEF Unpartitioned, StorageOf, VgExists
<1>3. VgCreated(st, v, n).lvs = st.lvs
  BY DEF VgCreated, StorageOf
<1>4. ASSUME n > 0
      PROVE  Tidy(VgCreated(st, v, n))
  <2>1. VgCreated(st, v, n).size = [st.size EXCEPT ![v] = n]
    BY DEF VgCreated, StorageOf
  <2>2. \A w \in VgNames : st.size[w] > 0 => [st.size EXCEPT ![v] = n][w] > 0
    BY <1>4 DEF Storage
  <2> QED
    BY <1>3, <2>1, <2>2, SameVolumes DEF VgExists
<1>5. VgExtended(st, v, n).lvs = st.lvs
  BY DEF VgExtended, StorageOf
<1>6. ASSUME v \in VgNames
      PROVE  Tidy(VgExtended(st, v, n))
  <2>1. VgExtended(st, v, n).size = [st.size EXCEPT ![v] = @ + n]
    BY DEF VgExtended, StorageOf
  <2>2. \A w \in VgNames : st.size[w] > 0 => [st.size EXCEPT ![v] = @ + n][w] > 0
    BY <1>6 DEF Storage
  <2> QED
    BY <1>5, <2>1, <2>2, SameVolumes DEF VgExists
<1> QED
  BY <1>1, <1>2, <1>3, <1>4, <1>5, <1>6

\* removeLvmVg: the volumes of the group go, no others.
LEMMA RemovedVolumes ==
    ASSUME NEW st \in Storage, Tidy(st), NEW v \in VgNames
    PROVE  /\ Tidy(VgRemoved(st, v))
           /\ \A w \in VgNames : LvsIn(VgRemoved(st, v), w) = IF w = v THEN {} ELSE LvsIn(st, w)
<1> DEFINE ts == VgRemoved(st, v)
<1>1. /\ ts.lvs = [st.lvs EXCEPT ![v] = NoLvs]
      /\ ts.size = [st.size EXCEPT ![v] = 0]
  BY DEF VgRemoved, StorageOf
<1> HIDE DEF ts
<1>2. \A w \in VgNames : LvsIn(ts, w) = IF w = v THEN {} ELSE LvsIn(st, w)
  BY <1>1 DEF LvsIn, NoLvs, Storage
<1>3. Housed(ts)
  BY <1>1, <1>2 DEF Housed, VgExists, Tidy, Storage
<1>4. LvNamesUnique(ts)
  BY <1>2 DEF LvNamesUnique, Tidy
<1> QED
  BY <1>2, <1>3, <1>4 DEF Tidy, ts

\* vgrename: the volumes of the group are in the group of the new name.
LEMMA VgRenamedVolumes ==
    ASSUME NEW st \in Storage, Tidy(st), NEW v \in VgNames, NEW w \in VgNames, v # w,
           VgExists(st, v), ~VgExists(st, w)
    PROVE  Tidy(VgRenamed(st, v, w))
<1> DEFINE ts == VgRenamed(st, v, w)
<1>1. /\ ts.lvs = [st.lvs EXCEPT ![w] = st.lvs[v], ![v] = NoLvs]
      /\ ts.size = [st.size EXCEPT ![w] = st.size[v], ![v] = 0]
  BY DEF VgRenamed, StorageOf
<1> HIDE DEF ts
<1>2. /\ LvsIn(ts, w) = LvsIn(st, v) /\ LvsIn(ts, v) = {}
      /\ \A u \in VgNames \ {v, w} : LvsIn(ts, u) = LvsIn(st, u)
  BY <1>1 DEF LvsIn, NoLvs, Storage
<1>3. VgExists(ts, w) /\ \A u \in VgNames \ {v, w} : VgExists(ts, u) = VgExists(st, u)
  BY <1>1 DEF VgExists, Storage
<1>4. Housed(ts)
  BY <1>2, <1>3 DEF Housed, Tidy
<1>5. LvNamesUnique(ts)
  BY <1>2 DEF LvNamesUnique, Tidy
<1> QED
  BY <1>4, <1>5 DEF Tidy, ts

\* createLvmLv: one volume more.
LEMMA CreatedVolumes ==
    ASSUME NEW st \in Storage, Tidy(st), NEW v \in VgNames, NEW l \in LvNames, NEW n \in Nat,
           n > 0, VgExists(st, v), \A w \in VgNames : l \notin LvsIn(st, w)
    PROVE  /\ Tidy(LvCreated(st, v, l, n))
           /\ \A w \in VgNames : LvsIn(st, w) \subseteq LvsIn(LvCreated(st, v, l, n), w)
<1> DEFINE ts == LvCreated(st, v, l, n)
<1>1. ts.lvs = [st.lvs EXCEPT ![v][l] = n] /\ ts.size = st.size
  BY DEF LvCreated, StorageOf
<1> HIDE DEF ts
<1>5. \A w \in VgNames, k \in LvNames :
        ts.lvs[w][k] = IF w = v /\ k = l THEN n ELSE st.lvs[w][k]
  BY <1>1 DEF Storage
<1>2. \A w \in VgNames : LvsIn(ts, w) = IF w = v THEN LvsIn(st, v) \cup {l} ELSE LvsIn(st, w)
  BY <1>5 DEF LvsIn
<1>3. Housed(ts)
  BY <1>1, <1>2 DEF Housed, Tidy, VgExists
<1>4. LvNamesUnique(ts)
  BY <1>2 DEF LvNamesUnique, Tidy
<1> QED
  BY <1>2, <1>3, <1>4 DEF Tidy, ts

\* removeLvmLv: one volume less.
LEMMA ReturnedVolumes ==
    ASSUME NEW st \in Storage, Tidy(st), NEW v \in VgNames, NEW l \in LvNames
    PROVE  /\ Tidy(LvRemoved(st, v, l))
           /\ \A w \in VgNames : LvsIn(st, w) \subseteq LvsIn(LvRemoved(st, v, l), w) \cup {l}
<1> DEFINE ts == LvRemoved(st, v, l)
<1>1. ts.lvs = [st.lvs EXCEPT ![v][l] = 0] /\ ts.size = st.size
  BY DEF LvRemoved, StorageOf
<1> HIDE DEF ts
<1>2. \A w \in VgNames : LvsIn(ts, w) = IF w = v THEN LvsIn(st, v) \ {l} ELSE LvsIn(st, w)
  BY <1>1 DEF LvsIn, Storage
<1>3. Housed(ts)
  BY <1>1, <1>2 DEF Housed, Tidy, VgExists
<1>4. LvNamesUnique(ts)
  BY <1>2 DEF LvNamesUnique, Tidy
<1> QED
  BY <1>2, <1>3, <1>4 DEF Tidy, ts

\* resizeVolumeNoFs: the same volumes.
LEMMA ResizedVolumes ==
    ASSUME NEW st \in Storage, Tidy(st), NEW v \in VgNames, NEW l \in LvsIn(st, v),
           NEW n \in Nat, n > 0
    PROVE  /\ Tidy(LvResized(st, v, l, n))
           /\ \A w \in VgNames : LvsIn(LvResized(st, v, l, n), w) = LvsIn(st, w)
<1> DEFINE ts == LvResized(st, v, l, n)
<1>1. ts.lvs = [st.lvs EXCEPT ![v][l] = n] /\ ts.size = st.size
  BY DEF LvResized, StorageOf
<1> HIDE DEF ts
<1>2. \A w \in VgNames : LvsIn(ts, w) = LvsIn(st, w)
  BY <1>1 DEF LvsIn, Storage
<1>3. Housed(ts)
  BY <1>1, <1>2 DEF Housed, Tidy, VgExists
<1>4. LvNamesUnique(ts)
  BY <1>2 DEF LvNamesUnique, Tidy
<1> QED
  BY <1>2, <1>3, <1>4 DEF Tidy, ts

\* lvrename to a name no volume has.
LEMMA LvRenamedVolumes ==
    ASSUME NEW st \in Storage, Tidy(st), NEW v \in VgNames, NEW l \in LvsIn(st, v),
           NEW m \in LvNames, \A w \in VgNames : m \notin LvsIn(st, w)
    PROVE  Tidy(LvRenamed(st, v, l, m))
<1> DEFINE ts == LvRenamed(st, v, l, m)
<1>1. /\ ts.lvs = [st.lvs EXCEPT ![v] = [@ EXCEPT ![m] = st.lvs[v][l], ![l] = 0]]
      /\ ts.size = st.size
  BY DEF LvRenamed, StorageOf
<1> HIDE DEF ts
<1>6. \A w \in VgNames, k \in LvNames :
        w # v \/ k \notin {l, m} => ts.lvs[w][k] = st.lvs[w][k]
  BY <1>1 DEF Storage
<1>2. \A w \in VgNames : LvsIn(ts, w) \subseteq IF w = v THEN LvsIn(st, v) \cup {m} ELSE LvsIn(st, w)
  BY <1>6 DEF LvsIn
<1>3. VgExists(st, v)
  BY DEF Tidy, Housed
<1>4. Housed(ts)
  BY <1>1, <1>2, <1>3 DEF Housed, Tidy, VgExists
<1>5. LvNamesUnique(ts)
  BY <1>2 DEF LvNamesUnique, Tidy
<1> QED
  BY <1>4, <1>5 DEF Tidy, ts

-----------------------------------------------------------------------------
(***************************************************************************)
(* What the arrays know of the volumes.                                    *)
(***************************************************************************)
\* While the arrays mirror a tidy library, they name the group of each volume.
LEMMA OwnersKnown ==
    ASSUME ~QueriesFail, TypeInv, CacheInv, Tidy(lib), call.pc \in BeforeChanges, cache.loaded,
           NEW v \in VgNames, NEW l \in LvsIn(lib, v)
    PROVE  cache.owner[l] = v
<1>1. cache \in ScanResults(lib, NULL, NULL)
  BY DEF CacheInv, Mirrors, Missed
<1> DEFINE seen == {u \in VgNames : VgExists(lib, u)} \ {NULL}
           heard(k) == {u \in seen \ {NULL} : k \in LvsIn(lib, u)}
<1>2. PICK o \in [LvNames -> VgNames \cup {NULL}] :
        /\ \A k \in LvNames : IF heard(k) = {} THEN o[k] = NULL ELSE o[k] \in heard(k)
        /\ cache.owner = o
  BY <1>1 DEF ScanResults
<1>3. VgExists(lib, v) /\ l \in LvNames /\ v # NULL
  BY NamesAssumption DEF Tidy, Housed, LvsIn
<1>4. v \in heard(l)
  BY <1>3
<1>5. heard(l) \subseteq {v}
  BY DEF Tidy, LvNamesUnique
<1> QED
  BY <1>2, <1>3, <1>4, <1>5

\* The pools and volumes of arrays that are not filled.
LEMMA KnownIsLoaded ==
    ASSUME CacheInv, NEW p \in Pools, Known(p)
    PROVE  cache.loaded
  BY DEF CacheInv, EmptyCache, Known, Holds

-----------------------------------------------------------------------------
(***************************************************************************)
(* Every step keeps the invariant, and the volumes.                        *)
(***************************************************************************)
AllKept == \A v \in VgNames, l \in LvNames : VolumeKept(v, l)

Minded == {"delete", "carve", "removevg", "makelv", "enter", "resolve", "resize", "relabel"}

\* Steps after which nothing is to be remembered.
LEMMA PlainStep ==
    ASSUME Tidy(lib'), Tidy(disk'), call'.pc \notin Minded
    PROVE  VolumeInv'
  BY DEF VolumeInv, Minded, Tidy, LvNamesUnique, Housed, VgExists, LvsIn

\* Storage with the volumes there were before.
LEMMA SameAreKept ==
    ASSUME lib'.lvs = lib.lvs
    PROVE  AllKept
  BY DEF AllKept, VolumeKept, LvsIn

\* The library reads the disk.
LEMMA RereadIsKept ==
    ASSUME lib' = disk, UNCHANGED disk
    PROVE  AllKept
  BY DEF AllKept, VolumeKept

\* A step that changes no storage.
LEMMA ReadingKeepsVolumes ==
    ASSUME VolumeInv, UNCHANGED storage
    PROVE  AllKept /\ (call'.pc \notin Minded => VolumeInv')
<1>1. Tidy(lib') /\ Tidy(disk') /\ lib'.lvs = lib.lvs
  BY DEF storage, VolumeInv
<1> QED
  BY <1>1, PlainStep, SameAreKept

\* A commit of storage that is tidy.
LEMMA CommitIsTidy ==
    ASSUME VolumeInv, NEW st, Tidy(st), Commit(st), call'.pc \notin Minded
    PROVE  VolumeInv'
<1>1. lib' = st /\ (disk' = st \/ disk' = disk)
  BY DEF Commit
<1>2. Tidy(lib') /\ Tidy(disk')
  BY <1>1 DEF VolumeInv
<1> QED
  BY <1>2, PlainStep

\* The end of the process.
LEMMA DeathKeepsVolumes ==
    ASSUME VolumeInv, NEW reason, Die(reason)
    PROVE  VolumeInv' /\ AllKept
<1>1. lib' = disk /\ disk' = disk /\ call'.pc = "idle"
  BY DEF Die, NoCall
<1>2. Tidy(lib') /\ Tidy(disk') /\ call'.pc \notin Minded
  BY <1>1 DEF VolumeInv, Minded
<1> QED
  BY <1>1, <1>2, PlainStep, RereadIsKept

\* A client's call, and the scan before it is served.
LEMMA EntryKeepsVolumes ==
    ASSUME ClientRenamesFresh, TypeInv, VolumeInv, Invoke \/ Enter
    PROVE  VolumeInv' /\ AllKept
<1>1. UNCHANGED storage
  BY DEF Invoke, Enter
<1>2. AllKept /\ Tidy(lib') /\ Tidy(disk')
  BY <1>1, ReadingKeepsVolumes DEF storage, VolumeInv
<1>3. lib' = lib /\ disk' = disk
  BY <1>1 DEF storage
<1>4. CASE Invoke
  <2>1. PICK r \in Offered :
          /\ (ClientRenamesFresh /\ r.vol # NULL /\ r.elm \in LvNames) =>
                \A v \in VgNames : r.elm \notin LvsIn(lib, v) \cup LvsIn(disk, v)
          /\ call' = [op |-> r.op, pc |-> IF needScan THEN "enter" ELSE "resolve",
                      pool |-> r.pool, in |-> r.in, name |-> r.name, vol |-> r.vol,
                      elm |-> r.elm, goal |-> r.goal, size |-> r.size,
                      part |-> 0, rc |-> "OK"]
    BY <1>4 DEF Invoke
  <2>2. call'.pc \in {"enter", "resolve"} /\ call'.vol = r.vol /\ call'.elm = r.elm
    BY <2>1
  <2>3. call'.vol # NULL /\ call'.elm \in LvNames => UsedNowhere(call'.elm)
    BY <2>1, <2>2 DEF UsedNowhere
  <2> QED
    BY <1>2, <2>2, <2>3, <1>3 DEF VolumeInv, UsedNowhere
<1>5. CASE Enter
  <2>1. CASE call' = NoCall
    <3>1. call'.pc = "idle"
      BY <2>1 DEF NoCall
    <3> QED
      BY <1>1, <1>2, <3>1, ReadingKeepsVolumes DEF Minded
  <2>2. CASE call' = [call EXCEPT !.pc = "resolve"]
    <3>1. call'.pc = "resolve" /\ call'.vol = call.vol /\ call'.elm = call.elm /\ call.pc = "enter"
      BY <1>5, <2>2 DEF Enter, TypeInv, TypeOK, Call
    <3> QED
      BY <1>2, <1>3, <3>1 DEF VolumeInv, UsedNowhere
  <2> QED
    BY <1>5, <2>1, <2>2 DEF Enter, Answer, Goto
<1> QED
  BY <1>4, <1>5

\* An answer, and the end of the process.
LEMMA CallEnds ==
    /\ \A rc : Answer(rc) => call'.pc = "idle"
    /\ \A reason : Die(reason) => call'.pc = "idle"
  BY DEF Answer, Die, NoCall

\* Steps that change no storage and choose no pool or volume to work on.
LEMMA PlainReadsKeepVolumes ==
    ASSUME TypeInv, VolumeInv,
           \/ Enumerate \/ RequestScan \/ Find \/ Modify \/ Nest \/ ResolveReturn
           \/ ScanAndAnswer \/ EditConf
    PROVE  VolumeInv' /\ AllKept
<1>1. UNCHANGED storage
  BY DEF Enumerate, RequestScan, Find, Modify, Nest, ResolveReturn, ScanAndAnswer, EditConf
<1>2. call \in Call
  BY DEF TypeInv, TypeOK
<1>3. CASE Enumerate \/ RequestScan \/ ScanAndAnswer \/ EditConf
  <2>1. call'.pc \in {"idle", "volscan"}
    BY <1>2, <1>3 DEF Enumerate, RequestScan, ScanAndAnswer, EditConf, Answer, NoCall, Goto,
                      Idle, Call
  <2> QED
    BY <1>1, <2>1, ReadingKeepsVolumes DEF Minded
<1>4. CASE Find
  <2>1. call'.pc \in {"scan", "finish", "partition"}
    BY <1>2, <1>4 DEF Find, GotoWith, Call
  <2> QED
    BY <1>1, <2>1, ReadingKeepsVolumes DEF Minded
<1>5. CASE Modify \/ Nest
  <2>1. call'.pc \in {"find", "rename", "volscan"}
    BY <1>2, <1>5 DEF Modify, Nest, Goto, GotoWith, Call
  <2> QED
    BY <1>1, <2>1, ReadingKeepsVolumes DEF Minded
<1>6. CASE ResolveReturn
  <2>1. call'.pc \in {"idle", "removelv"}
    BY <1>2, <1>6, CallEnds DEF ResolveReturn, Call
  <2> QED
    BY <1>1, <2>1, ReadingKeepsVolumes DEF Minded
<1> QED
  BY <1>3, <1>4, <1>5, <1>6

\* The pool to delete is in the arrays: they are filled.
LEMMA PoolLookupKeepsVolumes ==
    ASSUME TypeInv, CacheInv, VolumeInv, ResolvePool \/ ResolveDelete
    PROVE  VolumeInv' /\ AllKept
<1>1. call \in Call
  BY DEF TypeInv, TypeOK
<1>2. CASE UNCHANGED storage /\ call'.pc \in {"idle", "find"}
  BY <1>2, ReadingKeepsVolumes DEF Minded
<1>3. ASSUME UNCHANGED <<storage, model>>, call'.pc = "delete", call.pool # NULL, Known(call.pool)
      PROVE  VolumeInv' /\ AllKept
  <2>1. cache'.loaded
    BY <1>1, <1>3, KnownIsLoaded DEF Call, model
  <2>2. Tidy(lib') /\ Tidy(disk')
    BY <1>3 DEF storage, VolumeInv
  <2> QED
    BY <1>3, <2>1, <2>2, ReadingKeepsVolumes DEF VolumeInv
<1>4. CASE ResolvePool
  <2>1. UNCHANGED <<storage, model>>
    BY <1>4 DEF ResolvePool, storage, model
  <2>2. CASE Answer("INVALID_PARAM") \/ Answer("SIZE_NOT_SUPPORTED")
    BY <1>2, <2>1, <2>2, CallEnds
  <2>3. CASE /\ \A p \in {call.pool, call.in} : p = NULL \/ Known(p)
             /\ call' = [call EXCEPT
                           !.pc = IF call.pool = NULL THEN "find" ELSE "delete",
                           !.name = IF @ = NULL THEN call.pool ELSE @]
    <3>1. CASE call.pool = NULL
      <4>1. call'.pc = "find"
        BY <1>1, <2>3, <3>1 DEF Call
      <4> QED
        BY <1>2, <2>1, <4>1
    <3>2. CASE call.pool # NULL
      <4>1. call'.pc = "delete"
        BY <1>1, <2>3, <3>2 DEF Call
      <4> QED
        BY <1>3, <2>1, <2>3, <3>2, <4>1
    <3> QED
      BY <3>1, <3>2
  <2> QED
    BY <1>4, <2>2, <2>3 DEF ResolvePool
<1>5. CASE ResolveDelete
  <2>1. CASE /\ call.pool # NULL /\ Known(call.pool)
             /\ Goto("delete")
             /\ UNCHANGED <<storage, conf, model, reply>>
    <3>1. call'.pc = "delete" /\ UNCHANGED <<storage, model>>
      BY <1>1, <2>1 DEF Goto, Call, storage, model
    <3> QED
      BY <1>3, <2>1, <3>1
  <2>2. CASE Die("null pool")
    BY <2>2, DeathKeepsVolumes
  <2> QED
    BY <1>5, <2>1, <2>2 DEF ResolveDelete
<1> QED
  BY <1>4, <1>5

\* Partitions, groups and their extension.
LEMMA GroupsKeepVolumes ==
    ASSUME TypeInv, VolumeInv, Partition \/ CreateComposition \/ Expand \/ Finish \/ Unpartition
    PROVE  VolumeInv' /\ AllKept
<1>1. call \in Call /\ lib \in Storage /\ Tidy(lib) /\ Tidy(disk)
  BY DEF TypeInv, TypeOK, VolumeInv
<1>2. call.size \in Nat /\ call.part \in Nat /\ Grain \in Nat
  BY <1>1, SizesAssumption DEF Call
<1>3. \/ call'.pc \in {"compose", "scan", "rename", "finish", "deleted"}
      \/ CreateComposition /\ Die("traced number")
  BY <1>1 DEF Partition, CreateComposition, Expand, Finish, Unpartition, Goto, Call
<1>4. CASE Die("traced number")
  BY <1>4, DeathKeepsVolumes
<1> SUFFICES ASSUME ~Die("traced number")
             PROVE  VolumeInv' /\ AllKept
  BY <1>4
<1>12. call'.pc \notin Minded
  BY <1>3 DEF Minded
<1>5. ASSUME NEW st, Commit(st), Tidy(st), st.lvs = lib.lvs
      PROVE  VolumeInv' /\ AllKept
  <2>1. VolumeInv'
    BY <1>5, <1>12, CommitIsTidy
  <2>2. AllKept
    BY <1>5, SameAreKept DEF Commit
  <2> QED
    BY <2>1, <2>2
<1>6. CASE Commit(lib)
  BY <1>1, <1>5, <1>6
<1>7. CASE Partition
  <2>1. PICK n \in Nat : Commit(Partitioned(lib, n))
    BY <1>2, <1>7 DEF Partition
  <2> QED
    BY <1>1, <1>5, <2>1, GroupVolumes
<1>8. CASE CreateComposition
  <2>1. CASE call.part > 0 /\ Commit(VgCreated(lib, call.name, call.part))
    BY <1>1, <1>2, <1>5, <2>1, GroupVolumes
  <2> QED
    BY <1>6, <1>8, <2>1 DEF CreateComposition
<1>9. CASE Expand
  <2>1. UNCHANGED disk
    BY <1>9 DEF Expand
  <2>2. CASE call.pool \in VgNames /\ lib' = VgExtended(lib, call.pool, call.part)
    <3>1. Tidy(lib') /\ lib'.lvs = lib.lvs
      BY <1>1, <1>2, <2>2, GroupVolumes
    <3> QED
      BY <1>1, <1>12, <2>1, <3>1, PlainStep, SameAreKept
  <2>3. CASE UNCHANGED lib
    BY <1>1, <1>12, <2>1, <2>3, PlainStep, SameAreKept
  <2> QED
    BY <1>9, <2>2, <2>3 DEF Expand
<1>10. CASE Finish
  BY <1>6, <1>10 DEF Finish
<1>11. CASE Unpartition
  <2>1. PICK n \in Nat : Commit(Unpartitioned(lib, n))
    BY <1>2, <1>11 DEF Unpartition
  <2> QED
    BY <1>1, <1>5, <2>1, GroupVolumes
<1> QED
  BY <1>7, <1>8, <1>9, <1>10, <1>11

\* vgrename, and the scans at the end of the methods about pools.
LEMMA RenameKeepsVolumes ==
    ASSUME TypeInv, VolumeInv, RenamePool
    PROVE  VolumeInv' /\ AllKept
<1>1. call \in Call /\ disk \in Storage /\ Tidy(lib) /\ Tidy(disk) /\ lib' = lib
  BY DEF TypeInv, TypeOK, VolumeInv, RenamePool, storage, Commit
<1>2. call'.pc \notin Minded
  BY <1>1 DEF RenamePool, Goto, GotoWith, Call, Minded
<1>3. Tidy(disk')
  <2>1. CASE disk' \in {disk, lib}
    BY <1>1, <2>1
  <2>2. CASE /\ call.name # call.pool /\ call.pool \in VgNames /\ call.name \in VgNames
             /\ VgExists(disk, call.pool) /\ ~VgExists(disk, call.name)
             /\ disk' = VgRenamed(disk, call.pool, call.name)
    BY <1>1, <2>2, VgRenamedVolumes
  <2> QED
    BY <2>1, <2>2 DEF RenamePool, storage, Commit
<1> QED
  BY <1>1, <1>2, <1>3, PlainStep, SameAreKept

\* The scans at the end of the methods about pools.
LEMMA PoolScansKeepVolumes ==
    ASSUME TypeInv, VolumeInv, CacheInv', ScanAfterPool \/ ScanAfterDelete
    PROVE  VolumeInv' /\ AllKept
<1>1. call \in Call
  BY DEF TypeInv, TypeOK
<1>2. CASE ScanAfterPool
  <2>1. UNCHANGED storage
    BY <1>2 DEF ScanAfterPool
  <2>2. CASE \/ Answer(call.rc) \/ Goto("volscan") \/ GotoWith("volscan", "INVALID_PARAM")
    <3>1. call'.pc \in {"idle", "volscan"}
      BY <1>1, <2>2, CallEnds DEF Goto, GotoWith, Call
    <3> QED
      BY <2>1, <3>1, ReadingKeepsVolumes DEF Minded
  <2>3. CASE /\ call.name \in cache'.pools
             /\ call' = [call EXCEPT !.pc = "carve", !.pool = call.name,
                                     !.size = cache'.free[call.name]]
    <3>1. cache'.loaded
      BY <2>3 DEF CacheInv, EmptyCache
    <3>2. call'.pc = "carve"
      BY <1>1, <2>3 DEF Call
    <3>3. Tidy(lib') /\ Tidy(disk')
      BY <2>1 DEF storage, VolumeInv
    <3> QED
      BY <2>1, <3>1, <3>2, <3>3, ReadingKeepsVolumes DEF VolumeInv
  <2> QED
    BY <1>2, <2>2, <2>3 DEF ScanAfterPool
<1>3. CASE ScanAfterDelete
  <2>1. CASE Die("null input pool") \/ Die("freed goal")
    BY <2>1, DeathKeepsVolumes
  <2>2. CASE /\ UNCHANGED <<storage, conf>>
             /\ \/ Answer(call.rc) \/ Goto("scan")
                \/ call' = [call EXCEPT !.pc = "find", !.pool = NULL]
    <3>1. call'.pc \in {"idle", "scan", "find"}
      BY <1>1, <2>2, CallEnds DEF Goto, Call
    <3>2. UNCHANGED storage
      BY <2>2
    <3> QED
      BY <3>1, <3>2, ReadingKeepsVolumes DEF Minded
  <2> QED
    BY <1>3, <2>1, <2>2 DEF ScanAfterDelete
<1> QED
  BY <1>2, <1>3

\* A pool that is not in use has no volumes, for the arrays know them all.
LEMMA DeleteKeepsVolumes ==
    ASSUME ~QueriesFail, TypeInv, CacheInv, VolumeInv, Delete
    PROVE  VolumeInv' /\ AllKept
<1>1. call \in Call /\ UNCHANGED storage /\ Tidy(lib) /\ Tidy(disk)
  BY DEF Delete, TypeInv, TypeOK, VolumeInv
<1>2. CASE Answer("IN_USE") \/ Goto("modify")
  <2>1. call'.pc \in {"idle", "modify"}
    BY <1>1, <1>2, CallEnds DEF Goto, Call
  <2> QED
    BY <1>1, <2>1, ReadingKeepsVolumes DEF Minded
<1>3. CASE ~InUse(call.pool) /\ Goto("removevg")
  <2>1. call'.pc = "removevg" /\ call'.pool = call.pool
    BY <1>1, <1>3 DEF Goto, Call
  <2>2. ASSUME call.pool \in VgNames
        PROVE  LvsIn(lib, call.pool) = {}
    <3>1. \A l \in LvNames : cache.owner[l] # call.pool
      BY <1>3, <2>2, NamesAssumption DEF InUse, VolumesOf
    <3>2. cache.loaded /\ call.pc \in BeforeChanges
      BY DEF Delete, VolumeInv, BeforeChanges
    <3>3. \A l \in LvsIn(lib, call.pool) : cache.owner[l] = call.pool
      BY <1>1, <2>2, <3>2, OwnersKnown
    <3> QED
      BY <3>1, <3>3 DEF LvsIn
  <2>3. lib' = lib /\ Tidy(lib') /\ Tidy(disk')
    BY <1>1 DEF storage
  <2>4. VolumeInv'
    BY <2>1, <2>2, <2>3 DEF VolumeInv
  <2> QED
    BY <1>1, <2>4, ReadingKeepsVolumes
<1> QED
  BY <1>2, <1>3 DEF Delete

\* So the group that is removed takes none with it.
LEMMA RemoveVgKeepsVolumes ==
    ASSUME TypeInv, VolumeInv, RemoveVg
    PROVE  VolumeInv' /\ AllKept
<1>1. call \in Call /\ lib \in Storage /\ disk' = disk /\ Tidy(lib) /\ Tidy(disk)
  BY DEF RemoveVg, TypeInv, TypeOK, VolumeInv
<1>2. call'.pc \notin Minded
  BY <1>1 DEF RemoveVg, Call, Minded
<1>3. CASE lib' = lib
  BY <1>1, <1>2, <1>3, PlainStep, SameAreKept
<1>4. CASE call.pool \in VgNames /\ lib' = VgRemoved(lib, call.pool)
  <2>1. LvsIn(lib, call.pool) = {}
    BY <1>4 DEF RemoveVg, VolumeInv
  <2>2. /\ Tidy(lib')
        /\ \A v \in VgNames : LvsIn(lib', v) = IF v = call.pool THEN {} ELSE LvsIn(lib, v)
    BY <1>1, <1>4, RemovedVolumes
  <2>3. AllKept
    BY <2>1, <2>2 DEF AllKept, VolumeKept
  <2> QED
    BY <1>1, <1>2, <2>2, <2>3, PlainStep
<1> QED
  BY <1>3, <1>4 DEF RemoveVg

\* The pool of a new volume is in the arrays, and a volume to modify comes
\* with the name that was fresh when the client called.
LEMMA ElementLookupKeepsVolumes ==
    ASSUME TypeInv, CacheInv, VolumeInv, ResolveElement
    PROVE  VolumeInv' /\ AllKept
<1> DEFINE vol == IF call.vol \in LvNames /\ cache.owner[call.vol] # NULL
                  THEN call.vol ELSE NULL
           pool == IF call.pool # NULL /\ Known(call.pool) THEN call.pool ELSE NULL
           given == call.goal /\ cache.loaded
           roomy == {p \in Pools : /\ Known(p)
                                   /\ given \/ Remaining(p) >= MinVolumeSize}
           choices == IF vol # NULL THEN {cache.owner[vol]}
                      ELSE IF pool # NULL THEN {pool}
                      ELSE IF roomy \cap VgNames # {} THEN roomy \cap VgNames
                      ELSE roomy
<1>1. call \in Call /\ Tidy(lib) /\ Tidy(disk) /\ call.pc = "resolve"
  BY DEF ResolveElement, TypeInv, TypeOK, VolumeInv
<1>2. vol = NULL => \A p \in choices : p \in Pools /\ Known(p)
  BY <1>1 DEF Call
<1>3. vol # NULL => call.vol # NULL
  OBVIOUS
<1>4. CASE Die("null name")
  BY <1>4, DeathKeepsVolumes
<1>5. CASE Answer("INVALID_PARAM") /\ UNCHANGED <<storage, conf, model>>
  <2>1. UNCHANGED storage /\ call'.pc = "idle"
    BY <1>5, CallEnds DEF storage
  <2> QED
    BY <2>1, ReadingKeepsVolumes DEF Minded
<1> HIDE DEF vol, pool, given, roomy, choices
<1>6. ASSUME NEW p \in choices,
             call' = [call EXCEPT !.pool = p, !.vol = vol,
                        !.pc = IF vol # NULL THEN "resize"
                               ELSE IF p = Primordial THEN "nest" ELSE "carve"],
             UNCHANGED <<storage, conf, model, reply>>
      PROVE  VolumeInv' /\ AllKept
  <2>1. UNCHANGED storage /\ cache' = cache /\ lib' = lib /\ disk' = disk
    BY <1>6 DEF storage, model
  <2>2. AllKept
    BY <2>1, ReadingKeepsVolumes
  <2>3. CASE vol # NULL
    <3>1. call'.pc = "resize" /\ call'.elm = call.elm
      BY <1>1, <1>6, <2>3 DEF Call
    <3>2. call.elm \in LvNames => UsedNowhere(call.elm)
      BY <1>1, <1>3, <2>3 DEF VolumeInv
    <3> QED
      BY <1>1, <2>1, <2>2, <3>1, <3>2 DEF VolumeInv, UsedNowhere
  <2>4. CASE vol = NULL
    <3>1. cache'.loaded
      BY <1>2, <1>6, <2>1, <2>4, KnownIsLoaded
    <3>2. call'.pc \in {"nest", "carve"}
      BY <1>1, <1>6, <2>4 DEF Call
    <3> QED
      BY <1>1, <2>1, <2>2, <3>1, <3>2 DEF VolumeInv
  <2> QED
    BY <2>3, <2>4
<1> QED
  BY ZenonT(60), <1>4, <1>5, <1>6 DEF ResolveElement, vol, pool, given, roomy, choices

\* The name of a new volume is in no group, for the arrays know them all.
LEMMA CarveKeepsVolumes ==
    ASSUME ~QueriesFail, TypeInv, Named, CacheInv, VolumeInv, Carve
    PROVE  VolumeInv' /\ AllKept
<1> DEFINE left == Remaining(call.pool)
           name == IF call.elm = EMPTY THEN GenVol[call.pool] ELSE call.elm
           size == IF call.size = 0 THEN left ELSE call.size
<1>1. call \in Call /\ Tidy(lib) /\ Tidy(disk) /\ call.pc = "carve"
  BY DEF Carve, TypeInv, TypeOK, VolumeInv
<1>2. CASE /\ GotoWith("volscan", "SIZE_NOT_SUPPORTED") \/ GotoWith("volscan", "INVALID_PARAM")
           /\ UNCHANGED storage \/ Commit(lib)
  <2>1. call'.pc = "volscan"
    BY <1>1, <1>2 DEF GotoWith, Call
  <2>2. call'.pc \notin Minded
    BY <2>1 DEF Minded
  <2>3. CASE Commit(lib)
    BY <1>1, <2>2, <2>3, CommitIsTidy, SameAreKept DEF Commit
  <2> QED
    BY <1>2, <2>2, <2>3, ReadingKeepsVolumes
<1>3. CASE /\ cache.owner[name] = NULL /\ UNCHANGED storage
           /\ call' = [call EXCEPT !.pc = "makelv", !.elm = name,
                                   !.size = IF @ = 0 THEN left ELSE @]
  <2>1. call' = [call EXCEPT !.pc = "makelv", !.elm = name, !.size = size]
    BY <1>3
  <2>2. cache.loaded /\ call.pc \in BeforeChanges
    BY <1>1 DEF VolumeInv, BeforeChanges
  <2>3. \A v \in VgNames : name \notin LvsIn(lib, v)
    BY <1>1, <1>3, <2>2, OwnersKnown, NamesAssumption
  <2> HIDE DEF left, name, size
  <2>4. call'.pc = "makelv" /\ call'.elm = name
    BY <1>1, <2>1 DEF Call
  <2>5. lib' = lib /\ Tidy(lib') /\ Tidy(disk')
    BY <1>1, <1>3 DEF storage
  <2>6. VolumeInv'
    BY <2>3, <2>4, <2>5 DEF VolumeInv
  <2> QED
    BY <1>3, <2>6, ReadingKeepsVolumes
<1> QED
  BY <1>2, <1>3 DEF Carve

\* createLvmLv.
LEMMA MakeLvKeepsVolumes ==
    ASSUME TypeInv, VolumeInv, MakeLv
    PROVE  VolumeInv' /\ AllKept
<1>1. call \in Call /\ lib \in Storage /\ Tidy(lib) /\ call.size \in Nat
  BY DEF TypeInv, TypeOK, VolumeInv, Call
<1>2. call.pool \in VgNames /\ call.elm \in LvNames
  BY DEF MakeLv, TypeInv, Parameters
<1>3. call'.pc \notin Minded
  BY <1>1 DEF MakeLv, Goto, GotoWith, Call, Minded
<1>4. CASE Commit(lib)
  BY <1>1, <1>3, <1>4, CommitIsTidy, SameAreKept DEF Commit
<1>5. CASE /\ VgExists(lib, call.pool)
           /\ Truncated(call.size) \in 1..lib.pefree[call.pool]
           /\ Commit(LvCreated(lib, call.pool, call.elm, Truncated(call.size)))
  <2> DEFINE n == Truncated(call.size)
  <2>1. n \in Nat /\ n > 0
    BY <1>1, <1>2, <1>5, TruncatedFacts DEF Storage
  <2>2. \A v \in VgNames : call.elm \notin LvsIn(lib, v)
    BY DEF MakeLv, VolumeInv
  <2> HIDE DEF n
  <2> DEFINE st == LvCreated(lib, call.pool, call.elm, n)
  <2>3. Tidy(st) /\ \A v \in VgNames : LvsIn(lib, v) \subseteq LvsIn(st, v)
    BY <1>1, <1>2, <1>5, <2>1, <2>2, CreatedVolumes
  <2>4. Commit(st)
    BY <1>5 DEF n
  <2> HIDE DEF st
  <2>5. lib' = st
    BY <2>4 DEF Commit
  <2>6. AllKept
    BY <2>3, <2>5 DEF AllKept, VolumeKept
  <2> QED
    BY <1>3, <2>3, <2>4, <2>6, CommitIsTidy
<1> QED
  BY <1>4, <1>5 DEF MakeLv

\* resizeVolumeNoFs leaves the volume a unit at least, and its new name fresh.
LEMMA ResizeKeepsVolumes ==
    ASSUME TypeInv, VolumeInv, Resize
    PROVE  VolumeInv' /\ AllKept
<1>1. /\ call \in Call /\ lib \in Storage /\ Tidy(lib) /\ Tidy(disk) /\ call.size \in Nat
      /\ call.pc = "resize"
  BY DEF Resize, TypeInv, TypeOK, VolumeInv, Call
<1>2. call.pool \in VgNames
  BY <1>1 DEF TypeInv, Parameters, OnVolume
<1>3. call.elm \in LvNames => UsedNowhere(call.elm)
  BY <1>1 DEF VolumeInv
<1>4. ASSUME NEW st, Tidy(st), \A v \in VgNames : LvsIn(st, v) = LvsIn(lib, v),
             lib' = st, disk' = st \/ disk' = disk, Goto("relabel")
      PROVE  VolumeInv' /\ AllKept
  <2>1. call'.pc = "relabel" /\ call'.elm = call.elm
    BY <1>1, <1>4 DEF Goto, Call
  <2>2. call.elm \in LvNames =>
          \A v \in VgNames : call.elm \notin LvsIn(lib', v) /\ call.elm \notin LvsIn(disk', v)
    BY <1>3, <1>4 DEF UsedNowhere
  <2>3. Tidy(lib') /\ Tidy(disk')
    BY <1>1, <1>4
  <2>4. VolumeInv'
    BY <2>1, <2>2, <2>3 DEF VolumeInv, UsedNowhere
  <2>5. AllKept
    BY <1>4 DEF AllKept, VolumeKept
  <2> QED
    BY <2>4, <2>5
<1>5. CASE Goto("relabel") /\ UNCHANGED storage
  BY <1>1, <1>4, <1>5 DEF storage
<1>6. CASE GotoWith("volscan", "NOT_SUPPORTED") /\ Commit(lib)
  <2>1. call'.pc \notin Minded
    BY <1>1, <1>6 DEF GotoWith, Call, Minded
  <2> QED
    BY <1>1, <1>6, <2>1, CommitIsTidy, SameAreKept DEF Commit
<1>7. CASE /\ call.size >= MinVolumeSize /\ call.vol \in LvsIn(lib, call.pool)
           /\ Commit(LvResized(lib, call.pool, call.vol, Truncated(call.size)))
           /\ Goto("relabel")
  <2> DEFINE n == Truncated(call.size)
  <2>1. n \in Nat /\ n > 0
    BY <1>1, <1>7, TruncatedFacts
  <2> HIDE DEF n
  <2> DEFINE st == LvResized(lib, call.pool, call.vol, n)
  <2>2. Tidy(st) /\ \A v \in VgNames : LvsIn(st, v) = LvsIn(lib, v)
    BY <1>1, <1>2, <1>7, <2>1, ResizedVolumes
  <2>3. lib' = st /\ (disk' = st \/ disk' = disk)
    BY <1>7 DEF Commit, n
  <2> HIDE DEF st
  <2> QED
    BY <1>4, <1>7, <2>2, <2>3
<1> QED
  BY <1>5, <1>6, <1>7 DEF Resize

\* lvrename to a fresh name keeps the names apart.
LEMMA RelabelKeepsVolumes ==
    ASSUME TypeInv, Named, VolumeInv, Relabel
    PROVE  VolumeInv' /\ AllKept
<1>1. call \in Call /\ disk \in Storage /\ Tidy(lib) /\ Tidy(disk) /\ call.pc = "relabel"
  BY DEF Relabel, TypeInv, TypeOK, VolumeInv
<1>2. call.pool \in VgNames /\ call.elm # NULL
  BY <1>1 DEF TypeInv, Parameters, OnVolume, Named
<1>3. call'.pc \notin Minded
  BY <1>1 DEF Relabel, Goto, GotoWith, Call, Minded
<1>4. AllKept
  BY <1>1 DEF AllKept, VolumeKept
<1>5. Tidy(lib') /\ Tidy(disk')
  <2>1. CASE UNCHANGED storage \/ (lib' = disk /\ UNCHANGED disk)
    BY <1>1, <2>1 DEF storage
  <2>2. CASE /\ call.elm # EMPTY /\ call.vol \in LvsIn(disk, call.pool)
             /\ disk' = LvRenamed(disk, call.pool, call.vol, call.elm)
             /\ lib' = disk'
    <3>1. call.elm \in LvNames
      BY <1>1, <1>2, <2>2 DEF Call
    <3>2. \A v \in VgNames : call.elm \notin LvsIn(disk, v)
      BY <1>1, <3>1 DEF VolumeInv, UsedNowhere
    <3> QED
      BY <1>1, <1>2, <2>2, <3>1, <3>2, LvRenamedVolumes
  <2> QED
    BY <2>1, <2>2 DEF Relabel
<1> QED
  BY <1>3, <1>4, <1>5, PlainStep

\* removeLvmLv takes the volume that is returned.
LEMMA RemoveLvKeepsVolumes ==
    ASSUME TypeInv, VolumeInv, RemoveLv
    PROVE  VolumeInv' /\ AllKept
<1>1. call \in Call /\ lib \in Storage /\ Tidy(lib) /\ call.pc = "removelv"
  BY DEF RemoveLv, TypeInv, TypeOK, VolumeInv
<1>2. call.pool \in VgNames /\ call.vol \in LvNames /\ call.op = "ReturnToStoragePool"
  BY <1>1 DEF TypeInv, Parameters, OnVolume
<1>3. call'.pc \notin Minded
  BY <1>1 DEF RemoveLv, Goto, GotoWith, Call, Minded
<1>4. CASE Commit(lib)
  BY <1>1, <1>3, <1>4, CommitIsTidy, SameAreKept DEF Commit
<1>5. CASE Commit(LvRemoved(lib, call.pool, call.vol))
  <2> DEFINE st == LvRemoved(lib, call.pool, call.vol)
  <2>1. Tidy(st) /\ \A v \in VgNames : LvsIn(lib, v) \subseteq LvsIn(st, v) \cup {call.vol}
    BY <1>1, <1>2, ReturnedVolumes
  <2> HIDE DEF st
  <2>2. Commit(st)
    BY <1>5 DEF st
  <2>3. lib' = st
    BY <2>2 DEF Commit
  <2>4. AllKept
    BY <1>2, <2>1, <2>3 DEF AllKept, VolumeKept
  <2> QED
    BY <1>3, <2>1, <2>2, <2>4, CommitIsTidy
<1> QED
  BY <1>4, <1>5 DEF RemoveLv

\* The process ends, or the handle is closed and opened again.
LEMMA ProcessKeepsVolumes ==
    ASSUME VolumeInv, Kill \/ Reinitialize
    PROVE  VolumeInv' /\ AllKept
<1>1. CASE Kill
  BY <1>1, DeathKeepsVolumes DEF Kill
<1>2. CASE Reinitialize
  <2>1. lib' = disk' /\ (disk' = lib \/ disk' = disk) /\ call'.pc = "idle"
    BY <1>2 DEF Reinitialize, Idle
  <2>2. Tidy(lib') /\ Tidy(disk') /\ call'.pc \notin Minded
    BY <2>1 DEF VolumeInv, Minded
  <2>3. AllKept
    BY <2>1, SameAreKept, RereadIsKept
  <2> QED
    BY <2>2, <2>3, PlainStep
<1> QED
  BY <1>1, <1>2

\* All the steps.
LEMMA VolumeStep ==
    ASSUME ClientRenamesFresh, ~QueriesFail, TypeInv, Named, CacheInv, CacheInv', VolumeInv, Next
    PROVE  VolumeInv' /\ AllKept
  BY EntryKeepsVolumes, PlainReadsKeepVolumes, PoolLookupKeepsVolumes, GroupsKeepVolumes,
     RenameKeepsVolumes, PoolScansKeepVolumes, DeleteKeepsVolumes, RemoveVgKeepsVolumes,
     ElementLookupKeepsVolumes, CarveKeepsVolumes, MakeLvKeepsVolumes, ResizeKeepsVolumes,
     RelabelKeepsVolumes, RemoveLvKeepsVolumes, ProcessKeepsVolumes, Zenon DEF Next, Serve

\* The storage of a new host is tidy.
LEMMA InitVolumeInv == Init => VolumeInv
<1>1. \A v \in VgNames : LvsIn(BlankStorage, v) = {}
  BY DEF LvsIn, BlankStorage, StorageOf, NoLvs
<1>2. Tidy(BlankStorage)
  BY <1>1 DEF Tidy, LvNamesUnique, Housed
<1> QED
  BY <1>2 DEF Init, VolumeInv, NoCall

\* No method takes a volume with a pool: for clients that rename volumes to
\* names used nowhere and scans whose queries succeed, a logical volume only
\* goes when it is returned, renamed or was never committed, whatever else
\* fails and whenever the process ends.
THEOREM PoolsKeepVolumes ==
    ASSUME ClientRenamesFresh, ~QueriesFail
    PROVE  Spec => VolumesSurvive
<1>1. TypeInv /\ Named /\ CacheInv /\ CacheInv' /\ VolumeInv /\ [Next]_vars => VolumeInv'
  <2>1. CASE UNCHANGED vars
    BY <2>1 DEF vars, VolumeInv, UsedNowhere
  <2> QED
    BY <2>1, VolumeStep
<1>2. TypeInv /\ Named /\ CacheInv /\ CacheInv' /\ VolumeInv /\ [Next]_vars
        => [\A v \in VgNames, l \in LvNames : VolumeKept(v, l)]_vars
  BY VolumeStep DEF AllKept
<1> QED
  BY <1>1, <1>2, InitVolumeInv, Inductive, CacheInductive, PTL DEF Spec, VolumesSurvive
=============================================================================
