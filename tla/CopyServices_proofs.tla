------------------------- MODULE CopyServices_proofs -------------------------
(***************************************************************************)
(* What CopyServices keeps for any groups, volumes and names.              *)
(***************************************************************************)
EXTENDS CopyServices, TLAPS

(***************************************************************************)
(* The inductive invariant.  What the library holds and what the disk      *)
(* holds are sound apart from each other, for a restart goes back to the   *)
(* disk; a request that is to take a snapshot names a replica of the kind  *)
(* of its source; one that has taken it has it in the library.             *)
(***************************************************************************)
Typed(L) ==
    /\ \A l \in L : l.vg \in Vgs /\ l.name \in LvNames
    /\ \A l, m \in L : l.vg = m.vg /\ l.name = m.name => l = m

SourcesThere(L) ==
    \A l \in L : l.origin # NULL =>
        \E o \in LvsOf(L, l.vg) : o.name = l.origin /\ o.size = l.size /\ ClassOf(o.name) = ClassOf(l.name)

LvsInv(L) == Typed(L) /\ SourcesThere(L)

Call == [pc : {"idle", "check", "take", "scan"}, source : LvNames \cup {NULL},
         class : Classes \cup {"StoragePool", NULL}, replica : LvNames \cup {NULL},
         copyType : {0, 4, 5}, rc : {"OK", "INVALID_PARAM", "FAILED"}]

ArrayInv == \A v \in DOMAIN array : v \in LvNames /\ array[v] \in Vgs

\* The library has a snapshot of the source in the source's group.
Taken(c) == \E l, o \in lib : /\ l.name = c.replica /\ l.origin = c.source
                              /\ o.name = c.source /\ o.vg = l.vg

CallInv ==
    /\ call \in Call
    /\ call.pc # "idle" => reply = NoReply
    /\ call.pc \in {"check", "take"} =>
          /\ call.rc = "OK" /\ {call.source, call.replica} \subseteq LvNames
          /\ ClassOf(call.replica) = ClassOf(call.source)
    /\ call.pc = "scan" /\ call.rc = "OK" /\ call.copyType = 4 => Taken(call)

CopyInv == LvsInv(lib) /\ LvsInv(disk) /\ ArrayInv /\ CallInv

-----------------------------------------------------------------------------
(***************************************************************************)
(* The volumes.                                                            *)
(***************************************************************************)
\* A snapshot by a name its group has not keeps the volumes sound.
LEMMA SnapshotKeepsLvs ==
    ASSUME NEW L, LvsInv(L), NEW vg \in Vgs, NEW replica \in LvNames, NEW o \in LvsOf(L, vg),
           ~Has(L, vg, replica), ClassOf(replica) = ClassOf(o.name)
    PROVE  LvsInv(L \cup {Lv(vg, replica, o.size, o.name)})
<1> DEFINE new == Lv(vg, replica, o.size, o.name)
<1>1. new.vg = vg /\ new.name = replica /\ new.size = o.size /\ new.origin = o.name
  BY DEF Lv
<1>2. o \in L /\ o.vg = vg
  BY DEF LvsOf
<1>3. \A l \in L : l.vg = vg => l.name # replica
  BY DEF Has, LvsOf
<1> HIDE DEF new
<1>4. Typed(L \cup {new})
  BY <1>1, <1>3 DEF LvsInv, Typed
<1>5. SourcesThere(L \cup {new})
  <2> SUFFICES ASSUME NEW l \in L \cup {new}, l.origin # NULL
               PROVE  \E q \in L \cup {new} : /\ q.vg = l.vg /\ q.name = l.origin /\ q.size = l.size
                                              /\ ClassOf(q.name) = ClassOf(l.name)
    BY DEF SourcesThere, LvsOf
  <2>1. CASE l \in L
    BY <2>1 DEF LvsInv, SourcesThere, LvsOf
  <2>2. CASE l = new
    BY <1>1, <1>2, <2>2
  <2> QED
    BY <2>1, <2>2
<1> QED
  BY <1>4, <1>5 DEF LvsInv, new

\* So does giving back a volume that no snapshot is of.
LEMMA ReturnKeepsLvs ==
    ASSUME NEW L, LvsInv(L), NEW vg, NEW v, ~HasReplicas(L, vg, v)
    PROVE  LvsInv(L \ {l \in LvsOf(L, vg) : l.name = v})
<1> DEFINE M == L \ {l \in LvsOf(L, vg) : l.name = v}
<1>1. M \subseteq L /\ \A l \in L : l \in M <=> ~(l.vg = vg /\ l.name = v)
  BY DEF LvsOf
<1>2. \A l \in L : l.vg = vg => l.origin # v
  BY DEF HasReplicas, ReplicasOf, LvsOf
<1> HIDE DEF M
<1>3. Typed(M)
  BY <1>1 DEF LvsInv, Typed
<1>4. SourcesThere(M)
  <2> SUFFICES ASSUME NEW l \in M, l.origin # NULL
               PROVE  \E q \in M : /\ q.vg = l.vg /\ q.name = l.origin /\ q.size = l.size
                                   /\ ClassOf(q.name) = ClassOf(l.name)
    BY DEF SourcesThere, LvsOf
  <2>1. PICK q \in L : /\ q.vg = l.vg /\ q.name = l.origin /\ q.size = l.size
                       /\ ClassOf(q.name) = ClassOf(l.name)
    BY <1>1 DEF LvsInv, SourcesThere, LvsOf
  <2> QED
    BY <1>1, <1>2, <2>1
<1> QED
  BY <1>3, <1>4 DEF LvsInv, M

\* What a commit leaves in the library and on the disk is sound.
LEMMA CommitKeepsLvs ==
    ASSUME NEW L, LvsInv(L), LvsInv(disk), Commit(L)
    PROVE  LvsInv(lib') /\ LvsInv(disk')
  BY DEF Commit, LvsInv, Typed, SourcesThere, LvsOf

\* The arrays after a scan name volumes and groups of the library.
LEMMA ScanResultsTyped ==
    ASSUME NEW L, Typed(L), NEW f \in ScanResults(L)
    PROVE  \A v \in DOMAIN f : v \in LvNames /\ f[v] \in Vgs /\ Has(L, f[v], v)
<1>1. PICK M \in SUBSET L :
         f \in [{l.name : l \in M} -> Vgs] /\ \A v \in DOMAIN f : Has(M, f[v], v)
  BY DEF ScanResults
<1>2. \A v, vg : Has(M, vg, v) => Has(L, vg, v)
  BY DEF Has, LvsOf
<1> QED
  BY <1>1, <1>2 DEF Typed

\* The group that get_VG_name finds is the one the array shows.
LEMMA GroupIsShown ==
    ASSUME NEW K, NEW v, NEW vg \in get_VG_name(K, v), vg \in Vgs
    PROVE  v \in DOMAIN K /\ vg = K[v]
  BY CopyAssumption DEF get_VG_name

-----------------------------------------------------------------------------
(***************************************************************************)
(* Every step keeps the invariant.                                         *)
(***************************************************************************)
LEMMA CopyInit == Init => CopyInv
<1> SUFFICES ASSUME Init
             PROVE  CopyInv
  OBVIOUS
<1>1. LvsInv(lib) /\ LvsInv(disk)
  BY CopyAssumption DEF Init, LvsInv, Typed, SourcesThere, LvNames
<1>2. ArrayInv
  BY DEF Init, ArrayInv
<1>3. CallInv
  BY DEF Init, CallInv, Call, NoCall, Classes
<1> QED
  BY <1>1, <1>2, <1>3 DEF CopyInv

LEMMA DieKeepsInv ==
    ASSUME CopyInv, NEW op, Die(op)
    PROVE  CopyInv'
<1>1. LvsInv(lib)' /\ LvsInv(disk)'
  BY DEF Die, CopyInv
<1>2. ArrayInv'
  BY DEF Die, ArrayInv
<1>3. CallInv'
  BY DEF Die, CallInv, Call, NoCall, Classes
<1> QED
  BY <1>1, <1>2, <1>3 DEF CopyInv

\* Arrays that are as they were, or fresh from a scan, are typed.
LEMMA ScannedTyped ==
    ASSUME CopyInv, NEW a \in Scanned
    PROVE  \A v \in DOMAIN a : v \in LvNames /\ a[v] \in Vgs
<1>1. Typed(lib)
  BY DEF CopyInv, LvsInv
<1> QED
  BY <1>1, ScanResultsTyped DEF Scanned, CopyInv, ArrayInv

LEMMA CreateReplicaKeepsInv ==
    ASSUME CopyInv, CreateReplica
    PROVE  CopyInv'
<1>1. LvsInv(lib)' /\ LvsInv(disk)'
  BY DEF CreateReplica, CopyInv
<1>2. ArrayInv'
  BY ScannedTyped DEF CreateReplica, ArrayInv
<1>3. PICK v \in {l.name : l \in lib}, elm \in Elements, class \in Classes \cup {"StoragePool"},
          copyType \in {4, 5} :
        /\ class \in {ClassOf(v), "StoragePool"}
        /\ \/ \E rc \in {"OK", "INVALID_PARAM"} : call' = [NoCall EXCEPT !.pc = "scan", !.rc = rc]
           \/ /\ class \in Classes
              /\ call' = [pc |-> "check", source |-> v, class |-> class, replica |-> Name(class, elm),
                          copyType |-> copyType, rc |-> "OK"]
  BY DEF CreateReplica
<1>4. v \in LvNames
  BY DEF CopyInv, LvsInv, Typed
<1>5. Name(class, elm) \in LvNames
  <2>1. Name("StoragePool", elm) = Name("StorageVolume", elm)
    BY DEF Name
  <2> QED
    BY <2>1 DEF LvNames, Classes
<1>6. class \in Classes => ClassOf(Name(class, elm)) = ClassOf(v)
  BY <1>3 DEF Name, ClassOf, Classes
<1>7. CallInv'
  <2>1. CASE \E rc \in {"OK", "INVALID_PARAM"} : call' = [NoCall EXCEPT !.pc = "scan", !.rc = rc]
    <3>1. call' \in Call /\ call'.pc = "scan" /\ call'.copyType = 0
      BY <2>1 DEF NoCall, Call
    <3> QED
      BY <3>1 DEF CreateReplica, CallInv
  <2>2. CASE /\ class \in Classes
             /\ call' = [pc |-> "check", source |-> v, class |-> class, replica |-> Name(class, elm),
                         copyType |-> copyType, rc |-> "OK"]
    BY <1>4, <1>5, <1>6, <2>2 DEF CreateReplica, CallInv, Call
  <2> QED
    BY <1>3, <2>1, <2>2
<1> QED
  BY <1>1, <1>2, <1>7 DEF CopyInv

LEMMA RefuseKeepsInv ==
    ASSUME CopyInv, Refuse
    PROVE  CopyInv'
<1>1. CASE Die("CreateReplica")
  BY <1>1, DieKeepsInv
<1>2. CASE ~Die("CreateReplica")
  <2>1. UNCHANGED <<lib, disk, array, reply>> /\ call.pc = "check"
    BY <1>2 DEF Refuse
  <2>2. call \in Call
    BY DEF CopyInv, CallInv
  <2>3. CASE call' = [call EXCEPT !.pc = "scan", !.rc = "INVALID_PARAM"]
    <3>1. call' \in Call /\ call'.pc = "scan" /\ call'.rc = "INVALID_PARAM"
      BY <2>2, <2>3 DEF Call
    <3> QED
      BY <2>1, <3>1 DEF CopyInv, CallInv, ArrayInv, NoReply
  <2>4. CASE call' = [call EXCEPT !.pc = "take"]
    <3>1. /\ call' \in Call /\ call'.pc = "take" /\ call'.rc = call.rc
          /\ call'.source = call.source /\ call'.replica = call.replica
      BY <2>2, <2>4 DEF Call
    <3>2. CallInv'
      BY <2>1, <3>1 DEF CopyInv, CallInv, NoReply
    <3> QED
      BY <2>1, <3>2 DEF CopyInv, ArrayInv
  <2> QED
    BY <1>2, <2>3, <2>4 DEF Refuse
<1> QED
  BY <1>1, <1>2

\* What TakeSnapshot can do: end the process, trace a failure, or take one.
LEMMA TakeSnapshotCases ==
    ASSUME CopyInv, TakeSnapshot
    PROVE  \/ Die("CreateReplica")
           \/ /\ Commit(lib) /\ call' = [call EXCEPT !.pc = "scan", !.rc = "FAILED"]
              /\ UNCHANGED <<array, needScan, reply>>
           \/ /\ call.source \in DOMAIN array
              /\ \E o \in LvsOf(lib, array[call.source]) :
                    /\ o.name = call.source /\ ~Has(lib, array[call.source], call.replica)
                    /\ Commit(lib \cup {Lv(array[call.source], call.replica, o.size, o.name)})
              /\ call' = [call EXCEPT !.pc = "scan"]
              /\ UNCHANGED <<array, needScan, reply>>
<1> DEFINE v == call.source
           size == get_vol_size(lib, array, v)
<1>1. PICK vg \in get_VG_name(array, v) :
          \/ vg = "died" /\ Die("CreateReplica")
          \/ /\ vg = "FAILED"
             /\ Commit(lib)
             /\ call' = [call EXCEPT !.pc = "scan", !.rc = "FAILED"]
             /\ UNCHANGED <<array, needScan, reply>>
          \/ /\ vg \in Vgs
             /\ \/ /\ CanSnapshot(lib, vg, v, call.replica, size)
                   /\ Commit(lib \cup {Lv(vg, call.replica, size, v)})
                   /\ call' = [call EXCEPT !.pc = "scan"]
                \/ /\ ~CanSnapshot(lib, vg, v, call.replica, size)
                   /\ Commit(lib)
                   /\ call' = [call EXCEPT !.pc = "scan", !.rc = "FAILED"]
             /\ UNCHANGED <<array, needScan, reply>>
          \/ /\ vg \in Vgs /\ ~CanSnapshot(lib, vg, v, call.replica, size)
             /\ Die("CreateReplica")
  BY DEF TakeSnapshot
<1>2. ASSUME vg \in Vgs, CanSnapshot(lib, vg, v, call.replica, size)
      PROVE  /\ v \in DOMAIN array /\ vg = array[v] /\ ~Has(lib, vg, call.replica)
             /\ \E o \in LvsOf(lib, vg) : o.name = v /\ size = o.size
  <2>1. v \in DOMAIN array /\ vg = array[v]
    BY <1>2, GroupIsShown
  <2>2. Has(lib, vg, v) /\ ~Has(lib, vg, call.replica)
    BY <1>2 DEF CanSnapshot
  <2>3. size = (CHOOSE l \in LvsOf(lib, vg) : l.name = v).size
    BY <2>1 DEF get_vol_size
  <2> QED
    BY <2>1, <2>2, <2>3 DEF Has
<1> HIDE DEF size
<1> QED
  BY <1>1, <1>2

LEMMA TakeSnapshotKeepsInv ==
    ASSUME CopyInv, TakeSnapshot
    PROVE  CopyInv'
<1>1. call \in Call /\ call.pc = "take"
  BY DEF CopyInv, CallInv, TakeSnapshot
<1>2. CASE Die("CreateReplica")
  BY <1>2, DieKeepsInv
<1>3. CASE /\ Commit(lib) /\ call' = [call EXCEPT !.pc = "scan", !.rc = "FAILED"]
           /\ UNCHANGED <<array, needScan, reply>>
  <2>1. LvsInv(lib)' /\ LvsInv(disk)'
    BY <1>3, CommitKeepsLvs DEF CopyInv
  <2>2. call' \in Call /\ call'.pc = "scan" /\ call'.rc = "FAILED"
    BY <1>1, <1>3 DEF Call
  <2> QED
    BY <1>1, <1>3, <2>1, <2>2 DEF CopyInv, CallInv, ArrayInv, NoReply
<1>4. CASE /\ call.source \in DOMAIN array
           /\ \E o \in LvsOf(lib, array[call.source]) :
                 /\ o.name = call.source /\ ~Has(lib, array[call.source], call.replica)
                 /\ Commit(lib \cup {Lv(array[call.source], call.replica, o.size, o.name)})
           /\ call' = [call EXCEPT !.pc = "scan"]
           /\ UNCHANGED <<array, needScan, reply>>
  <2> DEFINE vg == array[call.source]
  <2>1. PICK o \in LvsOf(lib, vg) :
           /\ o.name = call.source /\ ~Has(lib, vg, call.replica)
           /\ Commit(lib \cup {Lv(vg, call.replica, o.size, o.name)})
    BY <1>4
  <2>2. vg \in Vgs /\ call.replica \in LvNames /\ ClassOf(call.replica) = ClassOf(o.name)
    BY <1>1, <1>4, <2>1 DEF CopyInv, CallInv, ArrayInv
  <2> HIDE DEF vg
  <2>3. LvsInv(lib \cup {Lv(vg, call.replica, o.size, o.name)})
    BY <2>1, <2>2, SnapshotKeepsLvs DEF CopyInv
  <2>4. LvsInv(lib)' /\ LvsInv(disk)'
    BY <2>1, <2>3, CommitKeepsLvs DEF CopyInv
  <2>5. /\ call' \in Call /\ call'.pc = "scan"
        /\ call'.source = call.source /\ call'.replica = call.replica
    BY <1>1, <1>4 DEF Call
  <2>6. lib' = lib \cup {Lv(vg, call.replica, o.size, o.name)} /\ o \in lib /\ o.vg = vg
    BY <2>1 DEF Commit, LvsOf
  <2>7. Lv(vg, call.replica, o.size, o.name) \in lib' /\ o \in lib'
    BY <2>6
  <2>8. Taken(call)'
    BY <2>1, <2>5, <2>6, <2>7 DEF Taken, Lv
  <2>9. CallInv'
    BY <1>1, <1>4, <2>5, <2>8 DEF CopyInv, CallInv, NoReply
  <2> QED
    BY <1>4, <2>4, <2>9 DEF CopyInv, ArrayInv
<1> QED
  BY <1>2, <1>3, <1>4, TakeSnapshotCases

\* Steps that end in rest, with a library that is sound and arrays typed.
LEMMA RestingKeepsInv ==
    ASSUME CopyInv, LvsInv(lib'), LvsInv(disk'), ArrayInv', call' \in {call, NoCall}, call'.pc = "idle"
    PROVE  CopyInv'
<1>1. call' \in Call
  BY DEF CopyInv, CallInv, Call, NoCall, Classes
<1> QED
  BY <1>1 DEF CopyInv, CallInv

LEMMA ScanAndAnswerKeepsInv ==
    ASSUME CopyInv, ScanAndAnswer
    PROVE  CopyInv'
<1>1. ArrayInv'
  BY ScanResultsTyped DEF ScanAndAnswer, SCSScanStorage, CopyInv, LvsInv, ArrayInv
<1>2. call' = NoCall /\ call'.pc = "idle" /\ lib' = lib /\ disk' = disk
  BY DEF ScanAndAnswer, NoCall
<1> QED
  BY <1>1, <1>2, RestingKeepsInv DEF CopyInv

LEMMA ReturnKeepsInv ==
    ASSUME CopyInv, ReturnToStoragePool
    PROVE  CopyInv'
<1>1. PICK v \in DOMAIN array :
          /\ \/ /\ ~HasReplicas(lib, array[v], v)
                /\ Commit(lib \ {l \in LvsOf(lib, array[v]) : l.name = v})
             \/ Commit(lib)
          /\ array' \in ScanResults(lib')
  BY DEF ReturnToStoragePool
<1>2. LvsInv(lib \ {l \in LvsOf(lib, array[v]) : l.name = v}) \/ Commit(lib)
  BY <1>1, ReturnKeepsLvs DEF CopyInv
<1>3. LvsInv(lib') /\ LvsInv(disk')
  BY <1>1, <1>2, CommitKeepsLvs DEF CopyInv
<1>4. ArrayInv'
  BY <1>1, <1>3, ScanResultsTyped DEF LvsInv, ArrayInv
<1>5. call' = call /\ call.pc = "idle"
  BY DEF ReturnToStoragePool, Idle
<1> QED
  BY <1>3, <1>4, <1>5, RestingKeepsInv

\* What any answer of the copy services provider does: it ends the process,
\* or leaves the volumes and the request and may commit.
LEMMA AnswersCases ==
    ASSUME NEW answers, NEW a, Answers(answers, a)
    PROVE  \/ Die("copy")
           \/ /\ array' = a /\ reply'.op = "copy" /\ UNCHANGED call
              /\ Commit(lib) \/ UNCHANGED <<lib, disk>>
  BY DEF Answers, Answer

LEMMA AnswersKeepInv ==
    ASSUME CopyInv, Idle, NEW answers, NEW a \in Scanned \cup {array}, Answers(answers, a)
    PROVE  CopyInv'
<1>1. CASE Die("copy")
  BY <1>1, DieKeepsInv
<1>2. CASE array' = a /\ UNCHANGED call /\ (Commit(lib) \/ UNCHANGED <<lib, disk>>)
  <2>1. ArrayInv'
    BY <1>2, ScannedTyped DEF ArrayInv, CopyInv
  <2>2. LvsInv(lib') /\ LvsInv(disk')
    BY <1>2, CommitKeepsLvs DEF CopyInv
  <2> QED
    BY <1>2, <2>1, <2>2, RestingKeepsInv DEF Idle
<1> QED
  BY <1>1, <1>2, AnswersCases

LEMMA CopyStep == CopyInv /\ [Next]_vars => CopyInv'
<1> SUFFICES ASSUME CopyInv, [Next]_vars
             PROVE  CopyInv'
  OBVIOUS
<1>1. CASE CreateReplica
  BY <1>1, CreateReplicaKeepsInv
<1>2. CASE Refuse
  BY <1>2, RefuseKeepsInv
<1>3. CASE TakeSnapshot
  BY <1>3, TakeSnapshotKeepsInv
<1>4. CASE ScanAndAnswer
  BY <1>4, ScanAndAnswerKeepsInv
<1>5. CASE ReturnToStoragePool
  BY <1>5, ReturnKeepsInv
<1>6. CASE Kill
  BY <1>6, DieKeepsInv DEF Kill
<1>7. CASE Enumerate
  BY <1>7, AnswersKeepInv DEF Enumerate
<1>8. CASE GetOrDelete
  BY <1>8, AnswersKeepInv DEF GetOrDelete
<1>9. CASE Navigate
  BY <1>9, AnswersKeepInv DEF Navigate
<1>10. CASE UNCHANGED vars
  BY <1>10 DEF vars, CopyInv, LvsInv, Typed, SourcesThere, LvsOf, ArrayInv, CallInv,
               Taken
<1> QED
  BY <1>1, <1>2, <1>3, <1>4, <1>5, <1>6, <1>7, <1>8, <1>9, <1>10 DEF Next

\* The invariant holds throughout.
THEOREM CopyServicesSound == Spec => []CopyInv
  BY CopyInit, CopyStep, PTL DEF Spec

\* A replica always lies beside its source, as large and of its kind, in the
\* library and on the disk.
THEOREM ReplicasAreAlwaysOfSources == Spec => []ReplicasAreOfSources
<1>1. CopyInv => ReplicasAreOfSources
  BY DEF CopyInv, LvsInv, SourcesThere, ReplicasAreOfSources
<1> QED
  BY <1>1, CopyServicesSound, PTL

-----------------------------------------------------------------------------
(***************************************************************************)
(* Only a snapshot, a return and a restart change the library.             *)
(***************************************************************************)
LEMMA AnswersLeaveLib ==
    ASSUME NEW answers, NEW a, Answers(answers, a), lib' # lib
    PROVE  reply'.rc = "died" /\ lib' = disk
  BY DEF Answers, Commit, Die, Answer

THEOREM OnlyAnsweredRequestsChange == Spec => OnlyAnsweredChanges
<1> DEFINE Change == lib' # lib =>
               \/ call.pc = "take" /\ call'.rc = "OK"
               \/ reply'.op = "ReturnToStoragePool" /\ reply'.rc = "OK"
               \/ reply'.rc = "died" /\ lib' = disk
<1>1. ASSUME CopyInv, Next, lib' # lib
      PROVE  Change
  <2>1. ASSUME NEW op, Die(op)
        PROVE  reply'.rc = "died" /\ lib' = disk
    BY <2>1 DEF Die, Answer
  <2>2. CASE CreateReplica \/ ScanAndAnswer
    BY <1>1, <2>2 DEF CreateReplica, ScanAndAnswer
  <2>3. CASE Refuse
    BY <1>1, <2>1, <2>3 DEF Refuse
  <2>4. CASE TakeSnapshot
    <3>1. call \in Call /\ call.pc = "take" /\ call.rc = "OK"
      BY <1>1, <2>4 DEF CopyInv, CallInv, TakeSnapshot
    <3>2. ~Commit(lib)
      BY <1>1 DEF Commit
    <3>3. call' = [call EXCEPT !.pc = "scan"] => call'.rc = "OK"
      BY <3>1 DEF Call
    <3> QED
      BY <1>1, <2>1, <2>4, <3>1, <3>2, <3>3, TakeSnapshotCases
  <2>5. CASE ReturnToStoragePool
    BY <1>1, <2>5 DEF ReturnToStoragePool, Commit, Answer
  <2>6. CASE Kill
    BY <2>1, <2>6 DEF Kill
  <2>7. CASE Enumerate \/ GetOrDelete \/ Navigate
    BY <1>1, <2>7, AnswersLeaveLib DEF Enumerate, GetOrDelete, Navigate
  <2> QED
    BY <1>1, <2>2, <2>3, <2>4, <2>5, <2>6, <2>7 DEF Next
<1>2. CopyInv /\ [Next]_vars => [Change]_vars
  BY <1>1 DEF vars
<1> QED
  BY <1>2, CopyServicesSound, PTL DEF Spec, OnlyAnsweredChanges

-----------------------------------------------------------------------------
(***************************************************************************)
(* A replica that is answered is shown, when no two groups share a name.   *)
(* (Where they do, the scan shows one of the two, whichever it meets.)     *)
(***************************************************************************)
NamesDiffer(L) == \A l, m \in L : l.name = m.name => l = m

ReplicaIsFresh ==
    call.pc \in {"check", "take"} => Fresh(array, call.source, call.replica)

ShownInv == NamesDiffer(lib) /\ NamesDiffer(disk) /\ ReplicaIsFresh /\ AnsweredReplicaIsShown

LEMMA CommitKeepsNames ==
    ASSUME NEW L, NamesDiffer(L), NamesDiffer(disk), Commit(L)
    PROVE  NamesDiffer(lib') /\ NamesDiffer(disk')
  BY DEF Commit, NamesDiffer

\* Steps with which no request is at work and none has just been answered.
LEMMA RestKeepsShown ==
    ASSUME NamesDiffer(lib'), NamesDiffer(disk'), call'.pc = "idle", reply'.op # "CreateReplica"
    PROVE  ShownInv'
  BY DEF ShownInv, NamesDiffer, ReplicaIsFresh, AnsweredReplicaIsShown

LEMMA DieKeepsShown ==
    ASSUME ShownInv, NEW op \in {"CreateReplica", "killed", "copy"}, Die(op)
    PROVE  ShownInv'
<1>1. NamesDiffer(lib') /\ NamesDiffer(disk')
  BY DEF Die, ShownInv
<1>2. call'.pc = "idle" /\ reply'.rc = "died"
  BY DEF Die, NoCall, Answer
<1> QED
  BY <1>1, <1>2 DEF ShownInv, NamesDiffer, ReplicaIsFresh, AnsweredReplicaIsShown

\* A scan of a library with a snapshot and its source, the only volumes of
\* their names, shows both in their group or neither.
LEMMA ScanShowsTaken ==
    ASSUME NamesDiffer(lib), NEW c, Taken(c), NEW f \in ScanResults(lib)
    PROVE  /\ \E l \in lib : /\ l.name = c.replica /\ l.origin = c.source /\ Has(lib, l.vg, c.source)
                            /\ c.source \in DOMAIN f => f[c.source] = l.vg
           /\ c.source \in DOMAIN f => c.replica \in DOMAIN f /\ f[c.replica] = f[c.source]
<1>1. PICK l \in lib, o \in lib : /\ l.name = c.replica /\ l.origin = c.source
                                  /\ o.name = c.source /\ o.vg = l.vg
  BY DEF Taken
<1> DEFINE Seen(seen) == {m \in lib : m.vg \in seen}
<1>2. PICK seen \in SUBSET Vgs :
         /\ DOMAIN f = {x.name : x \in Seen(seen)}
         /\ \A v \in DOMAIN f : Has(Seen(seen), f[v], v)
  <2>1. PICK M \in {Seen(seen) : seen \in IF QueriesFail THEN SUBSET Vgs ELSE {Vgs}} :
           f \in {g \in [{x.name : x \in M} -> Vgs] : \A v \in DOMAIN g : Has(M, g[v], v)}
    BY DEF ScanResults
  <2>2. PICK seen \in SUBSET Vgs : M = Seen(seen)
    BY <2>1
  <2> QED
    BY <2>1, <2>2
<1>3. ASSUME NEW m \in lib, m.name \in DOMAIN f
      PROVE  f[m.name] = m.vg /\ m.vg \in seen
  <2>1. PICK n \in lib : n.vg \in seen /\ n.vg = f[m.name] /\ n.name = m.name
    BY <1>2, <1>3 DEF Has, LvsOf
  <2> QED
    BY <2>1 DEF NamesDiffer
<1>4. Has(lib, l.vg, c.source)
  BY <1>1 DEF Has, LvsOf
<1>5. ASSUME c.source \in DOMAIN f
      PROVE  f[c.source] = l.vg /\ c.replica \in DOMAIN f /\ f[c.replica] = l.vg
  <2>1. f[c.source] = l.vg /\ l.vg \in seen
    BY <1>1, <1>3, <1>5
  <2>2. c.replica \in DOMAIN f
    BY <1>1, <1>2, <2>1
  <2> QED
    BY <1>1, <1>3, <2>1, <2>2
<1> QED
  BY <1>1, <1>4, <1>5

LEMMA ShownStep == CopyInv /\ ShownInv /\ [Next]_vars => ShownInv'
<1> SUFFICES ASSUME CopyInv, ShownInv, [Next]_vars
             PROVE  ShownInv'
  OBVIOUS
<1>1. CASE CreateReplica
  <2>1. NamesDiffer(lib)' /\ NamesDiffer(disk)'
    BY <1>1 DEF CreateReplica, ShownInv
  <2>2. ReplicaIsFresh'
    <3>1. PICK v \in {l.name : l \in lib}, elm \in Elements, class \in Classes \cup {"StoragePool"},
              copyType \in {4, 5} :
             /\ Fresh(array', v, Name(class, elm))
             /\ \/ \E rc : call' = [NoCall EXCEPT !.pc = "scan", !.rc = rc]
                \/ call' = [pc |-> "check", source |-> v, class |-> class, replica |-> Name(class, elm),
                            copyType |-> copyType, rc |-> "OK"]
      BY <1>1 DEF CreateReplica
    <3>2. \/ call'.pc = "scan"
          \/ call'.source = v /\ call'.replica = Name(class, elm)
      <4>1. CASE \E rc : call' = [NoCall EXCEPT !.pc = "scan", !.rc = rc]
        BY <4>1 DEF NoCall
      <4>2. CASE call' = [pc |-> "check", source |-> v, class |-> class, replica |-> Name(class, elm),
                          copyType |-> copyType, rc |-> "OK"]
        BY <4>2
      <4> QED
        BY <3>1, <4>1, <4>2
    <3>3. lib' = lib
      BY <1>1 DEF CreateReplica
    <3> QED
      BY <3>1, <3>2, <3>3 DEF ReplicaIsFresh, Fresh
  <2>3. AnsweredReplicaIsShown'
    BY <1>1 DEF CreateReplica, AnsweredReplicaIsShown, NoReply, Answer
  <2> QED
    BY <2>1, <2>2, <2>3 DEF ShownInv
<1>2. CASE Refuse
  <2>1. CASE Die("CreateReplica")
    BY <2>1, DieKeepsShown
  <2>2. CASE ~Die("CreateReplica")
    <3>1. /\ UNCHANGED <<lib, disk, array, reply>> /\ call.pc = "check"
          /\ \/ call' = [call EXCEPT !.pc = "scan", !.rc = "INVALID_PARAM"]
             \/ call' = [call EXCEPT !.pc = "take"]
      BY <1>2, <2>2 DEF Refuse
    <3>2. call \in Call
      BY DEF CopyInv, CallInv
    <3>3. call'.source = call.source /\ call'.replica = call.replica
      BY <3>1, <3>2 DEF Call
    <3> QED
      BY <3>1, <3>3 DEF ShownInv, NamesDiffer, ReplicaIsFresh, Fresh, AnsweredReplicaIsShown, Has, LvsOf
  <2> QED
    BY <2>1, <2>2
<1>3. CASE TakeSnapshot
  <2>1. call \in Call /\ call.pc = "take" /\ reply = NoReply
    BY <1>3 DEF CopyInv, CallInv, TakeSnapshot
  <2>2. ASSUME NamesDiffer(lib'), NamesDiffer(disk'), call'.pc = "scan", reply' = NoReply
        PROVE  ShownInv'
    BY <2>2 DEF ShownInv, NamesDiffer, ReplicaIsFresh, AnsweredReplicaIsShown, NoReply, Answer
  <2>3. CASE Die("CreateReplica")
    BY <2>3, DieKeepsShown
  <2>4. CASE /\ Commit(lib) /\ call' = [call EXCEPT !.pc = "scan", !.rc = "FAILED"]
             /\ UNCHANGED <<array, needScan, reply>>
    <3>1. call'.pc = "scan"
      BY <2>1, <2>4 DEF Call
    <3> QED
      BY <2>1, <2>2, <2>4, <3>1, CommitKeepsNames DEF ShownInv
  <2>5. CASE /\ call.source \in DOMAIN array
             /\ \E o \in LvsOf(lib, array[call.source]) :
                   /\ o.name = call.source /\ ~Has(lib, array[call.source], call.replica)
                   /\ Commit(lib \cup {Lv(array[call.source], call.replica, o.size, o.name)})
             /\ call' = [call EXCEPT !.pc = "scan"]
             /\ UNCHANGED <<array, needScan, reply>>
    <3>1. PICK o \in LvsOf(lib, array[call.source]) :
             Commit(lib \cup {Lv(array[call.source], call.replica, o.size, o.name)})
      BY <2>5
    <3>2. \A l \in lib : l.name # call.replica
      BY <2>1, <2>5 DEF ShownInv, ReplicaIsFresh, Fresh, Has, LvsOf
    <3>3. NamesDiffer(lib \cup {Lv(array[call.source], call.replica, o.size, o.name)})
      BY <3>2 DEF ShownInv, NamesDiffer, Lv
    <3>4. call'.pc = "scan"
      BY <2>1, <2>5 DEF Call
    <3> QED
      BY <2>1, <2>2, <2>5, <3>1, <3>3, <3>4, CommitKeepsNames DEF ShownInv
  <2> QED
    BY <1>3, <2>3, <2>4, <2>5, TakeSnapshotCases
<1>4. CASE ScanAndAnswer
  <2>1. /\ call.pc = "scan" /\ array' \in ScanResults(lib) /\ call' = NoCall
        /\ reply' = [op |-> "CreateReplica", rc |-> call.rc, found |-> {call}]
        /\ lib' = lib /\ disk' = disk
    BY <1>4 DEF ScanAndAnswer, SCSScanStorage
  <2>2. AnsweredReplicaIsShown'
    <3> SUFFICES ASSUME call.rc = "OK", call.copyType = 4
                 PROVE  /\ \E l \in lib : /\ l.name = call.replica /\ l.origin = call.source
                                         /\ Has(lib, l.vg, call.source)
                                         /\ call.source \in DOMAIN array' => array'[call.source] = l.vg
                        /\ call.source \in DOMAIN array' => /\ call.replica \in DOMAIN array'
                                                            /\ array'[call.replica] = array'[call.source]
      BY <2>1 DEF AnsweredReplicaIsShown, Has, LvsOf
    <3>1. Taken(call)
      BY <2>1 DEF CopyInv, CallInv
    <3> QED
      BY <2>1, <3>1, ScanShowsTaken DEF ShownInv
  <2> QED
    BY <2>1, <2>2 DEF ShownInv, NamesDiffer, ReplicaIsFresh, NoCall
<1>5. CASE ReturnToStoragePool
  <2>1. \E L \in SUBSET lib : Commit(L)
    BY <1>5 DEF ReturnToStoragePool
  <2>2. NamesDiffer(lib') /\ NamesDiffer(disk')
    BY <2>1, CommitKeepsNames DEF ShownInv, NamesDiffer
  <2>3. call'.pc = "idle" /\ reply'.op # "CreateReplica"
    BY <1>5 DEF ReturnToStoragePool, Idle, Answer
  <2> QED
    BY <2>2, <2>3, RestKeepsShown
<1>6. CASE Kill
  BY <1>6, DieKeepsShown DEF Kill
<1>7. CASE Enumerate \/ GetOrDelete \/ Navigate
  <2>1. Idle /\ \E answers, a : Answers(answers, a)
    BY <1>7 DEF Enumerate, GetOrDelete, Navigate
  <2>2. CASE Die("copy")
    BY <2>2, DieKeepsShown
  <2>3. CASE reply'.op = "copy" /\ UNCHANGED call /\ (Commit(lib) \/ UNCHANGED <<lib, disk>>)
    <3>1. NamesDiffer(lib') /\ NamesDiffer(disk')
      BY <2>3, CommitKeepsNames DEF ShownInv
    <3> QED
      BY <2>1, <2>3, <3>1, RestKeepsShown DEF Idle
  <2> QED
    BY <2>1, <2>2, <2>3, AnswersCases
<1>8. CASE UNCHANGED vars
  BY <1>8 DEF vars, ShownInv, NamesDiffer, ReplicaIsFresh, Fresh, AnsweredReplicaIsShown, Has, LvsOf
<1> QED
  BY <1>1, <1>2, <1>3, <1>4, <1>5, <1>6, <1>7, <1>8 DEF Next

\* When no two groups share a volume's name, a CreateReplica that is answered
\* "completed" has made its replica, and the arrays show it with its source or
\* neither of them.
THEOREM AnsweredReplicaIsAlwaysShown ==
    ASSUME NamesDiffer(FirstLvs)
    PROVE  Spec => []AnsweredReplicaIsShown
<1>1. Init => ShownInv
  BY DEF Init, ShownInv, ReplicaIsFresh, NoCall, AnsweredReplicaIsShown, NoReply, Answer
<1>2. ShownInv => AnsweredReplicaIsShown
  BY DEF ShownInv
<1> QED
  BY <1>1, <1>2, ShownStep, CopyServicesSound, PTL DEF Spec

=============================================================================
