------------------------------ MODULE RaidPool ------------------------------
(***************************************************************************)
(* Creation of a storage pool by goal (JBOD, RAID 0, 1, 10 and 5) and its  *)
(* deletion, down to partitions and RAID devices: the size a pool          *)
(* promises, the choice of extents, their partitioning, the composition,   *)
(* the clean-up after a failure and the scan that ends the method.         *)
(* StorageConfigurationService.tla has the methods around it, with the     *)
(* devices under a group as one lump of bytes.                             *)
(***************************************************************************)
EXTENDS StorageScan

CONSTANTS
    MinVolumeSize,  \* MIN_VOLUME_SIZE
    Goals,          \* StorageSetting: [dr, pr, stripe, parity]
    Sizes,          \* sizes clients ask for; 0: as much as there is
    Garbage,        \* what an uninitialised number may hold
    LibraryFails,   \* where calls of the library may fail that could be done:
                    \* "cut", "compose", "cleanup", "remove"
    ProcessEnds,    \* the provider may be stopped at any time
    MaxRequests     \* bound: requests in a behaviour

ASSUME RaidAssumption ==
    /\ OneKB \in Nat \ {0} /\ MinVolumeSize \in Nat \ {0} /\ Garbage \in Nat
    /\ \A g \in Goals : {g.dr, g.stripe} \subseteq Nat
    /\ Sizes \subseteq Nat /\ MaxRequests \in Nat
    /\ LibraryFails \subseteq {"cut", "compose", "cleanup", "remove"} /\ ProcessEnds \in BOOLEAN

VARIABLES
    lib,        \* the layout the storage library has in memory
    disk,       \* the layout on the disks: lib at the last commit
    graph,      \* the arrays of pools, extents and volumes
    needScan,   \* SCSNeedToScan
    call,       \* the request being served, and how far it is
    reply,      \* the answer to the last request
    served      \* requests so far

vars == <<lib, disk, graph, needScan, call, reply, served>>

Idle == [pc |-> "idle", op |-> NULL, pool |-> NULL, in |-> NULL, goal |-> NULL, size |-> 0,
         plan |-> <<>>, devs |-> <<>>, mirrors |-> <<>>, rc |-> "OK"]
NoReply == [op |-> NULL, pool |-> NULL, goal |-> NULL, size |-> 0, rc |-> "none"]
Answer(rc) == [op |-> call.op, pool |-> call.pool, goal |-> call.goal, size |-> call.size, rc |-> rc]

EmptyGraph == LoadPersistentStorageObjects

-----------------------------------------------------------------------------
\* What a pool has for a goal.

PoolGoalMatchesDefault(G, p, goal) ==
    LET cap == G.pool[p].cap
    IN  goal.pr = cap.pr /\ goal.dr = cap.dr /\ goal.stripe = cap.stripe /\ goal.parity = cap.parity

\* The component extents nothing is based on, smallest first.
Rank(x) == IF \E i \in DOMAIN Disks : Disks[i] = x[2]
           THEN CHOOSE i \in DOMAIN Disks : Disks[i] = x[2] ELSE 0
Smaller(G, x, y) ==
    \/ G.ext[x].size < G.ext[y].size
    \/ G.ext[x].size = G.ext[y].size /\ Rank(x) < Rank(y)
Available(G, p) == {x \in Components(G, p) : DependentExtents(G, x) = {} /\ VolumesOn(G, x) = {}}
GetAvailableExtents(G, p) ==
    LET avail == Available(G, p)
    IN  [k \in 1..Cardinality(avail) |->
            CHOOSE x \in avail : Cardinality({y \in avail \ {x} : Smaller(G, y, x)}) = k - 1]

\* GetSupportedSizeRange sets the size to zero when it is below the least.
AtLeastMin(n) == IF n >= MinVolumeSize THEN n ELSE 0

\* The largest size pool p can give for a goal.  Without the extents for a
\* RAID goal the variable keeps what it held.
GetSupportedSizeRange(G, p, goal, unset) ==
    LET avail  == GetAvailableExtents(G, p)
        needed == goal.dr * goal.stripe
        rows   == IF goal.parity = 2 THEN goal.stripe - 1 ELSE goal.stripe
    IN  AtLeastMin(IF p # Primordial
                   THEN IF PoolGoalMatchesDefault(G, p, goal) THEN G.pool[p].remaining ELSE 0
                   ELSE IF IsJBOD(goal) \/ PoolGoalMatchesDefault(G, p, goal)
                   THEN G.pool[p].remaining
                   ELSE IF Len(avail) < needed THEN unset
                   ELSE rows * G.ext[avail[Len(avail) - needed + 1]].size)

\* The first pool whose default is the goal and that has the size, else the
\* first JBOD pool that has.  The primordial pool comes first in the array,
\* the concrete ones in any order.
Suiting(G, goal, size, unset) ==
    LET enough == {p \in DOMAIN G.pool : LET most == GetSupportedSizeRange(G, p, goal, unset)
                                         IN  most >= size /\ most >= MinVolumeSize}
        exact  == {p \in enough : PoolGoalMatchesDefault(G, p, goal)}
    IN  IF exact # {} THEN exact ELSE {p \in enough : IsJBOD(G.pool[p].cap)}
PoolsFindByGoal(G, goal, size, unset) ==
    LET found == Suiting(G, goal, size, unset)
    IN  IF Primordial \in found THEN {Primordial} ELSE found

-----------------------------------------------------------------------------
\* The choice of extents: what is cut from which, in the order of the code.

\* The smallest extent that is large enough, or the largest ones until the
\* size is reached.
MutantShortJBODExtents(G, avail, size) ==
    LET bytes(i) == G.ext[avail[i]].size
        above(i) == MapThenSumSet(bytes, (i + 1)..Len(avail))
        taken == {i \in DOMAIN avail : i = Len(avail) \/ above(i) + bytes(i) <= size}
        cut(i) == [from |-> avail[i], bytes |-> Min({bytes(i), size - above(i)})]
    IN  Reverse([k \in 1..Cardinality(taken) |-> cut(Len(avail) - Cardinality(taken) + k)])

MutantLargeJBODExtents(G, avail, size) ==
    LET bytes(i) == G.ext[avail[i]].size
        above(i) == MapThenSumSet(bytes, (i + 1)..Len(avail))
        taken == {i \in DOMAIN avail : above(i) < size}
        cut(i) == [from |-> avail[i], bytes |-> size - above(i)]
    IN  Reverse([k \in 1..Cardinality(taken) |-> cut(Len(avail) - Cardinality(taken) + k)])

SelectJBODExtents(G, avail, size) ==
    LET bytes(i) == G.ext[avail[i]].size
        single == {i \in DOMAIN avail : bytes(i) >= size}
        above(i) == MapThenSumSet(bytes, (i + 1)..Len(avail))
        taken == {i \in DOMAIN avail : above(i) < size}
        cut(i) == [from |-> avail[i], bytes |-> Min({bytes(i), size - above(i)})]
    IN  IF single # {} THEN <<[from |-> avail[Min(single)], bytes |-> size]>>
        ELSE Reverse([k \in 1..Cardinality(taken) |-> cut(Len(avail) - Cardinality(taken) + k)])

\* The smallest extents that have the size each must have: the sequences of
\* num of them, or of all when there are fewer, that leave out no smaller one.
MutantSelectRAIDExtents(G, p, num, size) ==
    LET fit == {x \in Available(G, p) : G.ext[x].size >= size}
    IN  IF fit = {} THEN {<<>>} ELSE {[k \in 1..num |-> [from |-> x, bytes |-> size]] : x \in fit}

SelectRAIDExtents(G, p, num, size) ==
    LET fit == {x \in Available(G, p) : G.ext[x].size >= size}
        chosen == {xs \in Injection(1..Min({num, Cardinality(fit)}), fit) :
                     \A k \in DOMAIN xs : {x \in fit : Smaller(G, x, xs[k])} = {xs[j] : j \in 1..k - 1}}
    IN  {[k \in DOMAIN xs |-> [from |-> xs[k], bytes |-> size]] : xs \in chosen}

\* What the method does for a goal: "JBOD" also for the default of the pool.
Kind(G, p, goal) ==
    IF PoolGoalMatchesDefault(G, p, goal) THEN "JBOD" ELSE
    CASE IsRAID0(goal)  -> "RAID0"
      [] IsRAID1(goal)  -> "RAID1"
      [] IsRAID10(goal) -> "RAID10"
      [] IsRAID5(goal)  -> "RAID5"
      [] OTHER -> "none"

\* The extents to be cut for a goal: there is one choice, or none.
Plans(G, p, goal, size) ==
    LET kind == Kind(G, p, goal)
    IN  CASE kind = "JBOD"  -> {SelectJBODExtents(G, GetAvailableExtents(G, p), size)}
          [] kind = "RAID0" -> SelectRAIDExtents(G, p, goal.stripe, size \div goal.stripe)
          [] kind = "RAID1" -> SelectRAIDExtents(G, p, goal.dr, size)
          [] kind = "RAID10" -> SelectRAIDExtents(G, p, goal.dr * goal.stripe, size \div goal.stripe)
          [] kind = "RAID5" -> SelectRAIDExtents(G, p, goal.stripe, size \div (goal.stripe - 1))
          [] OTHER -> {<<>>}

-----------------------------------------------------------------------------
Supported(goal) == IsJBOD(goal) \/ IsRAID0(goal) \/ IsRAID1(goal) \/ IsRAID10(goal) \/ IsRAID5(goal)

Init ==
    /\ lib = BlankLayout /\ disk = BlankLayout
    /\ graph = EmptyGraph /\ needScan = TRUE
    /\ call = Idle /\ reply = NoReply /\ served = 0

Fails(where) == where \in LibraryFails

Commit(L) == lib' = L /\ disk' = L
Staged(L) == lib' = L /\ UNCHANGED disk

\* The process ends: what was not committed and the arrays are lost.
Ends(how) ==
    /\ lib' = disk /\ disk' = disk
    /\ graph' = EmptyGraph /\ needScan' = TRUE
    /\ call' = Idle
    /\ reply' = [NoReply EXCEPT !.rc = how]

Stopped == ProcessEnds /\ Ends("stopped")

\* A request arrives.  Modification of a pool is not here: the name is free.
RequestCreate ==
    /\ call.pc = "idle"
    /\ \E v \in VgNames \ VgsOf(lib), goal \in Goals, size \in Sizes, in \in {Primordial, NULL} \cup VgsOf(lib) :
           call' = [Idle EXCEPT !.pc = IF needScan THEN "enter" ELSE "create", !.op = "create",
                                !.pool = v, !.in = in, !.goal = goal, !.size = size]
    /\ reply' = NoReply
    /\ UNCHANGED <<lib, disk, graph, needScan>>

RequestDelete ==
    /\ call.pc = "idle"
    /\ \E v \in VgsOf(lib) :
           call' = [Idle EXCEPT !.pc = IF needScan THEN "enter" ELSE "delete", !.op = "delete", !.pool = v]
    /\ reply' = NoReply
    /\ UNCHANGED <<lib, disk, graph, needScan>>

\* A volume is made in a pool, which ends with a scan: only the use of the
\* pool matters here.
UsePool ==
    /\ call.pc = "idle"
    /\ \E v \in VgsOf(lib), l \in LvNames :
           /\ LvsIn(lib, v) = {} /\ PeFree(lib, v) >= OneKB
           /\ \E L \in {LvCreated(lib, v, l, OneKB)} : \E G \in {SCSScanStorage(L)} :
                 /\ Commit(L)
                 /\ graph' = IF G.defined THEN G ELSE EmptyGraph
                 /\ needScan' = ~G.defined
                 /\ reply' = IF G.defined THEN NoReply ELSE [NoReply EXCEPT !.rc = "died"]
    /\ UNCHANGED call

ScanStorage(then) ==
    \E G \in {SCSScanStorage(lib)} :
        IF G.defined
        THEN graph' = G /\ needScan' = FALSE /\ then /\ UNCHANGED <<lib, disk>>
        ELSE Ends("died")

Enter ==
    /\ call.pc = "enter"
    /\ ScanStorage(call' = [call EXCEPT !.pc = call.op] /\ UNCHANGED reply)

\* The exit of both methods.
ScanAndAnswer ==
    /\ call.pc = "scan"
    /\ ScanStorage(call' = Idle /\ reply' = Answer(call.rc))

\* The mutant tries again what has failed.
MutantExit(rc) == [call EXCEPT !.pc = IF rc = "OK" THEN "scan" ELSE "enter", !.rc = rc]
Exit(rc) == [call EXCEPT !.pc = "scan", !.rc = rc]

\* CreateOrModifyStoragePool up to the choice of extents.
RefuseGoalOrSize ==
    /\ call.pc = "create"
    /\ \/ ~Supported(call.goal) /\ reply' = Answer("INVALID_PARAM")
       \/ /\ Supported(call.goal) /\ call.size \in 1..(MinVolumeSize - 1)
          /\ reply' = Answer("SIZE_NOT_SUPPORTED")
    /\ call' = Idle
    /\ UNCHANGED <<lib, disk, graph, needScan>>

\* The plan is made, in pool p, for n bytes.
Selected(p, n) ==
    \E plan \in Plans(graph, p, call.goal, n) :
        call' = [call EXCEPT !.pc = "cut", !.in = p, !.size = n, !.plan = plan]

ChooseExtents ==
    /\ call.pc = "create" /\ Supported(call.goal)
    /\ call.size \notin 1..(MinVolumeSize - 1)
    /\ \E unset \in {0, Garbage} :
           LET most(p) == GetSupportedSizeRange(graph, p, call.goal, unset)
               wanted(p) == IF call.size = 0 THEN most(p) ELSE call.size
               found == IF call.in = NULL THEN PoolsFindByGoal(graph, call.goal, call.size, unset)
                        ELSE {p \in {call.in} : most(p) >= call.size /\ most(p) # 0}
           IN  IF found = {} THEN call' = Exit("SIZE_NOT_SUPPORTED")
               ELSE \E p \in found : Selected(p, wanted(p))
    /\ UNCHANGED <<lib, disk, graph, needScan, reply>>

Cut(dev) == [call EXCEPT !.plan = Tail(@), !.devs = Append(@, dev)]

\* ExtentPartition: the new partition starts behind as many bytes as the
\* partitions of the disk have.  When it fails the extent itself is used.
Offset(L, d) == MapThenSumSet(LAMBDA p : p.size, PartsOn(L, d))
KBytes(n) == (n \div OneKB) * OneKB
MutantCanCut(L, cut) == cut.from[2] \in ToSet(Disks)
CanCut(L, cut) ==
    /\ cut.from[2] \in ToSet(Disks)
    /\ PartitionFits(L, cut.from[2], Offset(L, cut.from[2]), KBytes(cut.bytes))

ExtentPartition ==
    /\ call.pc = "cut" /\ call.plan # <<>>
    /\ LET cut == Head(call.plan)
           d   == cut.from[2]
           L   == PartitionCreated(lib, d, Offset(lib, d), KBytes(cut.bytes))
       IN  \/ /\ CanCut(lib, cut)
              /\ Commit(L)
              /\ call' = Cut(<<"part", d, NewNum(lib, d)>>)
           \/ /\ ~CanCut(lib, cut) \/ Fails("cut")
              /\ call' = Cut(cut.from)
              /\ UNCHANGED <<lib, disk>>
    /\ UNCHANGED <<graph, needScan, reply>>

AllCut(kind) == call.pc = "cut" /\ call.plan = <<>> /\ Kind(graph, call.in, call.goal) = kind

\* createLvmVg, and a RAID device with a group on it: a set of [lib, rc].  That
\* the group was not made is traced as if the number were a string, of which
\* the process may die before the commit.
Grouped(L, v, xs) ==
    {r \in {[lib |-> VgCreated(L, v, xs), rc |-> "OK"]} : CanCreateVg(L, v, xs)}
    \cup {r \in {[lib |-> L, rc |-> "FAILED"], [lib |-> L, rc |-> "died"]} :
            ~CanCreateVg(L, v, xs) \/ Fails("compose")}

\* changeMdChunk and changeMdParity can fail when the device is made.
Composed(L, level, xs, v) ==
    LET made == MdCreated(L, level, xs)
    IN  IF ~CanCreateMd(L, level, xs) THEN {[lib |-> L, rc |-> "FAILED"]}
        ELSE Grouped(made, v, <<Md(NewMd(L))>>)
             \cup {r \in {[lib |-> L, rc |-> "FAILED"], [lib |-> made, rc |-> "FAILED"]} : Fails("compose")}

\* The composition commits, whatever became of it, unless the process died.
Composition(results, then(_)) ==
    \E r \in results :
        \/ r.rc = "died" /\ Ends("died")
        \/ r.rc # "died" /\ Commit(r.lib) /\ call' = then(r.rc) /\ UNCHANGED <<graph, needScan, reply>>
Finish(results) == Composition(results, Exit)

CreateJBODComposition ==
    AllCut("JBOD") /\ Finish(Grouped(lib, call.pool, Reverse(call.devs)))

CreateRAID0Composition ==
    AllCut("RAID0") /\ Finish(Composed(lib, 0, call.devs, call.pool))

CreateRAID1Composition ==
    AllCut("RAID1") /\ Finish(Composed(lib, 1, call.devs, call.pool))

CreateRAID5Composition ==
    AllCut("RAID5") /\ Finish(Composed(lib, 5, call.devs, call.pool))

\* A goal the size was granted for and no branch is for.
NoBranch ==
    /\ AllCut("none")
    /\ call' = Exit("INVALID_PARAM")
    /\ UNCHANGED <<lib, disk, graph, needScan, reply>>

\* CreateRAID10Composition makes one mirror at a time, and commits it.  With
\* too few extents it reads behind the array.
Mirror(i) == SubSeq(call.devs, (i - 1) * call.goal.dr + 1, i * call.goal.dr)
MirrorsDone == Len(call.mirrors) = call.goal.stripe
CleanUp == [call EXCEPT !.pc = "cleanup"]

CreateMirror ==
    /\ AllCut("RAID10") /\ ~MirrorsDone
    /\ LET i  == Len(call.mirrors) + 1
           ok == CanCreateMd(lib, 1, Mirror(i))
       IN  IF Len(call.devs) < i * call.goal.dr THEN Ends("died")
           ELSE /\ \/ /\ ok /\ Commit(MdCreated(lib, 1, Mirror(i)))
                      /\ call' = [call EXCEPT !.mirrors = Append(@, NewMd(lib))]
                   \/ /\ ~ok \/ Fails("compose")
                      /\ call' = CleanUp
                      /\ UNCHANGED <<lib, disk>>
                /\ UNCHANGED <<graph, needScan, reply>>

CreateStripe ==
    /\ AllCut("RAID10") /\ MirrorsDone
    /\ Composition(Composed(lib, 0, [i \in DOMAIN call.mirrors |-> Md(call.mirrors[i])], call.pool),
                   LAMBDA rc : IF rc = "OK" THEN Exit("OK") ELSE [CleanUp EXCEPT !.devs = <<>>])

\* exitErrorCleanup removes the mirrors it finds in an array of which only the
\* entries of the mirrors made were written: unless all were, which is when no
\* devices are kept, it comes to entries that hold anything.
DeleteRAID1Composition ==
    /\ call.pc = "cleanup"
    /\ \/ /\ call.mirrors # <<>>
          /\ LET n == Head(call.mirrors)
             IN  \/ CanRemoveMd(lib, n) /\ Commit(MdRemoved(lib, n))
                 \/ (~CanRemoveMd(lib, n) \/ Fails("cleanup")) /\ UNCHANGED <<lib, disk>>
          /\ call' = [call EXCEPT !.mirrors = Tail(@)]
          /\ UNCHANGED <<graph, needScan, reply>>
       \/ /\ call.mirrors = <<>>
          /\ call' = Exit("FAILED")
          /\ UNCHANGED <<lib, disk, graph, needScan, reply>>
       \/ call.mirrors = <<>> /\ call.devs # <<>> /\ Ends("died")

-----------------------------------------------------------------------------
\* DeleteStoragePool: the calls of the library, read off the graph.
CompositeOf(G, v) == CHOOSE x \in Components(G, v) : ~ExtentIsFreespace(x)
Below(G, x) == [i \in 1..Cardinality(Antecedents(G, x)) |->
                   (CHOOSE b \in Antecedents(G, x) : b.order = i).ant]

RemoveMd(x) == IF IsMd(x) THEN <<x>> ELSE <<>>
Unpartition(G, x) == IF ~G.ext[x].composite /\ G.ext[x].pool = NULL THEN <<x>> ELSE <<>>
Each(G, x, op(_)) == FlattenSeq([i \in DOMAIN Below(G, x) |-> op(Below(G, x)[i])])

MutantRemovals(G, v) ==
    LET comp == CompositeOf(G, v)
    IN  RemoveMd(comp) \o Each(G, comp, LAMBDA x : IF G.ext[x].composite THEN RemoveMd(x)
                                                 ELSE Unpartition(G, x))

Removals(G, v) ==
    LET comp == CompositeOf(G, v)
        lower(x) == RemoveMd(x) \o Each(G, x, LAMBDA y : Unpartition(G, y))
        under(x) == RemoveMd(x) \o Each(G, x, LAMBDA y : IF G.ext[y].composite THEN lower(y)
                                                       ELSE Unpartition(G, y))
    IN  RemoveMd(comp) \o Each(G, comp, LAMBDA x : IF G.ext[x].composite THEN under(x)
                                                 ELSE Unpartition(G, x))

RefuseUsedPool ==
    /\ call.pc = "delete"
    /\ \E l \in DOMAIN graph.vol : graph.vol[l].pool = call.pool
    /\ call' = Idle /\ reply' = Answer("IN_USE")
    /\ UNCHANGED <<lib, disk, graph, needScan>>

RemoveGroup ==
    /\ call.pc = "delete"
    /\ \A l \in DOMAIN graph.vol : graph.vol[l].pool # call.pool
    /\ \E ok \in {TRUE} \cup {b \in {FALSE} : Fails("remove")} :
           /\ Staged(IF ok THEN VgRemoved(lib, call.pool) ELSE lib)
           /\ call' = [call EXCEPT !.pc = "remove", !.plan = Removals(graph, call.pool),
                                   !.rc = IF ok THEN "OK" ELSE "FAILED"]
    /\ UNCHANGED <<graph, needScan, reply>>

\* removeMd, whose error is the answer, and ExtentUnpartition, which commits.
RemoveNext ==
    /\ call.pc = "remove" /\ call.plan # <<>>
    /\ LET x == Head(call.plan)
           next(rc) == call' = [call EXCEPT !.plan = Tail(@), !.rc = rc]
       IN  \/ IsMd(x) /\ CanRemoveMd(lib, x[3]) /\ Staged(MdRemoved(lib, x[3])) /\ next("OK")
           \/ /\ IsMd(x) /\ (~CanRemoveMd(lib, x[3]) \/ Fails("remove"))
              /\ Staged(lib) /\ next("FAILED")
           \/ ~IsMd(x) /\ CanRemovePartition(lib, x) /\ Commit(PartitionRemoved(lib, x)) /\ next(call.rc)
           \/ /\ ~IsMd(x) /\ (~CanRemovePartition(lib, x) \/ Fails("remove"))
              /\ Commit(lib) /\ next(call.rc)
    /\ UNCHANGED <<graph, needScan, reply>>

Removed ==
    /\ call.pc = "remove" /\ call.plan = <<>>
    /\ Commit(lib)
    /\ call' = Exit(call.rc)
    /\ UNCHANGED <<graph, needScan, reply>>

-----------------------------------------------------------------------------
Step ==
    \/ Enter \/ RefuseGoalOrSize \/ ChooseExtents \/ ExtentPartition
    \/ CreateJBODComposition \/ CreateRAID0Composition \/ CreateRAID1Composition
    \/ CreateRAID5Composition \/ NoBranch \/ CreateMirror \/ CreateStripe
    \/ DeleteRAID1Composition
    \/ RefuseUsedPool \/ RemoveGroup \/ RemoveNext \/ Removed
    \/ ScanAndAnswer

Request == RequestCreate \/ RequestDelete \/ UsePool

\* The bound is reached: a state to rest in, so that any other is a deadlock.
Over == served = MaxRequests /\ call.pc = "idle" /\ UNCHANGED vars

Next ==
    \/ served < MaxRequests /\ served' = served + 1 /\ Request
    \/ (Step \/ Stopped) /\ UNCHANGED served
    \/ Over

\* A call that is being served goes on: weak fairness of Step, which is enabled
\* exactly while call.pc # "idle", and whose steps are those that are no
\* request.  (WF_vars(Step) would have TLC evaluate the scan inside ENABLED.)
Fairness == []<>(call.pc = "idle") \/ []<><<served' = served>>_vars

Spec == Init /\ [][Next]_vars /\ Fairness

-----------------------------------------------------------------------------
(***************************************************************************)
(* Properties                                                              *)
(***************************************************************************)
Fresh == call.pc = "idle" /\ ~needScan

\* The types of the variables, and the layouts the scan is right for.
TypeOK ==
    /\ \A L \in {lib, disk} :
          /\ LayoutOK(L)
          /\ \A p \in L.part : p.disk \in ToSet(Disks) /\ p.start + p.size <= DiskSize
          /\ \A p, q \in L.part : p.disk = q.disk /\ Overlap(p, q.start, q.size) => p = q
    /\ needScan \in BOOLEAN /\ graph.defined
    /\ call.pc \in {"idle", "enter", "create", "delete", "cut", "cleanup", "remove", "scan"}
    /\ served \in 0..MaxRequests

\* The disks a device lies on.
DisksUnder(L, x) ==
    LET members(y) == ToSet(L.md[y[3]].devs)
        of(y) == IF IsMd(y) THEN {z[2] : z \in {w \in members(y) : ~IsMd(w)}}
                                \cup UNION {{z[2] : z \in members(w)} : w \in {w \in members(y) : IsMd(w)}}
                 ELSE {y[2]}
    IN  of(x)

\* Redundancy is real: no disk is under two members of one RAID device, so
\* that the loss of a disk is the loss of one member.  (SelectRAIDExtents
\* takes each extent once, and a disk has one extent that is available.)
RedundancyIsReal ==
    \A n \in MdsOf(disk) : \A i, j \in DOMAIN disk.md[n].devs :
        DisksUnder(disk, disk.md[n].devs[i]) \cap DisksUnder(disk, disk.md[n].devs[j]) # {} => i = j

FreeBytes(G) == MapThenSumSet(LAMBDA x : G.ext[x].size,
                              {x \in Components(G, Primordial) : ExtentIsFreespace(x)})
Consumed(G) == MapThenSumSet(LAMBDA a : a.space, {a \in G.alloc : a.ant = Primordial})
UnusedMds(L) == {n \in MdsOf(L) : ~InUse(L, Md(n))}

\* The three accounts of the space agree after a scan, RAID or not: what the
\* primordial pool has left is what its free extents add up to, and the rest
\* is in partitions no one uses or allocated to a pool.  (Each Process...Region
\* subtracts from the pool on its own, ProcessPartition from the extent.)
SpaceIsAccountedFor ==
    Fresh /\ UnusedMds(lib) = {} =>
        /\ graph.pool[Primordial].remaining = FreeBytes(graph)
        /\ graph.pool[Primordial].total
             = FreeBytes(graph) + Consumed(graph)
               + MapThenSumSet(LAMBDA p : p.size, {p \in lib.part : ~InUse(lib, Part(p))})

\* A pool created for a goal is one: the scan, which sees devices only, gives
\* it the capability that was asked for and the size, but for what rounding
\* to kilobytes takes from each device.  (Not while a RAID device is left over
\* from a failure: its space was promised although it is taken.)
PoolIsAsAsked ==
    Fresh /\ reply.op = "create" /\ reply.rc = "OK" /\ UnusedMds(lib) = {} =>
        /\ reply.pool \in DOMAIN graph.pool
        /\ \E p \in {reply.pool} :
              /\ PoolGoalMatchesDefault(graph, p, reply.goal)
              /\ (graph.pool[p].total + Len(Disks)) * OneKB >= reply.size

Packed(L, d) == \A p \in PartsOn(L, d) : p.start + p.size <= Offset(L, d)

\* An extent of the plan can be cut from its disk, when the partitions of the
\* disk lie at its start: what was promised from the arrays is on the disk.
GrantedExtentsCanBeCut ==
    call.pc = "cut" =>
        \A i \in DOMAIN call.plan :
            LET cut == call.plan[i]
            IN  cut.from[2] \in ToSet(Disks) /\ Packed(lib, cut.from[2]) /\ cut.bytes >= OneKB
                    => CanCut(lib, cut)

\* The devices a pool is made of, disks excepted.
BeneathPool(G, v) ==
    LET beneath[x \in DOMAIN G.ext] ==
            IF G.ext[x].pool = Primordial THEN {}
            ELSE {x} \cup UNION {beneath[b.ant] : b \in Antecedents(G, x)}
    IN  beneath[CompositeOf(G, v)] \ {Composite(v)}

\* A deletion that ends well leaves nothing of the pool on the disks: group,
\* RAID devices of two levels and partitions.
DeletionIsComplete ==
    call.op = "delete" /\ call.pc = "scan" /\ call.rc = "OK" =>
        /\ call.pool \notin VgsOf(disk)
        /\ \A x \in BeneathPool(graph, call.pool) : ~DeviceExists(disk, x)

\* Every call comes to its end, or the process does.
EveryCallReturns == call.pc # "idle" ~> call.pc = "idle"

\* "At this point we know we can do the pool create as requested": a creation
\* in the primordial pool whose size was granted does not fail.
GrantedIsCreated ==
    ~(call.op = "create" /\ call.in = Primordial /\ call.pc = "scan" /\ call.rc = "FAILED")

\* "Delete any RAID 1 compositions we may have done": after a failed creation
\* of a stripe over mirrors no device is left.
FailureLeavesNoMirrors ==
    reply.op = "create" /\ reply.rc = "FAILED" /\ IsRAID10(reply.goal) => MdsOf(disk) = {}
=============================================================================
