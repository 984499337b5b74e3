-------------------------- MODULE RaidPool_proofs --------------------------
(***************************************************************************)
(* Proofs about RaidPool: the layout of the disks stays one the scan is    *)
(* right for, and no disk is under two members of one RAID device,         *)
(* whatever fails and whenever the provider is stopped.  A deletion that   *)
(* ends well is complete, and every extent that was granted can be cut.    *)
(***************************************************************************)
EXTENDS RaidPool, StorageScan_proofs

-----------------------------------------------------------------------------
(***************************************************************************)
(* The inductive invariant                                                 *)
(***************************************************************************)

\* A member of a RAID device that is a RAID device itself is a mirror, and it
\* is in a stripe.
MemberOK(L, level, x) ==
    IsMd(x) => level = 0 /\ \E m \in MdsOf(L) : x = Md(m) /\ L.md[m].level = 1
MembersOK(L) ==
    \A n \in MdsOf(L) : /\ L.md[n].level \in {0, 1, 5}
                        /\ \A x \in ToSet(L.md[n].devs) : MemberOK(L, L.md[n].level, x)

\* Devices of which no two have a disk in common.
Apart(L, xs) == \A i, j \in DOMAIN xs : DisksUnder(L, xs[i]) \cap DisksUnder(L, xs[j]) # {} => i = j
Redundant(L) == \A n \in MdsOf(L) : Apart(L, L.md[n].devs)

PartsOK(L) ==
    /\ IsFiniteSet(L.part)
    /\ \A p \in L.part : p.disk \in ToSet(Disks) /\ p.start + p.size <= DiskSize
    /\ \A p, q \in L.part : p.disk = q.disk /\ Overlap(p, q.start, q.size) => p = q

IsSeq(s) == s \in Seq(ToSet(s))

\* Every group has its devices in a sequence.
GroupsOK(L) ==
    /\ DOMAIN L.vg = VgNames
    /\ \A v \in VgNames : DOMAIN L.vg[v] = {"devs", "lvs"} /\ IsSeq(L.vg[v].devs)

LayoutInv(L) ==
    /\ DOMAIN L = {"part", "md", "vg"} /\ DOMAIN L.md = MdNums
    /\ MembersOK(L) /\ Redundant(L) /\ PartsOK(L) /\ GroupsOK(L)

\* What is free in the primordial pool after a scan.
GraphInv ==
    ~needScan => /\ IsGraph(graph)
                 /\ \A x \in DOMAIN graph.ext : graph.ext[x].pool = Primordial /\ ~Based(graph, x) =>
                        \E d \in ToSet(Disks) : x = Freespace(d)

\* A creation of a RAID device: what is cut and what is still to be cut are
\* partitions and free space of disks that all differ, and the mirrors made
\* so far are one slice of the devices each.
RaidCall ==
    LET plan == call.plan
        devs == call.devs
        made == call.mirrors
    IN  /\ IsSeq(plan) /\ IsSeq(made)
        /\ \A i \in DOMAIN plan : ~IsMd(plan[i].from)
        /\ \A i \in DOMAIN devs : ~IsMd(devs[i])
        /\ \A i, j \in DOMAIN plan : plan[i].from[2] = plan[j].from[2] => i = j
        /\ \A i, j \in DOMAIN devs : devs[i][2] = devs[j][2] => i = j
        /\ \A i \in DOMAIN devs, j \in DOMAIN plan : devs[i][2] # plan[j].from[2]
        /\ made # <<>> => plan = <<>>
        /\ \A i \in DOMAIN made :
              /\ made[i] \in MdsOf(lib) /\ lib.md[made[i]].level = 1
              /\ lib.md[made[i]].devs = Mirror(i) /\ i * call.goal.dr <= Len(devs)

CallInv ==
    /\ DOMAIN call = DOMAIN Idle
    /\ call.pc = "enter" => call.op \in {"create", "delete"}
    /\ call.pc \notin {"idle", "enter"} => ~needScan
    /\ call.pc \in {"create", "cut"} \/ (call.pc = "enter" /\ call.op = "create") => call.goal \in Goals
    /\ call.pc \in {"enter", "create"} => call.devs = <<>> /\ call.mirrors = <<>>
    /\ call.pc = "cut" => IsSeq(call.devs)
    /\ call.pc = "cut" /\ Kind(graph, call.in, call.goal) \notin {"JBOD", "none"} => RaidCall

RaidInv ==
    /\ TypeOK /\ LayoutInv(lib) /\ LayoutInv(disk) /\ GraphInv /\ CallInv

-----------------------------------------------------------------------------
(***************************************************************************)
(* Layouts                                                                 *)
(***************************************************************************)

\* The number createMdAny takes is free.
LEMMA NewMdIsNew ==
    ASSUME NEW L, MdNums \ MdsOf(L) # {}
    PROVE  NewMd(L) \in MdNums /\ NewMd(L) \notin MdsOf(L)
<1> DEFINE T == MdNums \ MdsOf(L)
<1>1. T \in SUBSET Nat
  BY DiskAssumption
<1>2. \E n \in T : \A m \in T : n <= m
  <2> HIDE DEF T
  <2> QED
    BY <1>1, LeastNumber DEF T
<1>3. Min(T) \in T
  <2> HIDE DEF T
  <2> QED
    BY <1>2 DEF Min
<1> QED
  BY <1>3 DEF NewMd

\* The disks under a device that is no RAID device, and under a mirror.
LEMMA DisksUnderPlain ==
    ASSUME NEW L, NEW x, ~IsMd(x)
    PROVE  DisksUnder(L, x) = {x[2]}
  BY DEF DisksUnder

LEMMA DisksUnderMirror ==
    ASSUME NEW L, NEW n, \A x \in ToSet(L.md[n].devs) : ~IsMd(x)
    PROVE  DisksUnder(L, Md(n)) = {x[2] : x \in ToSet(L.md[n].devs)}
<1> DEFINE S == ToSet(L.md[n].devs)
<1>1. IsMd(Md(n)) /\ Md(n)[3] = n
  BY DEF IsMd, Md
<1>2. {w \in S : ~IsMd(w)} = S /\ {w \in S : IsMd(w)} = {}
  OBVIOUS
<1>3. DisksUnder(L, Md(n)) = {x[2] : x \in {w \in S : ~IsMd(w)}}
                             \cup UNION {{z[2] : z \in ToSet(L.md[w[3]].devs)} : w \in {w \in S : IsMd(w)}}
  BY <1>1 DEF DisksUnder
<1> HIDE DEF S
<1> QED
  BY <1>2, <1>3 DEF S

LEMMA MirrorHoldsPlain ==
    ASSUME NEW L, MembersOK(L), NEW n \in MdsOf(L), L.md[n].level = 1
    PROVE  \A x \in ToSet(L.md[n].devs) : ~IsMd(x)
  BY DEF MembersOK, MemberOK

\* A device has the same disks under it in another layout that keeps the
\* mirrors.
LEMMA SameDisksUnder ==
    ASSUME NEW L, MembersOK(L), NEW M, NEW level, NEW x, MemberOK(L, level, x),
           \A m \in MdsOf(L) : x = Md(m) => M.md[m] = L.md[m]
    PROVE  DisksUnder(M, x) = DisksUnder(L, x)
<1>1. CASE ~IsMd(x)
  BY <1>1, DisksUnderPlain
<1>2. CASE IsMd(x)
  <2>1. PICK m \in MdsOf(L) : x = Md(m) /\ L.md[m].level = 1
    BY <1>2 DEF MemberOK
  <2>2. \A z \in ToSet(L.md[m].devs) : ~IsMd(z)
    BY <2>1, MirrorHoldsPlain
  <2>3. M.md[m] = L.md[m]
    BY <2>1
  <2>4. DisksUnder(L, Md(m)) = {z[2] : z \in ToSet(L.md[m].devs)}
    BY <2>2, DisksUnderMirror
  <2>5. DisksUnder(M, Md(m)) = {z[2] : z \in ToSet(L.md[m].devs)}
    BY <2>2, <2>3, DisksUnderMirror
  <2> QED
    BY <2>1, <2>4, <2>5
<1> QED
  BY <1>1, <1>2

\* RAID devices whose entries another layout keeps are sound there too.
LEMMA KeptDevices ==
    ASSUME NEW L, MembersOK(L), Redundant(L), NEW M, NEW n \in MdsOf(L), M.md[n] = L.md[n],
           \A x \in ToSet(L.md[n].devs) : \A m \in MdsOf(L) : x = Md(m) => m \in MdsOf(M) /\ M.md[m] = L.md[m]
    PROVE  /\ M.md[n].level \in {0, 1, 5}
           /\ \A x \in ToSet(M.md[n].devs) : MemberOK(M, M.md[n].level, x)
           /\ Apart(M, M.md[n].devs)
<1> DEFINE xs == L.md[n].devs
<1>1. \A x \in ToSet(xs) : MemberOK(L, L.md[n].level, x)
  BY DEF MembersOK
<1>2. \A x \in ToSet(xs) : MemberOK(M, L.md[n].level, x)
  BY <1>1 DEF MemberOK
<1>3. \A x \in ToSet(xs) : DisksUnder(M, x) = DisksUnder(L, x)
  BY <1>1, SameDisksUnder
<1>4. \A i \in DOMAIN xs : xs[i] \in ToSet(xs)
  BY DEF ToSet
<1>5. Apart(M, xs)
  <2>1. Apart(L, xs)
    BY DEF Redundant
  <2> HIDE DEF xs
  <2> QED
    BY <1>3, <1>4, <2>1 DEF Apart
<1> QED
  BY <1>2, <1>5 DEF MembersOK

LEMMA BlankLayoutIsSound == LayoutInv(BlankLayout)
<1>1. MdsOf(BlankLayout) = {}
  BY DEF MdsOf, BlankLayout, NoMd
<1>2. BlankLayout.part = {} /\ DOMAIN BlankLayout.md = MdNums /\ DOMAIN BlankLayout = {"part", "md", "vg"}
  BY DEF BlankLayout
<1>3. IsFiniteSet({})
  BY FS_EmptySet
<1>4. GroupsOK(BlankLayout)
  <2>1. IsSeq(<<>>)
    BY DEF IsSeq
  <2>2. DOMAIN NoVg = {"devs", "lvs"} /\ NoVg.devs = <<>>
    BY DEF NoVg
  <2> QED
    BY <2>1, <2>2 DEF GroupsOK, BlankLayout
<1> QED
  BY <1>1, <1>2, <1>3, <1>4 DEF LayoutInv, MembersOK, Redundant, PartsOK

\* What touches no RAID device and only takes partitions away.
LEMMA SmallerLayoutIsSound ==
    ASSUME NEW L, LayoutInv(L), NEW M, DOMAIN M = DOMAIN L, M.md = L.md, M.part \subseteq L.part,
           GroupsOK(M)
    PROVE  LayoutInv(M)
<1>1. MdsOf(M) = MdsOf(L)
  BY DEF MdsOf
<1>2. MembersOK(M)
  BY <1>1 DEF LayoutInv, MembersOK, MemberOK
<1>3. Redundant(M)
  <2>1. \A n \in MdsOf(L) : Apart(M, L.md[n].devs)
    BY <1>1, KeptDevices DEF LayoutInv
  <2> QED
    BY <1>1, <2>1 DEF Redundant
<1>4. PartsOK(M)
  BY FS_Subset DEF PartsOK, LayoutInv
<1> QED
  BY <1>2, <1>3, <1>4 DEF LayoutInv

\* What the library does keeps a layout sound: groups and logical volumes,
LEMMA GroupsAreSound ==
    ASSUME NEW L, LayoutInv(L), NEW v, NEW xs, IsSeq(xs), NEW l, NEW n
    PROVE  LayoutInv(VgCreated(L, v, xs)) /\ LayoutInv(VgRemoved(L, v)) /\ LayoutInv(LvCreated(L, v, l, n))
<1> DEFINE A == VgCreated(L, v, xs)
           B == VgRemoved(L, v)
           C == LvCreated(L, v, l, n)
<1>1. DOMAIN A = DOMAIN L /\ A.md = L.md /\ A.part = L.part
  BY DEF VgCreated, LayoutInv
<1>2. DOMAIN B = DOMAIN L /\ B.md = L.md /\ B.part = L.part
  BY DEF VgRemoved, LayoutInv
<1>3. DOMAIN C = DOMAIN L /\ C.md = L.md /\ C.part = L.part
  BY DEF LvCreated, LayoutInv
<1>4. GroupsOK(A)
  BY DEF VgCreated, LayoutInv, GroupsOK
<1>5. GroupsOK(B)
  <2>1. IsSeq(<<>>)
    BY DEF IsSeq
  <2>2. DOMAIN NoVg = {"devs", "lvs"} /\ NoVg.devs = <<>>
    BY DEF NoVg
  <2> QED
    BY <2>1, <2>2 DEF VgRemoved, LayoutInv, GroupsOK
<1>6. GroupsOK(C)
  BY DEF LvCreated, LayoutInv, GroupsOK
<1> HIDE DEF A, B, C
<1> QED
  BY <1>1, <1>2, <1>3, <1>4, <1>5, <1>6, SmallerLayoutIsSound DEF A, B, C

\* partitions,
LEMMA PartitionRemovedIsSound ==
    ASSUME NEW L, LayoutInv(L), NEW x
    PROVE  LayoutInv(PartitionRemoved(L, x))
<1> DEFINE A == PartitionRemoved(L, x)
<1>1. DOMAIN A = DOMAIN L /\ A.md = L.md /\ A.part \subseteq L.part /\ GroupsOK(A)
  BY DEF PartitionRemoved, LayoutInv, GroupsOK
<1> HIDE DEF A
<1> QED
  BY <1>1, SmallerLayoutIsSound DEF A

LEMMA PartitionCreatedIsSound ==
    ASSUME NEW L, LayoutInv(L), NEW d \in ToSet(Disks), NEW start, NEW n, PartitionFits(L, d, start, n)
    PROVE  /\ LayoutInv(PartitionCreated(L, d, start, n))
           /\ PartitionCreated(L, d, start, n).md = L.md
<1> DEFINE p == [disk |-> d, num |-> NewNum(L, d), start |-> start, size |-> n]
           M == PartitionCreated(L, d, start, n)
<1>1. DOMAIN M = DOMAIN L /\ M.md = L.md /\ M.part = L.part \cup {p} /\ GroupsOK(M)
  BY DEF PartitionCreated, LayoutInv, GroupsOK
<1>2. p.disk = d /\ p.start = start /\ p.size = n
  OBVIOUS
<1> HIDE DEF M, p
<1>3. MdsOf(M) = MdsOf(L)
  BY <1>1 DEF MdsOf
<1>4. MembersOK(M)
  BY <1>1, <1>3 DEF LayoutInv, MembersOK, MemberOK
<1>5. Redundant(M)
  <2>1. \A k \in MdsOf(L) : Apart(M, L.md[k].devs)
    BY <1>1, <1>3, KeptDevices DEF LayoutInv
  <2> QED
    BY <1>1, <1>3, <2>1 DEF Redundant
<1>6. PartsOK(M)
  <2>1. IsFiniteSet(M.part)
    BY <1>1, FS_AddElement DEF PartsOK, LayoutInv
  <2>2. \A q \in M.part : q.disk \in ToSet(Disks) /\ q.start + q.size <= DiskSize
    BY <1>1, <1>2 DEF PartsOK, LayoutInv, PartitionFits
  <2>3. ASSUME NEW q \in L.part, q.disk = d
        PROVE  ~Overlap(q, p.start, p.size) /\ ~Overlap(p, q.start, q.size)
    BY <1>2, <2>3 DEF PartitionFits, PartsOn, Overlap
  <2> QED
    BY <1>1, <1>2, <2>1, <2>2, <2>3 DEF PartsOK, LayoutInv
<1> QED
  BY <1>1, <1>4, <1>5, <1>6 DEF LayoutInv, M

\* and RAID devices.
LEMMA MdRemovedIsSound ==
    ASSUME NEW L, LayoutInv(L), NEW n, CanRemoveMd(L, n)
    PROVE  LayoutInv(MdRemoved(L, n))
<1> DEFINE M == MdRemoved(L, n)
<1>1. /\ DOMAIN M = DOMAIN L /\ M.part = L.part /\ GroupsOK(M)
      /\ M.md = [L.md EXCEPT ![n] = NoMd] /\ n \in MdsOf(L) /\ DOMAIN L.md = MdNums
  BY DEF MdRemoved, LayoutInv, CanRemoveMd, GroupsOK
<1>2. \A k \in MdsOf(L) : Md(n) \notin ToSet(L.md[k].devs)
  BY DEF CanRemoveMd, InUse, MdsUsing
<1> HIDE DEF M
<1>3. M.md[n] = NoMd /\ \A k \in MdNums : k # n => M.md[k] = L.md[k]
  BY <1>1 DEF MdsOf
<1>4. MdsOf(M) = MdsOf(L) \ {n}
  BY <1>1, <1>3 DEF MdsOf, NoMd
<1>5. ASSUME NEW k \in MdsOf(M)
      PROVE  /\ M.md[k].level \in {0, 1, 5}
             /\ \A x \in ToSet(M.md[k].devs) : MemberOK(M, M.md[k].level, x)
             /\ Apart(M, M.md[k].devs)
  <2>1. k \in MdsOf(L) /\ M.md[k] = L.md[k] /\ \A m \in MdsOf(L) : m # n => m \in MdsOf(M) /\ M.md[m] = L.md[m]
    BY <1>3, <1>4 DEF MdsOf
  <2>2. \A x \in ToSet(L.md[k].devs) : x # Md(n)
    BY <1>2, <2>1
  <2> QED
    BY <2>1, <2>2, KeptDevices DEF LayoutInv
<1> QED
  BY <1>1, <1>5 DEF LayoutInv, MembersOK, Redundant, PartsOK, M

\* A RAID device may be made of devices that have no disk in common.
LEMMA MdCreatedIsSound ==
    ASSUME NEW L, LayoutInv(L), NEW level \in {0, 1, 5}, NEW xs, CanCreateMd(L, level, xs),
           \A x \in ToSet(xs) : MemberOK(L, level, x), Apart(L, xs)
    PROVE  /\ LayoutInv(MdCreated(L, level, xs))
           /\ NewMd(L) \in MdsOf(MdCreated(L, level, xs)) \ MdsOf(L)
           /\ MdCreated(L, level, xs).md[NewMd(L)].level = level
           /\ MdCreated(L, level, xs).md[NewMd(L)].devs = xs
           /\ \A m \in MdsOf(L) : /\ m \in MdsOf(MdCreated(L, level, xs))
                                  /\ MdCreated(L, level, xs).md[m] = L.md[m]
<1> DEFINE M == MdCreated(L, level, xs)
           n == NewMd(L)
           e == [level |-> level, devs |-> xs, size |-> MdBytes(L, level, xs)]
<1>1. n \in MdNums /\ n \notin MdsOf(L)
  BY NewMdIsNew DEF CanCreateMd
<1>2. /\ DOMAIN M = DOMAIN L /\ M.part = L.part /\ GroupsOK(M)
      /\ M.md = [L.md EXCEPT ![n] = e] /\ DOMAIN L.md = MdNums
  BY DEF MdCreated, LayoutInv, GroupsOK
<1>3. e.level = level /\ e.devs = xs /\ level # NoLevel
  BY DEF NoLevel
<1> HIDE DEF M, n, e
<1>4. M.md[n] = e /\ \A k \in MdNums : k # n => M.md[k] = L.md[k]
  BY <1>1, <1>2
<1>5. MdsOf(M) = MdsOf(L) \cup {n} /\ \A k \in MdsOf(L) : M.md[k] = L.md[k]
  BY <1>1, <1>3, <1>4 DEF MdsOf
<1>6. ASSUME NEW k \in MdsOf(M)
      PROVE  /\ M.md[k].level \in {0, 1, 5}
             /\ \A x \in ToSet(M.md[k].devs) : MemberOK(M, M.md[k].level, x)
             /\ Apart(M, M.md[k].devs)
  <2>1. CASE k \in MdsOf(L)
    BY <1>5, <2>1, KeptDevices DEF LayoutInv
  <2>2. CASE k = n
    <3>1. \A x \in ToSet(xs) : MemberOK(M, level, x)
      BY <1>5 DEF MemberOK
    <3>2. \A x \in ToSet(xs) : DisksUnder(M, x) = DisksUnder(L, x)
      BY <1>5, SameDisksUnder DEF LayoutInv
    <3>3. \A i \in DOMAIN xs : xs[i] \in ToSet(xs)
      BY DEF ToSet
    <3>4. Apart(M, xs)
      BY <3>2, <3>3 DEF Apart
    <3> QED
      BY <1>3, <1>4, <2>2, <3>1, <3>4
  <2> QED
    BY <1>5, <2>1, <2>2
<1>7. LayoutInv(M)
  BY <1>2, <1>6 DEF LayoutInv, MembersOK, Redundant, PartsOK
<1> QED
  BY <1>1, <1>3, <1>4, <1>5, <1>7 DEF M, n

LEMMA GroupedIsSound ==
    ASSUME NEW L, LayoutInv(L), NEW v, NEW xs, IsSeq(xs), NEW r \in Grouped(L, v, xs)
    PROVE  LayoutInv(r.lib)
<1>1. r.lib = VgCreated(L, v, xs) \/ r.lib = L
  BY DEF Grouped
<1> QED
  BY <1>1, GroupsAreSound

LEMMA ComposedIsSound ==
    ASSUME NEW L, LayoutInv(L), NEW level \in {0, 1, 5}, NEW xs, NEW v,
           \A x \in ToSet(xs) : MemberOK(L, level, x), Apart(L, xs),
           NEW r \in Composed(L, level, xs, v)
    PROVE  LayoutInv(r.lib)
<1> DEFINE made == MdCreated(L, level, xs)
           group == Grouped(made, v, <<Md(NewMd(L))>>)
<1>1. CASE ~CanCreateMd(L, level, xs)
  <2>1. r.lib = L
    BY <1>1 DEF Composed
  <2> QED
    BY <2>1
<1>2. CASE CanCreateMd(L, level, xs)
  <2>1. LayoutInv(made)
    BY <1>2, MdCreatedIsSound
  <2>2. r \in group \/ r.lib = L \/ r.lib = made
    BY <1>2 DEF Composed
  <2>3. IsSeq(<<Md(NewMd(L))>>)
    BY DEF IsSeq, ToSet
  <2> HIDE DEF made
  <2> QED
    BY <2>1, <2>2, <2>3, GroupedIsSound
<1> QED
  BY <1>1, <1>2

-----------------------------------------------------------------------------
(***************************************************************************)
(* Plans                                                                   *)
(***************************************************************************)

\* A pool that is not primordial has no space for a goal that is not its
\* default, so a RAID device is made in the primordial pool only.
LEMMA RaidIsPrimordial ==
    ASSUME NEW G, NEW p, NEW goal, NEW unset,
           GetSupportedSizeRange(G, p, goal, unset) # 0, Kind(G, p, goal) # "JBOD"
    PROVE  p = Primordial
<1>1. ~PoolGoalMatchesDefault(G, p, goal)
  BY DEF Kind
<1>2. AtLeastMin(0) = 0
  BY DEF AtLeastMin
<1>3. ASSUME p # Primordial
      PROVE  GetSupportedSizeRange(G, p, goal, unset) = AtLeastMin(0)
  BY <1>1, <1>3 DEF GetSupportedSizeRange
<1> QED
  BY <1>2, <1>3

\* The least of two natural numbers.
LEMMA LeastOfTwo ==
    ASSUME NEW m \in Nat, NEW n \in Nat
    PROVE  Min({m, n}) \in Nat
<1>1. \E x \in {m, n} : \A y \in {m, n} : x <= y
  OBVIOUS
<1>2. Min({m, n}) \in {m, n}
  BY <1>1 DEF Min
<1> QED
  BY <1>2

\* SelectRAIDExtents takes from each disk once.
TakesFromDisks(plan) ==
    /\ IsSeq(plan)
    /\ \A i \in DOMAIN plan : ~IsMd(plan[i].from)
    /\ \A i, j \in DOMAIN plan : plan[i].from[2] = plan[j].from[2] => i = j

LEMMA RAIDExtentsAreApart ==
    ASSUME NEW G,
           \A x \in DOMAIN G.ext : G.ext[x].pool = Primordial /\ ~Based(G, x) =>
               \E d \in ToSet(Disks) : x = Freespace(d),
           NEW num \in Nat, NEW size, NEW plan \in SelectRAIDExtents(G, Primordial, num, size)
    PROVE  TakesFromDisks(plan)
<1> DEFINE fit == {x \in Available(G, Primordial) : G.ext[x].size >= size}
           n == Min({num, Cardinality(fit)})
           S == {Freespace(d) : d \in ToSet(Disks)}
<1>1. fit \subseteq S
  <2>1. \A x \in fit : x \in DOMAIN G.ext /\ G.ext[x].pool = Primordial /\ DependentExtents(G, x) = {}
    BY DEF Available, Components
  <2>2. \A x \in fit : ~Based(G, x)
    BY <2>1 DEF DependentExtents, Based
  <2> QED
    BY <2>1, <2>2
<1>2. IsFiniteSet(S)
  <2>1. IsFiniteSet(ToSet(Disks))
    <3>1. Len(Disks) \in Nat /\ Disks \in Surjection(1..Len(Disks), ToSet(Disks))
      BY DiskAssumption DEF ToSet, Surjection
    <3>2. IsFiniteSet(1..Len(Disks))
      BY <3>1, FS_Interval
    <3> QED
      BY <3>1, <3>2, FS_Surjection
  <2> DEFINE f == [d \in ToSet(Disks) |-> Freespace(d)]
  <2>2. f \in Surjection(ToSet(Disks), S)
    BY DEF Surjection
  <2> HIDE DEF f, S
  <2> QED
    BY <2>1, <2>2, FS_Surjection
<1>3. n \in Nat
  <2> HIDE DEF fit, S
  <2>1. Cardinality(fit) \in Nat
    BY <1>1, <1>2, FS_Subset, FS_CardinalityType
  <2> QED
    BY <2>1, LeastOfTwo
<1>4. PICK xs \in Injection(1..n, fit) : plan = [k \in DOMAIN xs |-> [from |-> xs[k], bytes |-> size]]
  BY DEF SelectRAIDExtents
<1> HIDE DEF n, fit
<1>5. xs \in [1..n -> fit] /\ \A i, j \in 1..n : xs[i] = xs[j] => i = j
  BY <1>4 DEF Injection, IsInjective
<1>6. DOMAIN plan = 1..n /\ \A i \in 1..n : plan[i].from = xs[i] /\ xs[i] \in S
  BY <1>1, <1>4, <1>5
<1>7. IsSeq(plan)
  <2>1. plan = [i \in 1..n |-> plan[i]]
    BY <1>4, <1>5
  <2>2. \A i \in 1..n : plan[i] \in ToSet(plan)
    BY <1>6 DEF ToSet
  <2> QED
    BY <1>3, <2>1, <2>2 DEF IsSeq
<1>8. \A x \in S : ~IsMd(x) /\ x = Freespace(x[2])
  BY DEF IsMd, Freespace
<1> QED
  BY <1>5, <1>6, <1>7, <1>8 DEF TakesFromDisks

LEMMA PlansAreApart ==
    ASSUME NEW G,
           \A x \in DOMAIN G.ext : G.ext[x].pool = Primordial /\ ~Based(G, x) =>
               \E d \in ToSet(Disks) : x = Freespace(d),
           NEW goal \in Goals, NEW size,
           Kind(G, Primordial, goal) \notin {"JBOD", "none"},
           NEW plan \in Plans(G, Primordial, goal, size)
    PROVE  TakesFromDisks(plan)
<1>1. goal.dr \in Nat /\ goal.stripe \in Nat /\ goal.dr * goal.stripe \in Nat
  BY RaidAssumption
<1>2. \E num \in Nat : \E n : plan \in SelectRAIDExtents(G, Primordial, num, n)
  BY <1>1 DEF Plans, Kind
<1> QED
  BY <1>2, RAIDExtentsAreApart

-----------------------------------------------------------------------------
(***************************************************************************)
(* Steps                                                                   *)
(***************************************************************************)
LEMMA LayoutIsOK ==
    ASSUME NEW L, LayoutInv(L)
    PROVE  LayoutOK(L) /\ LevelsOK(L) /\ IsFiniteSet(L.part)
<1>1. \A n, m : Md(n) = Md(m) => n = m
  BY DEF Md
<1>2. \A n : IsMd(Md(n))
  BY DEF Md, IsMd
<1>3. LayoutOK(L)
  BY <1>1, <1>2 DEF LayoutOK, LayoutInv, MembersOK, MemberOK
<1> QED
  BY <1>3 DEF LevelsOK, LayoutInv, MembersOK, PartsOK

\* A scan makes the arrays anew.
LEMMA ScanIsSound ==
    ASSUME NEW L, LayoutInv(L), NEW G, G = SCSScanStorage(L)
    PROVE  /\ IsGraph(G)
           /\ \A x \in DOMAIN G.ext : G.ext[x].pool = Primordial /\ ~Based(G, x) =>
                  \E d \in ToSet(Disks) : x = Freespace(d)
  BY LayoutIsOK, FreeExtentsOfScan

LEMMA EmptyGraphIsDefined == EmptyGraph.defined
  BY DEF EmptyGraph, LoadPersistentStorageObjects

\* After a step the call is over,
LEMMA BackToIdle ==
    ASSUME LayoutInv(lib)', LayoutInv(disk)', GraphInv', needScan' \in BOOLEAN, graph'.defined,
           served' \in 0..MaxRequests, call' = Idle
    PROVE  RaidInv'
<1>1. DOMAIN call' = DOMAIN Idle /\ call'.pc = "idle"
  BY DEF Idle
<1>2. CallInv'
  BY <1>1 DEF CallInv
<1>3. TypeOK'
  <2>1. LayoutOK(lib') /\ LayoutOK(disk')
    BY LayoutIsOK
  <2> QED
    BY <1>1, <2>1 DEF TypeOK, LayoutInv, PartsOK
<1> QED
  BY <1>2, <1>3 DEF RaidInv

\* the process has ended,
LEMMA EndsIsSound ==
    ASSUME RaidInv, NEW how, Ends(how), served' \in 0..MaxRequests
    PROVE  RaidInv'
<1>1. LayoutInv(lib)' /\ LayoutInv(disk)' /\ GraphInv' /\ needScan' \in BOOLEAN
  BY DEF Ends, RaidInv, GraphInv
<1>2. graph'.defined /\ call' = Idle
  BY EmptyGraphIsDefined DEF Ends
<1> QED
  BY <1>1, <1>2, BackToIdle

\* or it is where nothing is asked of it.
LEMMA QuietCall ==
    ASSUME RaidInv, LayoutInv(lib)', LayoutInv(disk)', UNCHANGED <<graph, needScan>>,
           served' \in 0..MaxRequests, DOMAIN call' = DOMAIN Idle,
           call.pc \notin {"idle", "enter"}, call'.pc \in {"scan", "cleanup", "remove"}
    PROVE  RaidInv'
<1>1. CallInv'
  BY DEF CallInv, RaidInv
<1>2. GraphInv'
  BY DEF GraphInv, RaidInv
<1>3. TypeOK'
  <2>1. LayoutOK(lib') /\ LayoutOK(disk')
    BY LayoutIsOK
  <2> QED
    BY <2>1 DEF TypeOK, LayoutInv, PartsOK, RaidInv
<1> QED
  BY <1>1, <1>2, <1>3 DEF RaidInv

LEMMA InitIsSound == Init => RaidInv
<1> SUFFICES ASSUME Init PROVE RaidInv
  OBVIOUS
<1>1. LayoutInv(lib) /\ LayoutInv(disk)
  BY BlankLayoutIsSound DEF Init
<1>2. GraphInv /\ needScan \in BOOLEAN /\ graph.defined
  BY EmptyGraphIsDefined DEF Init, GraphInv
<1>3. DOMAIN call = DOMAIN Idle /\ call.pc = "idle"
  BY DEF Idle, Init
<1>4. CallInv
  BY <1>3 DEF CallInv
<1>5. TypeOK
  <2>1. LayoutOK(lib) /\ LayoutOK(disk)
    BY <1>1, LayoutIsOK
  <2>2. served \in 0..MaxRequests
    BY RaidAssumption DEF Init
  <2> QED
    BY <1>1, <1>2, <1>3, <2>1, <2>2 DEF TypeOK, LayoutInv, PartsOK
<1> QED
  BY <1>1, <1>2, <1>4, <1>5 DEF RaidInv

-----------------------------------------------------------------------------
(***************************************************************************)
(* Requests and their entrance                                             *)
(***************************************************************************)

\* A request is noted, and where it goes depends on the scan.
LEMMA NewCall ==
    ASSUME RaidInv, UNCHANGED <<lib, disk, graph, needScan>>, served' \in 0..MaxRequests,
           DOMAIN call' = DOMAIN Idle, NEW op \in {"create", "delete"},
           call'.op = op, call'.pc = IF needScan THEN "enter" ELSE op,
           op = "create" => call'.goal \in Goals,
           call'.devs = <<>>, call'.mirrors = <<>>
    PROVE  RaidInv'
<1>1. CallInv'
  BY DEF CallInv, RaidInv
<1> QED
  BY <1>1 DEF RaidInv, GraphInv, TypeOK

LEMMA RequestCreateKeeps ==
    ASSUME RaidInv, RequestCreate, served' \in 0..MaxRequests
    PROVE  RaidInv'
<1>1. DOMAIN call' = DOMAIN Idle /\ call'.op = "create" /\ call'.pc = (IF needScan THEN "enter" ELSE "create")
      /\ call'.goal \in Goals /\ call'.devs = <<>> /\ call'.mirrors = <<>>
  BY DEF RequestCreate, Idle
<1> QED
  BY <1>1, NewCall DEF RequestCreate

LEMMA RequestDeleteKeeps ==
    ASSUME RaidInv, RequestDelete, served' \in 0..MaxRequests
    PROVE  RaidInv'
<1>1. DOMAIN call' = DOMAIN Idle /\ call'.op = "delete" /\ call'.pc = (IF needScan THEN "enter" ELSE "delete")
      /\ call'.devs = <<>> /\ call'.mirrors = <<>>
  BY DEF RequestDelete, Idle
<1> QED
  BY <1>1, NewCall DEF RequestDelete

LEMMA UsePoolKeeps ==
    ASSUME RaidInv, UsePool, served' \in 0..MaxRequests
    PROVE  RaidInv'
<1>1. PICK v, l : \E L \in {LvCreated(lib, v, l, OneKB)} : \E G \in {SCSScanStorage(L)} :
                      /\ Commit(L)
                      /\ graph' = IF G.defined THEN G ELSE EmptyGraph
                      /\ needScan' = ~G.defined
  BY DEF UsePool
<1> DEFINE L == LvCreated(lib, v, l, OneKB)
           G == SCSScanStorage(L)
<1>2. /\ lib' = L /\ disk' = L /\ graph' = (IF G.defined THEN G ELSE EmptyGraph)
      /\ needScan' = ~G.defined
  BY <1>1 DEF Commit
<1>3. LayoutInv(L)
  <2>1. IsSeq(<<>>)
    BY DEF IsSeq
  <2> QED
    BY <2>1, GroupsAreSound DEF RaidInv
<1> HIDE DEF L
<1>4. G = SCSScanStorage(L)
  OBVIOUS
<1> HIDE DEF G
<1>5. /\ IsGraph(G)
      /\ \A x \in DOMAIN G.ext : G.ext[x].pool = Primordial /\ ~Based(G, x) =>
             \E d \in ToSet(Disks) : x = Freespace(d)
  BY <1>3, <1>4, ScanIsSound
<1>6. call.pc = "idle" /\ call' = call
  BY DEF UsePool
<1>7. CallInv'
  BY <1>6 DEF CallInv, RaidInv
<1>8. GraphInv' /\ needScan' \in BOOLEAN /\ graph'.defined
  BY <1>2, <1>5, EmptyGraphIsDefined DEF GraphInv
<1>9. TypeOK'
  <2>1. LayoutOK(lib') /\ LayoutOK(disk')
    BY <1>2, <1>3, LayoutIsOK
  <2> QED
    BY <1>2, <1>3, <1>6, <1>8, <2>1 DEF TypeOK, LayoutInv, PartsOK
<1> QED
  BY <1>2, <1>3, <1>7, <1>8, <1>9 DEF RaidInv

\* The scan that starts a method,
LEMMA EnterKeeps ==
    ASSUME RaidInv, Enter, served' \in 0..MaxRequests
    PROVE  RaidInv'
<1> DEFINE G == SCSScanStorage(lib)
<1>1. call.pc = "enter"
  BY DEF Enter
<1>2. \/ /\ graph' = G /\ G.defined /\ needScan' = FALSE /\ call' = [call EXCEPT !.pc = call.op]
         /\ UNCHANGED <<lib, disk>>
      \/ Ends("died")
  BY DEF Enter, ScanStorage
<1>3. G = SCSScanStorage(lib)
  OBVIOUS
<1> HIDE DEF G
<1>4. CASE Ends("died")
  BY <1>4, EndsIsSound
<1>5. CASE /\ graph' = G /\ G.defined /\ needScan' = FALSE /\ call' = [call EXCEPT !.pc = call.op]
           /\ UNCHANGED <<lib, disk>>
  <2>1. /\ IsGraph(G)
        /\ \A x \in DOMAIN G.ext : G.ext[x].pool = Primordial /\ ~Based(G, x) =>
               \E d \in ToSet(Disks) : x = Freespace(d)
    BY <1>3, ScanIsSound DEF RaidInv
  <2>2. GraphInv'
    BY <1>5, <2>1 DEF GraphInv
  <2>3. call.op \in {"create", "delete"} /\ DOMAIN call = DOMAIN Idle
    BY <1>1 DEF RaidInv, CallInv
  <2>4. /\ DOMAIN call' = DOMAIN Idle /\ call'.pc = call.op /\ call'.op = call.op
        /\ call'.goal = call.goal /\ call'.devs = call.devs /\ call'.mirrors = call.mirrors
    BY <1>5, <2>3 DEF Idle
  <2>5. CallInv'
    BY <1>1, <1>5, <2>3, <2>4 DEF CallInv, RaidInv
  <2>6. TypeOK'
    BY <1>5, <2>3, <2>4 DEF TypeOK, RaidInv
  <2> QED
    BY <1>5, <2>2, <2>5, <2>6 DEF RaidInv
<1> QED
  BY <1>2, <1>4, <1>5

\* and the one that ends it.
LEMMA ScanAndAnswerKeeps ==
    ASSUME RaidInv, ScanAndAnswer, served' \in 0..MaxRequests
    PROVE  RaidInv'
<1> DEFINE G == SCSScanStorage(lib)
<1>1. \/ /\ graph' = G /\ G.defined /\ needScan' = FALSE /\ call' = Idle /\ UNCHANGED <<lib, disk>>
      \/ Ends("died")
  BY DEF ScanAndAnswer, ScanStorage
<1>2. G = SCSScanStorage(lib)
  OBVIOUS
<1> HIDE DEF G
<1>3. CASE Ends("died")
  BY <1>3, EndsIsSound
<1>4. CASE /\ graph' = G /\ G.defined /\ needScan' = FALSE /\ call' = Idle /\ UNCHANGED <<lib, disk>>
  <2>1. /\ IsGraph(G)
        /\ \A x \in DOMAIN G.ext : G.ext[x].pool = Primordial /\ ~Based(G, x) =>
               \E d \in ToSet(Disks) : x = Freespace(d)
    BY <1>2, ScanIsSound DEF RaidInv
  <2>2. GraphInv' /\ LayoutInv(lib)' /\ LayoutInv(disk)'
    BY <1>4, <2>1 DEF GraphInv, RaidInv
  <2> QED
    BY <1>4, <2>2, BackToIdle
<1> QED
  BY <1>1, <1>3, <1>4

\* Requests that are refused.
LEMMA RefusalsKeep ==
    ASSUME RaidInv, RefuseGoalOrSize \/ RefuseUsedPool, served' \in 0..MaxRequests
    PROVE  RaidInv'
<1>1. call' = Idle /\ UNCHANGED <<lib, disk, graph, needScan>>
  BY DEF RefuseGoalOrSize, RefuseUsedPool
<1>2. GraphInv' /\ LayoutInv(lib)' /\ LayoutInv(disk)' /\ needScan' \in BOOLEAN /\ graph'.defined
  BY <1>1 DEF GraphInv, RaidInv, TypeOK
<1> QED
  BY <1>1, <1>2, BackToIdle

-----------------------------------------------------------------------------
(***************************************************************************)
(* Creation                                                                *)
(***************************************************************************)

\* The choice of a pool: one that has the space for the goal.
LEMMA FoundHasSpace ==
    ASSUME NEW G, NEW goal, NEW size, NEW unset, NEW p \in PoolsFindByGoal(G, goal, size, unset)
    PROVE  GetSupportedSizeRange(G, p, goal, unset) # 0
<1>1. p \in Suiting(G, goal, size, unset)
  BY DEF PoolsFindByGoal
<1>2. GetSupportedSizeRange(G, p, goal, unset) >= MinVolumeSize
  BY <1>1 DEF Suiting
<1> QED
  BY <1>2, RaidAssumption

LEMMA SelectedKeeps ==
    ASSUME RaidInv, call.pc = "create", UNCHANGED <<lib, disk, graph, needScan>>,
           served' \in 0..MaxRequests, NEW unset, NEW p, NEW n,
           GetSupportedSizeRange(graph, p, call.goal, unset) # 0, Selected(p, n)
    PROVE  RaidInv'
<1>1. PICK plan \in Plans(graph, p, call.goal, n) :
          call' = [call EXCEPT !.pc = "cut", !.in = p, !.size = n, !.plan = plan]
  BY DEF Selected
<1>2. DOMAIN call = DOMAIN Idle /\ call.goal \in Goals /\ call.devs = <<>> /\ call.mirrors = <<>> /\ ~needScan
  BY DEF RaidInv, CallInv
<1>3. /\ DOMAIN call' = DOMAIN Idle /\ call'.pc = "cut" /\ call'.in = p /\ call'.plan = plan
      /\ call'.goal = call.goal /\ call'.devs = <<>> /\ call'.mirrors = <<>>
  BY <1>1, <1>2 DEF Idle
<1>4. ASSUME Kind(graph, p, call.goal) \notin {"JBOD", "none"}
      PROVE  RaidCall'
  <2>1. p = Primordial
    BY <1>4, RaidIsPrimordial
  <2>2. \A x \in DOMAIN graph.ext : graph.ext[x].pool = Primordial /\ ~Based(graph, x) =>
            \E d \in ToSet(Disks) : x = Freespace(d)
    BY <1>2 DEF RaidInv, GraphInv
  <2>3. TakesFromDisks(plan)
    BY <1>1, <1>2, <1>4, <2>1, <2>2, PlansAreApart
  <2>4. IsSeq(<<>>) /\ DOMAIN <<>> = {}
    BY DEF IsSeq
  <2> QED
    BY <1>3, <2>3, <2>4 DEF RaidCall, TakesFromDisks
<1>5. IsSeq(<<>>)
  BY DEF IsSeq
<1>6. CallInv'
  BY <1>2, <1>3, <1>4, <1>5 DEF CallInv
<1> QED
  BY <1>3, <1>6 DEF RaidInv, GraphInv, TypeOK

LEMMA ExitKeeps ==
    ASSUME RaidInv, LayoutInv(lib)', LayoutInv(disk)', UNCHANGED <<graph, needScan>>,
           served' \in 0..MaxRequests, call.pc \notin {"idle", "enter"}, NEW rc, call' = Exit(rc)
    PROVE  RaidInv'
<1>1. DOMAIN call = DOMAIN Idle
  BY DEF RaidInv, CallInv
<1>2. DOMAIN call' = DOMAIN Idle /\ call'.pc = "scan"
  BY <1>1 DEF Exit, Idle
<1> QED
  BY <1>2, QuietCall

LEMMA ChooseExtentsKeeps ==
    ASSUME RaidInv, ChooseExtents, served' \in 0..MaxRequests
    PROVE  RaidInv'
<1>1. /\ call.pc = "create" /\ UNCHANGED <<lib, disk, graph, needScan>>
      /\ LayoutInv(lib)' /\ LayoutInv(disk)'
  BY DEF ChooseExtents, RaidInv
<1>2. CASE call' = Exit("SIZE_NOT_SUPPORTED")
  BY <1>1, <1>2, ExitKeeps
<1>3. CASE \E unset, p, n : GetSupportedSizeRange(graph, p, call.goal, unset) # 0 /\ Selected(p, n)
  BY <1>1, <1>3, SelectedKeeps
<1> QED
  BY <1>2, <1>3, FoundHasSpace DEF ChooseExtents

\* Sequences.
LEMMA TailIsSeq ==
    ASSUME NEW s, IsSeq(s), s # <<>>
    PROVE  /\ IsSeq(Tail(s)) /\ 1 \in DOMAIN s /\ Head(s) = s[1]
           /\ \A i \in DOMAIN Tail(s) : i \in Nat /\ i + 1 \in DOMAIN s /\ Tail(s)[i] = s[i + 1]
<1> DEFINE S == ToSet(s)
<1>1. s \in Seq(S)
  BY DEF IsSeq
<1> HIDE DEF S
<1>2. /\ 1 \in DOMAIN s /\ Head(s) = s[1] /\ Tail(s) \in Seq(S)
      /\ \A i \in DOMAIN Tail(s) : i \in Nat /\ i + 1 \in DOMAIN s /\ Tail(s)[i] = s[i + 1]
  BY <1>1
<1>3. \A i \in DOMAIN Tail(s) : Tail(s)[i] \in ToSet(Tail(s))
  BY DEF ToSet
<1>4. Tail(s) \in Seq(ToSet(Tail(s)))
  <2> DEFINE t == Tail(s)
  <2>1. t \in Seq(S) /\ \A i \in DOMAIN t : t[i] \in ToSet(t)
    BY <1>2, <1>3
  <2> HIDE DEF t
  <2>2. t \in Seq(ToSet(t))
    BY <2>1
  <2> QED
    BY <2>2 DEF t
<1> QED
  BY <1>2, <1>4 DEF IsSeq

LEMMA AppendIsSeq ==
    ASSUME NEW s, IsSeq(s), NEW x
    PROVE  /\ IsSeq(Append(s, x)) /\ Len(s) \in Nat /\ DOMAIN s = 1..Len(s)
           /\ Len(Append(s, x)) = Len(s) + 1 /\ DOMAIN Append(s, x) = 1..Len(s) + 1
           /\ \A i \in DOMAIN s : Append(s, x)[i] = s[i]
           /\ Append(s, x)[Len(s) + 1] = x
<1> DEFINE S == ToSet(s)
           t == Append(s, x)
<1>1. s \in Seq(S)
  BY DEF IsSeq
<1> HIDE DEF S
<1>2. s \in Seq(S \cup {x})
  BY <1>1
<1>3. /\ t \in Seq(S \cup {x}) /\ Len(s) \in Nat /\ DOMAIN s = 1..Len(s)
      /\ Len(t) = Len(s) + 1 /\ DOMAIN t = 1..Len(s) + 1
      /\ \A i \in DOMAIN s : t[i] = s[i]
      /\ t[Len(s) + 1] = x
  BY <1>2
<1> HIDE DEF t
<1>4. \A i \in DOMAIN t : t[i] \in ToSet(t)
  BY DEF ToSet
<1>5. t \in Seq(ToSet(t))
  BY <1>3, <1>4
<1> QED
  BY <1>3, <1>5 DEF IsSeq, t

LEMMA ReverseIsSeq ==
    ASSUME NEW s, IsSeq(s)
    PROVE  IsSeq(Reverse(s))
<1> DEFINE S == ToSet(s)
           t == Reverse(s)
<1>1. s \in Seq(S)
  BY DEF IsSeq
<1> HIDE DEF S
<1>2. t = [i \in 1..Len(s) |-> s[(Len(s) - i) + 1]] /\ Len(s) \in Nat
  BY <1>1 DEF Reverse
<1> HIDE DEF t
<1>3. \A i \in 1..Len(s) : t[i] \in ToSet(t)
  BY <1>2 DEF ToSet
<1>4. t \in Seq(ToSet(t))
  BY <1>2, <1>3
<1> QED
  BY <1>4 DEF IsSeq, t

\* An extent is cut: its disk passes from the plan to the devices.
LEMMA CutKeeps ==
    ASSUME RaidInv, call.pc = "cut", call.plan # <<>>, LayoutInv(lib)', LayoutInv(disk)',
           UNCHANGED <<graph, needScan>>, served' \in 0..MaxRequests,
           NEW dev, call' = Cut(dev),
           ~IsMd(call.plan[1].from) => ~IsMd(dev),
           dev[2] = call.plan[1].from[2]
    PROVE  RaidInv'
<1>1. DOMAIN call = DOMAIN Idle /\ call.goal \in Goals /\ ~needScan
  BY DEF RaidInv, CallInv
<1>2. /\ DOMAIN call' = DOMAIN Idle /\ call'.pc = "cut" /\ call'.in = call.in /\ call'.goal = call.goal
      /\ call'.plan = Tail(call.plan) /\ call'.devs = Append(call.devs, dev) /\ call'.mirrors = call.mirrors
  BY <1>1 DEF Cut, Idle
<1>3. IsSeq(call.devs) /\ IsSeq(call'.devs)
  <2>1. IsSeq(call.devs)
    BY DEF RaidInv, CallInv
  <2> QED
    BY <1>2, <2>1, AppendIsSeq
<1>4. ASSUME Kind(graph, call.in, call.goal) \notin {"JBOD", "none"}
      PROVE  RaidCall'
  <2> DEFINE plan == call.plan
             devs == call.devs
             rest == Tail(plan)
             more == Append(devs, dev)
  <2>1. RaidCall
    BY <1>4 DEF RaidInv, CallInv
  <2>2. IsSeq(plan) /\ IsSeq(devs) /\ plan # <<>> /\ call.mirrors = <<>>
    BY <1>3, <2>1 DEF RaidCall
  <2>3. /\ IsSeq(rest) /\ 1 \in DOMAIN plan
        /\ \A i \in DOMAIN rest : i \in Nat /\ i + 1 \in DOMAIN plan /\ rest[i] = plan[i + 1]
    BY <2>2, TailIsSeq
  <2>4. /\ IsSeq(more) /\ Len(devs) \in Nat /\ DOMAIN devs = 1..Len(devs)
        /\ DOMAIN more = 1..Len(devs) + 1 /\ \A i \in DOMAIN devs : more[i] = devs[i]
        /\ more[Len(devs) + 1] = dev
    BY <2>2, AppendIsSeq
  <2>5. /\ \A i \in DOMAIN plan : ~IsMd(plan[i].from)
        /\ \A i \in DOMAIN devs : ~IsMd(devs[i])
        /\ \A i, j \in DOMAIN plan : plan[i].from[2] = plan[j].from[2] => i = j
        /\ \A i, j \in DOMAIN devs : devs[i][2] = devs[j][2] => i = j
        /\ \A i \in DOMAIN devs, j \in DOMAIN plan : devs[i][2] # plan[j].from[2]
    BY <2>1 DEF RaidCall
  <2> HIDE DEF rest, more, plan, devs
  <2>6. \A i \in DOMAIN more : i \in DOMAIN devs \/ i = Len(devs) + 1
    BY <2>4
  <2>7. dev[2] = plan[1].from[2] /\ ~IsMd(dev)
    BY <2>3, <2>5 DEF plan
  <2>8. \A i \in DOMAIN rest : ~IsMd(rest[i].from)
    BY <2>3, <2>5
  <2>9. \A i \in DOMAIN more : ~IsMd(more[i])
    BY <2>4, <2>5, <2>6, <2>7
  <2>10. \A i, j \in DOMAIN rest : rest[i].from[2] = rest[j].from[2] => i = j
    <3>1. ASSUME NEW i \in DOMAIN rest, NEW j \in DOMAIN rest, rest[i].from[2] = rest[j].from[2]
          PROVE  i = j
      <4>1. i + 1 = j + 1
        BY <2>3, <2>5, <3>1
      <4> QED
        BY <2>3, <4>1
    <3> QED
      BY <3>1
  <2>11. \A i, j \in DOMAIN more : more[i][2] = more[j][2] => i = j
    BY <2>3, <2>4, <2>5, <2>6, <2>7
  <2>12. \A i \in DOMAIN more, j \in DOMAIN rest : more[i][2] # rest[j].from[2]
    <3>1. ASSUME NEW i \in DOMAIN more, NEW j \in DOMAIN rest, more[i][2] = rest[j].from[2]
          PROVE  FALSE
      <4>1. j + 1 \in DOMAIN plan /\ j + 1 # 1 /\ rest[j] = plan[j + 1]
        <5>1. j \in Nat /\ j + 1 \in DOMAIN plan /\ rest[j] = plan[j + 1]
          BY <2>3
        <5>2. j # 0
          <6>1. j \in 1..Len(rest) /\ Len(rest) \in Nat
            BY <2>3 DEF IsSeq
          <6> QED
            BY <6>1
        <5> QED
          BY <5>1, <5>2
      <4>2. CASE i \in DOMAIN devs
        BY <2>4, <2>5, <3>1, <4>1, <4>2
      <4>3. CASE i = Len(devs) + 1
        BY <2>3, <2>4, <2>5, <2>7, <3>1, <4>1, <4>3
      <4> QED
        BY <2>6, <4>2, <4>3
    <3> QED
      BY <3>1
  <2>13. call'.plan = rest /\ call'.devs = more /\ call'.mirrors = <<>>
    BY <1>2, <2>2 DEF rest, more, plan, devs
  <2>14. IsSeq(<<>>) /\ DOMAIN <<>> = {}
    BY DEF IsSeq
  <2> QED
    BY <2>3, <2>4, <2>8, <2>9, <2>10, <2>11, <2>12, <2>13, <2>14 DEF RaidCall
<1>5. CallInv'
  BY <1>1, <1>2, <1>3, <1>4 DEF CallInv
<1>6. TypeOK'
  <2>1. LayoutOK(lib') /\ LayoutOK(disk')
    BY LayoutIsOK
  <2> QED
    BY <1>2, <2>1 DEF TypeOK, LayoutInv, PartsOK, RaidInv
<1> QED
  BY <1>5, <1>6 DEF RaidInv, GraphInv

LEMMA ExtentPartitionKeeps ==
    ASSUME RaidInv, ExtentPartition, served' \in 0..MaxRequests
    PROVE  RaidInv'
<1> DEFINE cut == Head(call.plan)
           d == cut.from[2]
           L == PartitionCreated(lib, d, Offset(lib, d), KBytes(cut.bytes))
           dev == <<"part", d, NewNum(lib, d)>>
<1>1. call.pc = "cut" /\ call.plan # <<>> /\ UNCHANGED <<graph, needScan>>
  BY DEF ExtentPartition
<1>2. cut = call.plan[1]
  OBVIOUS
<1>3. CASE CanCut(lib, cut) /\ Commit(L) /\ call' = Cut(dev)
  <2>1. LayoutInv(L)
    BY <1>3, PartitionCreatedIsSound DEF CanCut, RaidInv
  <2>2. lib' = L /\ disk' = L
    BY <1>3 DEF Commit
  <2>3. ~IsMd(dev) /\ dev[2] = d
    BY DEF IsMd
  <2> HIDE DEF L, dev
  <2>4. LayoutInv(lib)' /\ LayoutInv(disk)'
    BY <2>1, <2>2
  <2> QED
    BY <1>1, <1>2, <1>3, <2>3, <2>4, CutKeeps
<1>4. CASE call' = Cut(cut.from) /\ UNCHANGED <<lib, disk>>
  <2>1. LayoutInv(lib)' /\ LayoutInv(disk)'
    BY <1>4 DEF RaidInv
  <2> QED
    BY <1>1, <1>2, <1>4, <2>1, CutKeeps
<1> QED
  BY <1>3, <1>4 DEF ExtentPartition

\* What is known when all is cut for a RAID device.
LEMMA AllCutForRaid ==
    ASSUME RaidInv, NEW kind \in {"RAID0", "RAID1", "RAID5", "RAID10"}, AllCut(kind)
    PROVE  /\ RaidCall /\ call.pc = "cut" /\ call.goal \in Goals /\ DOMAIN call = DOMAIN Idle
           /\ call.goal.dr \in Nat /\ call.goal.stripe \in Nat /\ ~needScan
           /\ IsSeq(call.devs) /\ IsSeq(call.mirrors)
           /\ \A i \in DOMAIN call.devs : ~IsMd(call.devs[i])
           /\ \A i, j \in DOMAIN call.devs : call.devs[i][2] = call.devs[j][2] => i = j
<1>1. call.pc = "cut" /\ Kind(graph, call.in, call.goal) \notin {"JBOD", "none"}
  BY DEF AllCut
<1>2. RaidCall /\ call.goal \in Goals /\ DOMAIN call = DOMAIN Idle /\ ~needScan /\ IsSeq(call.devs)
  BY <1>1 DEF RaidInv, CallInv
<1> QED
  BY <1>1, <1>2, RaidAssumption DEF RaidCall

\* Devices that are no RAID devices, each on a disk of its own.
LEMMA PlainDevicesAreApart ==
    ASSUME NEW L, NEW xs, \A i \in DOMAIN xs : ~IsMd(xs[i]),
           \A i, j \in DOMAIN xs : xs[i][2] = xs[j][2] => i = j
    PROVE  Apart(L, xs) /\ \A level : \A x \in ToSet(xs) : MemberOK(L, level, x)
<1>1. \A i \in DOMAIN xs : DisksUnder(L, xs[i]) = {xs[i][2]}
  BY DisksUnderPlain
<1> QED
  BY <1>1 DEF Apart, MemberOK, ToSet

\* A composition is committed, whatever became of it, or the process has died.
LEMMA FinishCases ==
    ASSUME NEW results, Finish(results)
    PROVE  \/ Ends("died")
           \/ \E r \in results :
                 Commit(r.lib) /\ call' = Exit(r.rc) /\ UNCHANGED <<graph, needScan, reply>>
BY DEF Finish, Composition

StripeOver == [i \in DOMAIN call.mirrors |-> Md(call.mirrors[i])]

LEMMA StripeCases ==
    ASSUME CreateStripe
    PROVE  \/ Ends("died")
           \/ \E r \in Composed(lib, 0, StripeOver, call.pool) :
                 /\ Commit(r.lib) /\ call' \in {Exit("OK"), [CleanUp EXCEPT !.devs = <<>>]}
                 /\ UNCHANGED <<graph, needScan, reply>>
BY DEF CreateStripe, Composition, StripeOver

LEMMA FinishKeeps ==
    ASSUME RaidInv, call.pc = "cut", served' \in 0..MaxRequests,
           NEW results, \A r \in results : LayoutInv(r.lib), Finish(results)
    PROVE  RaidInv'
<1>1. CASE Ends("died")
  BY <1>1, EndsIsSound
<1>2. ASSUME NEW r \in results, Commit(r.lib), call' = Exit(r.rc), UNCHANGED <<graph, needScan, reply>>
      PROVE  RaidInv'
  <2>1. LayoutInv(lib)' /\ LayoutInv(disk)'
    BY <1>2 DEF Commit
  <2> QED
    BY <1>2, <2>1, ExitKeeps
<1> QED
  BY <1>1, <1>2, FinishCases

LEMMA CompositionsKeep ==
    ASSUME RaidInv, served' \in 0..MaxRequests,
           \/ CreateJBODComposition \/ CreateRAID0Composition \/ CreateRAID1Composition
           \/ CreateRAID5Composition \/ NoBranch
    PROVE  RaidInv'
<1>1. LayoutInv(lib) /\ LayoutInv(disk)
  BY DEF RaidInv
<1>2. ASSUME NEW kind \in {"RAID0", "RAID1", "RAID5"}, NEW level \in {0, 1, 5},
             AllCut(kind), Finish(Composed(lib, level, call.devs, call.pool))
      PROVE  RaidInv'
  <2>1. /\ call.pc = "cut" /\ \A i \in DOMAIN call.devs : ~IsMd(call.devs[i])
        /\ \A i, j \in DOMAIN call.devs : call.devs[i][2] = call.devs[j][2] => i = j
    BY <1>2, AllCutForRaid
  <2>2. Apart(lib, call.devs) /\ \A x \in ToSet(call.devs) : MemberOK(lib, level, x)
    BY <2>1, PlainDevicesAreApart
  <2>3. \A r \in Composed(lib, level, call.devs, call.pool) : LayoutInv(r.lib)
    BY <1>1, <2>2, ComposedIsSound
  <2> QED
    BY <1>2, <2>1, <2>3, FinishKeeps
<1>3. CASE CreateJBODComposition
  <2>1. IsSeq(Reverse(call.devs))
    BY <1>3, ReverseIsSeq DEF CreateJBODComposition, AllCut, RaidInv, CallInv
  <2>2. \A r \in Grouped(lib, call.pool, Reverse(call.devs)) : LayoutInv(r.lib)
    BY <1>1, <2>1, GroupedIsSound
  <2> QED
    BY <1>3, <2>2, FinishKeeps DEF CreateJBODComposition, AllCut
<1>4. CASE CreateRAID0Composition
  BY <1>2, <1>4 DEF CreateRAID0Composition
<1>5. CASE CreateRAID1Composition
  BY <1>2, <1>5 DEF CreateRAID1Composition
<1>6. CASE CreateRAID5Composition
  BY <1>2, <1>6 DEF CreateRAID5Composition
<1>7. CASE NoBranch
  <2>1. LayoutInv(lib)' /\ LayoutInv(disk)' /\ call.pc = "cut" /\ UNCHANGED <<graph, needScan>>
    BY <1>1, <1>7 DEF NoBranch, AllCut
  <2> QED
    BY <1>7, <2>1, ExitKeeps DEF NoBranch
<1> QED
  BY <1>3, <1>4, <1>5, <1>6, <1>7

\* A slice of a sequence.
LEMMA SliceOf ==
    ASSUME NEW s, IsSeq(s), NEW m \in Nat, NEW n \in Nat, n <= Len(s)
    PROVE  /\ IsSeq(s) /\ DOMAIN s = 1..Len(s) /\ Len(s) \in Nat
           /\ \A k \in DOMAIN SubSeq(s, m + 1, n) :
                  k \in Nat /\ m + k \in DOMAIN s /\ m + k <= n /\ k >= 1 /\ SubSeq(s, m + 1, n)[k] = s[m + k]
<1>1. DOMAIN s = 1..Len(s) /\ Len(s) \in Nat
  BY DEF IsSeq
<1>2. SubSeq(s, m + 1, n) = [k \in 1..n - m |-> s[m + k]]
  <2>1. SubSeq(s, m + 1, n) = [k \in 1..(1 + n - (m + 1)) |-> s[k + (m + 1) - 1]]
    OBVIOUS
  <2>2. 1 + n - (m + 1) = n - m /\ \A k \in 1..n - m : k + (m + 1) - 1 = m + k
    OBVIOUS
  <2> QED
    BY <2>1, <2>2
<1>3. \A k \in 1..n - m : k \in Nat /\ m + k \in 1..Len(s) /\ m + k <= n /\ k >= 1
  BY <1>1
<1> QED
  BY <1>1, <1>2, <1>3

\* The slices of a sequence into pieces of length d do not overlap.
LEMMA SlicesAreApart ==
    ASSUME NEW d \in Nat, NEW i \in Nat, NEW j \in Nat, i < j, NEW a \in Nat, NEW b \in Nat,
           a <= i * d, (j - 1) * d + 1 <= b
    PROVE  a # b
<1>1. (j - 1) * d = i * d + (j - 1 - i) * d
  OBVIOUS
<1>2. (j - 1 - i) * d \in Nat
  OBVIOUS
<1>3. i * d \in Nat
  OBVIOUS
<1> QED
  BY <1>1, <1>2, <1>3

\* Where a mirror's devices are.
LEMMA MirrorIsSlice ==
    ASSUME call.goal.dr \in Nat, IsSeq(call.devs), NEW i \in Nat \ {0}, i * call.goal.dr <= Len(call.devs)
    PROVE  \A k \in DOMAIN Mirror(i) : \E a \in DOMAIN call.devs :
               /\ a = (i - 1) * call.goal.dr + k /\ a \in Nat /\ k \in Nat
               /\ a <= i * call.goal.dr /\ (i - 1) * call.goal.dr + 1 <= a
               /\ Mirror(i)[k] = call.devs[a]
<1> DEFINE m == (i - 1) * call.goal.dr
           n == i * call.goal.dr
<1>1. m \in Nat /\ n \in Nat /\ n <= Len(call.devs)
  OBVIOUS
<1>2. Mirror(i) = SubSeq(call.devs, m + 1, n)
  BY DEF Mirror
<1> HIDE DEF m, n
<1>3. /\ DOMAIN call.devs = 1..Len(call.devs) /\ Len(call.devs) \in Nat
      /\ \A k \in DOMAIN Mirror(i) :
             /\ k \in Nat /\ m + k \in DOMAIN call.devs /\ m + k <= n /\ k >= 1
             /\ Mirror(i)[k] = call.devs[m + k]
  BY <1>1, <1>2, SliceOf
<1>4. ASSUME NEW k \in DOMAIN Mirror(i)
      PROVE  /\ m + k \in DOMAIN call.devs /\ m + k \in Nat /\ k \in Nat
             /\ m + k <= n /\ m + 1 <= m + k
             /\ Mirror(i)[k] = call.devs[m + k]
  <2>1. /\ k \in Nat /\ m + k \in DOMAIN call.devs /\ m + k <= n /\ k >= 1
        /\ Mirror(i)[k] = call.devs[m + k]
    BY <1>3
  <2> QED
    BY <1>1, <2>1
<1> QED
  BY <1>4 DEF m, n

LEMMA CreateMirrorKeeps ==
    ASSUME RaidInv, CreateMirror, served' \in 0..MaxRequests
    PROVE  RaidInv'
<1> DEFINE i == Len(call.mirrors) + 1
           dr == call.goal.dr
           L == MdCreated(lib, 1, Mirror(i))
           n == NewMd(lib)
<1>1. AllCut("RAID10") /\ call.plan = <<>>
  BY DEF CreateMirror, AllCut
<1>2. /\ RaidCall /\ call.pc = "cut" /\ call.goal \in Goals /\ DOMAIN call = DOMAIN Idle
      /\ dr \in Nat /\ ~needScan /\ IsSeq(call.devs) /\ IsSeq(call.mirrors)
      /\ \A k \in DOMAIN call.devs : ~IsMd(call.devs[k])
      /\ \A j, k \in DOMAIN call.devs : call.devs[j][2] = call.devs[k][2] => j = k
  BY <1>1, AllCutForRaid
<1>3. CASE Len(call.devs) < i * dr
  <2>1. Ends("died")
    BY <1>3 DEF CreateMirror
  <2> QED
    BY <2>1, EndsIsSound
<1>4. CASE /\ UNCHANGED <<lib, disk, graph, needScan>> /\ call' = CleanUp
  <2>1. LayoutInv(lib)' /\ LayoutInv(disk)'
    BY <1>4 DEF RaidInv
  <2>2. DOMAIN call' = DOMAIN Idle /\ call'.pc = "cleanup"
    BY <1>2, <1>4 DEF CleanUp, Idle
  <2> QED
    BY <1>2, <1>4, <2>1, <2>2, QuietCall
<1>5. CASE /\ ~(Len(call.devs) < i * dr) /\ CanCreateMd(lib, 1, Mirror(i)) /\ Commit(L)
           /\ call' = [call EXCEPT !.mirrors = Append(@, n)]
           /\ UNCHANGED <<graph, needScan, reply>>
  <2>1. i \in Nat \ {0} /\ Len(call.devs) \in Nat /\ i * dr \in Nat
    BY <1>2 DEF IsSeq
  <2>2. i * dr <= Len(call.devs)
    BY <1>5, <2>1
  <2> DEFINE made == call.mirrors
             more == Append(made, n)
  <2>3. /\ IsSeq(more) /\ Len(made) \in Nat /\ DOMAIN made = 1..Len(made)
        /\ DOMAIN more = 1..Len(made) + 1 /\ \A k \in DOMAIN made : more[k] = made[k]
        /\ more[Len(made) + 1] = n
    BY <1>2, AppendIsSeq
  <2> HIDE DEF i
  <2>4. \A k \in DOMAIN Mirror(i) : \E a \in DOMAIN call.devs :
            a = (i - 1) * dr + k /\ k \in Nat /\ Mirror(i)[k] = call.devs[a]
    BY <1>2, <2>1, <2>2, MirrorIsSlice
  <2>5. \A k \in DOMAIN Mirror(i) : ~IsMd(Mirror(i)[k])
    BY <1>2, <2>4
  <2>6. \A j, k \in DOMAIN Mirror(i) : Mirror(i)[j][2] = Mirror(i)[k][2] => j = k
    <3>1. ASSUME NEW j \in DOMAIN Mirror(i), NEW k \in DOMAIN Mirror(i), Mirror(i)[j][2] = Mirror(i)[k][2]
          PROVE  j = k
      <4>1. (i - 1) * dr + j = (i - 1) * dr + k /\ j \in Nat /\ k \in Nat
        BY <1>2, <2>4, <3>1
      <4>2. (i - 1) * dr \in Nat
        BY <1>2, <2>1
      <4> QED
        BY <4>1, <4>2
    <3> QED
      BY <3>1
  <2>7. Apart(lib, Mirror(i)) /\ \A x \in ToSet(Mirror(i)) : MemberOK(lib, 1, x)
    BY <2>5, <2>6, PlainDevicesAreApart
  <2>8. /\ LayoutInv(L) /\ n \in MdsOf(L) /\ L.md[n].level = 1 /\ L.md[n].devs = Mirror(i)
        /\ \A m \in MdsOf(lib) : m \in MdsOf(L) /\ L.md[m] = lib.md[m]
    BY <1>5, <2>7, MdCreatedIsSound DEF RaidInv
  <2>9. lib' = L /\ disk' = L
    BY <1>5 DEF Commit
  <2>10. /\ DOMAIN call' = DOMAIN Idle /\ call'.pc = "cut" /\ call'.in = call.in /\ call'.goal = call.goal
         /\ call'.plan = <<>> /\ call'.devs = call.devs /\ call'.mirrors = more
    BY <1>1, <1>2, <1>5 DEF Idle
  <2> HIDE DEF L, n, more, made
  <2>11. \A k : Mirror(k)' = Mirror(k)
    BY <2>10 DEF Mirror
  <2>12. ASSUME NEW k \in DOMAIN more
         PROVE  /\ more[k] \in MdsOf(L) /\ L.md[more[k]].level = 1
                /\ L.md[more[k]].devs = Mirror(k) /\ k * dr <= Len(call.devs)
    <3>1. CASE k \in DOMAIN made
      <4>1. /\ made[k] \in MdsOf(lib) /\ lib.md[made[k]].level = 1
            /\ lib.md[made[k]].devs = Mirror(k) /\ k * dr <= Len(call.devs)
        BY <1>2, <3>1 DEF RaidCall, made
      <4> QED
        BY <2>3, <2>8, <3>1, <4>1
    <3>2. CASE k = i
      BY <2>2, <2>3, <2>8, <3>2 DEF i, made
    <3>3. k \in DOMAIN made \/ k = i
      BY <2>3 DEF i, made
    <3> QED
      BY <3>1, <3>2, <3>3
  <2>13. RaidCall'
    <3>1. IsSeq(<<>>) /\ DOMAIN <<>> = {}
      BY DEF IsSeq
    <3> QED
      BY <1>2, <2>3, <2>9, <2>10, <2>11, <2>12, <3>1 DEF RaidCall
  <2>14. CallInv'
    BY <1>2, <1>5, <2>10, <2>13 DEF CallInv
  <2>15. TypeOK'
    <3>1. LayoutOK(lib') /\ LayoutOK(disk')
      BY <2>8, <2>9, LayoutIsOK
    <3> QED
      BY <1>5, <2>8, <2>9, <2>10, <3>1 DEF TypeOK, LayoutInv, PartsOK, RaidInv
  <2> QED
    BY <1>5, <2>8, <2>9, <2>14, <2>15 DEF RaidInv, GraphInv
<1> QED
  BY <1>3, <1>4, <1>5 DEF CreateMirror

\* The mirrors made are a stripe's members: they exist, and no disk is under
\* two of them.
LEMMA MirrorsAreApart ==
    ASSUME RaidInv, AllCut("RAID10"),
           NEW xs, xs = [i \in DOMAIN call.mirrors |-> Md(call.mirrors[i])]
    PROVE  Apart(lib, xs) /\ \A x \in ToSet(xs) : MemberOK(lib, 0, x)
<1> DEFINE made == call.mirrors
           dr == call.goal.dr
<1>1. /\ RaidCall /\ dr \in Nat /\ IsSeq(call.devs) /\ IsSeq(made)
      /\ \A k \in DOMAIN call.devs : ~IsMd(call.devs[k])
      /\ \A j, k \in DOMAIN call.devs : call.devs[j][2] = call.devs[k][2] => j = k
  BY AllCutForRaid
<1>2. /\ DOMAIN xs = DOMAIN made
      /\ \A i \in DOMAIN made :
             /\ i \in Nat \ {0} /\ xs[i] = Md(made[i]) /\ made[i] \in MdsOf(lib)
             /\ lib.md[made[i]].level = 1 /\ lib.md[made[i]].devs = Mirror(i)
             /\ i * dr <= Len(call.devs)
  BY SMTT(40), <1>1 DEF RaidCall, IsSeq
<1>3. \A x \in ToSet(xs) : MemberOK(lib, 0, x)
  BY <1>2 DEF MemberOK, ToSet
<1>4. ASSUME NEW i \in DOMAIN made, NEW z \in DisksUnder(lib, xs[i])
      PROVE  \E a \in DOMAIN call.devs :
                 /\ z = call.devs[a][2] /\ a \in Nat /\ a <= i * dr /\ (i - 1) * dr + 1 <= a
  <2>1. \A x \in ToSet(lib.md[made[i]].devs) : ~IsMd(x)
    BY <1>2, MirrorHoldsPlain DEF RaidInv, LayoutInv
  <2>2. DisksUnder(lib, xs[i]) = {x[2] : x \in ToSet(Mirror(i))}
    BY <1>2, <2>1, DisksUnderMirror
  <2>3. PICK k \in DOMAIN Mirror(i) : z = Mirror(i)[k][2]
    BY <2>2 DEF ToSet
  <2>4. \E a \in DOMAIN call.devs : /\ a \in Nat /\ a <= i * dr /\ (i - 1) * dr + 1 <= a
                                    /\ Mirror(i)[k] = call.devs[a]
    <3>1. i \in Nat \ {0} /\ i * dr <= Len(call.devs) /\ dr \in Nat /\ IsSeq(call.devs)
      BY <1>1, <1>2
    <3>2. \A n \in DOMAIN Mirror(i) : \E a \in DOMAIN call.devs :
              /\ a = (i - 1) * dr + n /\ a \in Nat /\ n \in Nat
              /\ a <= i * dr /\ (i - 1) * dr + 1 <= a /\ Mirror(i)[n] = call.devs[a]
      BY <3>1, MirrorIsSlice
    <3> QED
      BY <3>2
  <2> QED
    BY <2>3, <2>4
<1>5. ASSUME NEW i \in DOMAIN made, NEW j \in DOMAIN made, i < j,
             NEW z \in DisksUnder(lib, xs[i]), z \in DisksUnder(lib, xs[j])
      PROVE  FALSE
  <2>1. PICK a \in DOMAIN call.devs : z = call.devs[a][2] /\ a \in Nat /\ a <= i * dr
    BY <1>4
  <2>2. PICK b \in DOMAIN call.devs : z = call.devs[b][2] /\ b \in Nat /\ (j - 1) * dr + 1 <= b
    BY <1>4, <1>5
  <2>3. i \in Nat /\ j \in Nat
    BY <1>2
  <2>4. a # b
    BY <1>1, <1>5, <2>1, <2>2, <2>3, SlicesAreApart
  <2> QED
    BY <1>1, <2>1, <2>2, <2>4
<1>6. \A i, j \in DOMAIN made : i \in Nat /\ j \in Nat /\ (i < j \/ j < i \/ i = j)
  BY <1>2
<1>7. Apart(lib, xs)
  <2>1. ASSUME NEW i \in DOMAIN xs, NEW j \in DOMAIN xs,
               DisksUnder(lib, xs[i]) \cap DisksUnder(lib, xs[j]) # {}
        PROVE  i = j
    <3>1. PICK z : z \in DisksUnder(lib, xs[i]) /\ z \in DisksUnder(lib, xs[j])
      BY <2>1
    <3> QED
      BY <1>2, <1>5, <1>6, <3>1
  <2> QED
    BY <2>1 DEF Apart
<1> QED
  BY <1>3, <1>7

LEMMA CreateStripeKeeps ==
    ASSUME RaidInv, CreateStripe, served' \in 0..MaxRequests
    PROVE  RaidInv'
<1>1. AllCut("RAID10") /\ call.pc = "cut"
  BY DEF CreateStripe, AllCut
<1>2. Apart(lib, StripeOver) /\ \A x \in ToSet(StripeOver) : MemberOK(lib, 0, x)
  BY <1>1, MirrorsAreApart DEF StripeOver
<1>3. CASE Ends("died")
  BY <1>3, EndsIsSound
<1>4. ASSUME NEW r \in Composed(lib, 0, StripeOver, call.pool), Commit(r.lib),
             call' \in {Exit("OK"), [CleanUp EXCEPT !.devs = <<>>]}, UNCHANGED <<graph, needScan, reply>>
      PROVE  RaidInv'
  <2>1. LayoutInv(r.lib)
    BY <1>2, ComposedIsSound DEF RaidInv
  <2>2. LayoutInv(lib)' /\ LayoutInv(disk)'
    BY <1>4, <2>1 DEF Commit
  <2>3. DOMAIN call = DOMAIN Idle
    BY DEF RaidInv, CallInv
  <2>4. DOMAIN call' = DOMAIN Idle /\ call'.pc \in {"scan", "cleanup"}
    BY <1>4, <2>3 DEF CleanUp, Exit, Idle
  <2> QED
    BY <1>1, <1>4, <2>2, <2>4, QuietCall
<1> QED
  BY <1>3, <1>4, StripeCases

LEMMA DeleteRAID1CompositionKeeps ==
    ASSUME RaidInv, DeleteRAID1Composition, served' \in 0..MaxRequests
    PROVE  RaidInv'
<1>1. call.pc = "cleanup" /\ DOMAIN call = DOMAIN Idle /\ LayoutInv(lib) /\ LayoutInv(disk)
  BY DEF DeleteRAID1Composition, RaidInv, CallInv
<1>2. CASE /\ \/ CanRemoveMd(lib, Head(call.mirrors)) /\ Commit(MdRemoved(lib, Head(call.mirrors)))
              \/ UNCHANGED <<lib, disk>>
           /\ call' = [call EXCEPT !.mirrors = Tail(@)]
           /\ UNCHANGED <<graph, needScan, reply>>
  <2>1. LayoutInv(lib)' /\ LayoutInv(disk)'
    BY <1>1, <1>2, MdRemovedIsSound DEF Commit
  <2>2. DOMAIN call' = DOMAIN Idle /\ call'.pc = "cleanup"
    BY <1>1, <1>2 DEF Idle
  <2> QED
    BY <1>1, <1>2, <2>1, <2>2, QuietCall
<1>3. CASE call' = Exit("FAILED") /\ UNCHANGED <<lib, disk, graph, needScan, reply>>
  <2>1. LayoutInv(lib)' /\ LayoutInv(disk)'
    BY <1>1, <1>3
  <2> QED
    BY <1>1, <1>3, <2>1, ExitKeeps
<1>4. CASE Ends("died")
  BY <1>4, EndsIsSound
<1> QED
  BY <1>2, <1>3, <1>4 DEF DeleteRAID1Composition

-----------------------------------------------------------------------------
(***************************************************************************)
(* Deletion                                                                *)
(***************************************************************************)
LEMMA RemoveGroupKeeps ==
    ASSUME RaidInv, RemoveGroup, served' \in 0..MaxRequests
    PROVE  RaidInv'
<1>1. /\ call.pc = "delete" /\ UNCHANGED <<disk, graph, needScan>>
      /\ lib' = VgRemoved(lib, call.pool) \/ lib' = lib
  BY DEF RemoveGroup, Staged
<1>2. LayoutInv(lib)' /\ LayoutInv(disk)'
  <2>1. IsSeq(<<>>)
    BY DEF IsSeq
  <2> QED
    BY <1>1, <2>1, GroupsAreSound DEF RaidInv
<1>3. DOMAIN call = DOMAIN Idle
  BY DEF RaidInv, CallInv
<1>4. DOMAIN call' = DOMAIN Idle /\ call'.pc = "remove"
  BY <1>3 DEF RemoveGroup, Idle
<1> QED
  BY <1>1, <1>2, <1>4, QuietCall

LEMMA RemoveNextKeeps ==
    ASSUME RaidInv, RemoveNext, served' \in 0..MaxRequests
    PROVE  RaidInv'
<1> DEFINE x == Head(call.plan)
<1>1. call.pc = "remove" /\ UNCHANGED <<graph, needScan>> /\ DOMAIN call = DOMAIN Idle
  BY DEF RemoveNext, RaidInv, CallInv
<1>2. \/ CanRemoveMd(lib, x[3]) /\ lib' = MdRemoved(lib, x[3]) /\ disk' = disk
      \/ lib' = PartitionRemoved(lib, x) /\ disk' = lib'
      \/ lib' = lib /\ disk' \in {disk, lib}
  BY DEF RemoveNext, Staged, Commit
<1>3. LayoutInv(lib)' /\ LayoutInv(disk)'
  BY <1>2, MdRemovedIsSound, PartitionRemovedIsSound DEF RaidInv
<1>4. \E rc : call' = [call EXCEPT !.plan = Tail(@), !.rc = rc]
  BY DEF RemoveNext
<1>5. DOMAIN call' = DOMAIN Idle /\ call'.pc = "remove"
  BY <1>1, <1>4 DEF Idle
<1> QED
  BY <1>1, <1>3, <1>5, QuietCall

LEMMA RemovedKeeps ==
    ASSUME RaidInv, Removed, served' \in 0..MaxRequests
    PROVE  RaidInv'
<1>1. /\ call.pc = "remove" /\ UNCHANGED <<graph, needScan>> /\ call' = Exit(call.rc)
      /\ lib' = lib /\ disk' = lib
  BY DEF Removed, Commit
<1>2. LayoutInv(lib)' /\ LayoutInv(disk)'
  BY <1>1 DEF RaidInv
<1> QED
  BY <1>1, <1>2, ExitKeeps

-----------------------------------------------------------------------------
(***************************************************************************)
(* The theorems                                                            *)
(***************************************************************************)
LEMMA NextIsSound == RaidInv /\ [Next]_vars => RaidInv'
<1> SUFFICES ASSUME RaidInv, [Next]_vars PROVE RaidInv'
  OBVIOUS
<1>1. served \in 0..MaxRequests /\ MaxRequests \in Nat
  BY RaidAssumption DEF RaidInv, TypeOK
<1>2. CASE served < MaxRequests /\ served' = served + 1 /\ Request
  <2>1. served' \in 0..MaxRequests
    BY <1>1, <1>2
  <2> QED
    BY <1>2, <2>1, RequestCreateKeeps, RequestDeleteKeeps, UsePoolKeeps DEF Request
<1>3. CASE Step /\ UNCHANGED served
  <2>1. served' \in 0..MaxRequests
    BY <1>1, <1>3
  <2> QED
    BY <1>3, <2>1, EnterKeeps, RefusalsKeep, ChooseExtentsKeeps, ExtentPartitionKeeps, CompositionsKeep,
       CreateMirrorKeeps, CreateStripeKeeps, DeleteRAID1CompositionKeeps, RemoveGroupKeeps,
       RemoveNextKeeps, RemovedKeeps, ScanAndAnswerKeeps DEF Step
<1>4. CASE Stopped /\ UNCHANGED served
  <2>1. Ends("stopped") /\ served' \in 0..MaxRequests
    BY <1>1, <1>4 DEF Stopped
  <2> QED
    BY <2>1, EndsIsSound
<1>5. CASE UNCHANGED vars
  BY <1>5 DEF vars, RaidInv, TypeOK, GraphInv, CallInv, RaidCall, Mirror
<1> QED
  BY <1>2, <1>3, <1>4, <1>5 DEF Next, Over

\* The invariant holds in every state of every behaviour.
THEOREM RaidPoolSound == Spec => []RaidInv
  BY InitIsSound, NextIsSound, PTL DEF Spec

\* The layouts of the library and of the disks are ones the scan is right for:
\* partitions inside their disk and apart, RAID devices of two levels at most,
\* whatever call fails and whenever the provider is stopped.
THEOREM LayoutsAreTyped == Spec => []TypeOK
<1>1. RaidInv => TypeOK
  BY DEF RaidInv
<1> QED
  BY <1>1, RaidPoolSound, PTL

\* No disk is ever under two members of one RAID device.
THEOREM RedundancyIsAlwaysReal == Spec => []RedundancyIsReal
<1>1. RaidInv => RedundancyIsReal
  BY DEF RaidInv, LayoutInv, Redundant, Apart, RedundancyIsReal
<1> QED
  BY <1>1, RaidPoolSound, PTL

-----------------------------------------------------------------------------
(***************************************************************************)
(* Deletion is complete                                                    *)
(***************************************************************************)

\* The number of a new partition is free on its disk.
LEMMA NewNumIsNew ==
    ASSUME NEW L, IsFiniteSet(L.part), NEW d
    PROVE  NewNum(L, d) \in Nat /\ \A p \in PartsOn(L, d) : p.num # NewNum(L, d)
<1> DEFINE c == Cardinality(L.part)
           S == PartsOn(L, d)
           T == {n \in 1..c + 1 : \A p \in S : p.num # n}
           U == {p.num : p \in S}
<1>1. c \in Nat /\ S \subseteq L.part
  BY FS_CardinalityType DEF PartsOn
<1>2. IsFiniteSet(S) /\ Cardinality(S) <= c
  BY <1>1, FS_Subset
<1>3. IsFiniteSet(U) /\ Cardinality(U) <= Cardinality(S) /\ Cardinality(U) \in Nat /\ Cardinality(S) \in Nat
  <2> DEFINE f == [p \in S |-> p.num]
  <2>1. f \in Surjection(S, U)
    BY DEF Surjection
  <2> HIDE DEF f, S, U
  <2> QED
    BY <1>2, <2>1, FS_Surjection, FS_CardinalityType
<1>4. IsFiniteSet(1..c + 1) /\ Cardinality(1..c + 1) = c + 1
  BY <1>1, FS_Interval
<1>5. T # {}
  <2> SUFFICES ASSUME T = {} PROVE FALSE
    OBVIOUS
  <2>1. 1..c + 1 \subseteq U
    <3>1. \A n \in 1..c + 1 : \E p \in S : p.num = n
      <4> HIDE DEF c, S
      <4> QED
        OBVIOUS
    <3> HIDE DEF c, S
    <3> QED
      BY <3>1
  <2> HIDE DEF S, T, U
  <2> DEFINE I == 1..c + 1
  <2>2. Cardinality(I) <= Cardinality(U)
    <3>1. I \in SUBSET U
      BY <2>1
    <3> HIDE DEF I
    <3> QED
      BY <1>3, <3>1, FS_Subset
  <2>3. Cardinality(I) = c + 1
    BY <1>4
  <2> HIDE DEF c, I
  <2> QED
    BY <1>1, <1>2, <1>3, <2>2, <2>3
<1>6. T \in SUBSET Nat
  BY <1>1
<1>7. Min(T) \in T
  <2> HIDE DEF T
  <2>1. \E n \in T : \A m \in T : n <= m
    BY <1>5, <1>6, LeastNumber
  <2> QED
    BY <2>1 DEF Min
<1>8. NewNum(L, d) = Min(T)
  BY DEF NewNum
<1> QED
  BY <1>6, <1>7, <1>8

\* Less use of the same devices, which are still there.
LEMMA DevicesKept ==
    ASSUME NEW L, DevicesOK(L), NEW M, NumsOK(M), MdsOf(M) \subseteq MdsOf(L), VgsOf(M) \subseteq VgsOf(L),
           \A n \in MdsOf(M) : L.md[n].devs = M.md[n].devs,
           \A v \in VgsOf(M) : L.vg[v].devs = M.vg[v].devs,
           \A x : DeviceExists(L, x) /\ InUse(M, x) => DeviceExists(M, x)
    PROVE  DevicesOK(M)
<1>1. MdsHold(M)
  BY DEF DevicesOK, MdsHold, InUse, MdsUsing
<1>2. VgsHold(M)
  BY DEF DevicesOK, VgsHold, InUse, VgsUsing
<1>3. OneUser(M)
  BY DEF DevicesOK, OneUser
<1> QED
  BY <1>1, <1>2, <1>3 DEF DevicesOK

LEMMA BlankDevicesOK == DevicesOK(BlankLayout)
<1>1. MdsOf(BlankLayout) = {} /\ VgsOf(BlankLayout) = {} /\ BlankLayout.part = {}
  BY DEF MdsOf, VgsOf, BlankLayout, NoMd, NoVg
<1> QED
  BY <1>1 DEF DevicesOK, MdsHold, VgsHold, OneUser, NumsOK

LEMMA PartitionCreatedDevices ==
    ASSUME NEW L, LayoutInv(L), DevicesOK(L), NEW d, NEW start, NEW n
    PROVE  DevicesOK(PartitionCreated(L, d, start, n))
<1> DEFINE p == [disk |-> d, num |-> NewNum(L, d), start |-> start, size |-> n]
           M == PartitionCreated(L, d, start, n)
<1>1. M.md = L.md /\ M.vg = L.vg /\ M.part = L.part \cup {p}
  BY DEF PartitionCreated, LayoutInv
<1>2. p.disk = d /\ p.num = NewNum(L, d)
  OBVIOUS
<1>3. NewNum(L, d) \in Nat /\ \A q \in PartsOn(L, d) : q.num # NewNum(L, d)
  BY NewNumIsNew DEF LayoutInv, PartsOK
<1> HIDE DEF p, M
<1>4. NumsOK(M)
  BY <1>1, <1>2, <1>3 DEF NumsOK, DevicesOK, PartsOn
<1>5. MdsOf(M) = MdsOf(L) /\ VgsOf(M) = VgsOf(L)
  BY <1>1 DEF MdsOf, VgsOf
<1>6. \A x : DeviceExists(L, x) => DeviceExists(M, x)
  BY <1>1, <1>5 DEF DeviceExists
<1>7. DevicesOK(M)
  BY <1>1, <1>4, <1>5, <1>6, DevicesKept
<1> QED
  BY <1>7 DEF M

LEMMA PartitionRemovedDevices ==
    ASSUME NEW L, LayoutInv(L), DevicesOK(L), NEW x, ~InUse(L, x)
    PROVE  DevicesOK(PartitionRemoved(L, x))
<1> DEFINE M == PartitionRemoved(L, x)
<1>1. M.md = L.md /\ M.vg = L.vg /\ M.part = {p \in L.part : Part(p) # x}
  BY DEF PartitionRemoved, LayoutInv
<1> HIDE DEF M
<1>2. NumsOK(M)
  BY <1>1 DEF NumsOK, DevicesOK
<1>3. MdsOf(M) = MdsOf(L) /\ VgsOf(M) = VgsOf(L)
  BY <1>1 DEF MdsOf, VgsOf
<1>4. ~InUse(M, x)
  BY <1>1, <1>3 DEF InUse, MdsUsing, VgsUsing
<1>5. \A y : DeviceExists(L, y) /\ y # x => DeviceExists(M, y)
  BY <1>1, <1>3 DEF DeviceExists
<1>6. DevicesOK(M)
  BY <1>1, <1>2, <1>3, <1>4, <1>5, DevicesKept
<1> QED
  BY <1>6 DEF M

LEMMA MdRemovedDevices ==
    ASSUME NEW L, LayoutInv(L), DevicesOK(L), NEW n, CanRemoveMd(L, n)
    PROVE  DevicesOK(MdRemoved(L, n))
<1> DEFINE M == MdRemoved(L, n)
<1>1. /\ M.part = L.part /\ M.vg = L.vg /\ M.md = [L.md EXCEPT ![n] = NoMd]
      /\ n \in MdsOf(L) /\ DOMAIN L.md = MdNums /\ ~InUse(L, Md(n))
  BY DEF MdRemoved, LayoutInv, CanRemoveMd
<1> HIDE DEF M
<1>2. M.md[n] = NoMd /\ \A k \in MdNums : k # n => M.md[k] = L.md[k]
  BY <1>1 DEF MdsOf
<1>3. MdsOf(M) = MdsOf(L) \ {n} /\ VgsOf(M) = VgsOf(L) /\ MdsOf(M) \subseteq MdNums
  BY <1>1, <1>2 DEF MdsOf, VgsOf, NoMd
<1>4. \A k \in MdsOf(M) : L.md[k].devs = M.md[k].devs
  BY <1>2, <1>3
<1>5. NumsOK(M)
  BY <1>1 DEF NumsOK, DevicesOK
<1>6. ~InUse(M, Md(n))
  BY <1>1, <1>3, <1>4 DEF InUse, MdsUsing, VgsUsing
<1>7. \A y : DeviceExists(L, y) /\ y # Md(n) => DeviceExists(M, y)
  BY <1>1, <1>3 DEF DeviceExists
<1>8. DevicesOK(M)
  BY <1>1, <1>3, <1>4, <1>5, <1>6, <1>7, DevicesKept
<1> QED
  BY <1>8 DEF M

LEMMA VgRemovedDevices ==
    ASSUME NEW L, LayoutInv(L), DevicesOK(L), NEW v
    PROVE  /\ DevicesOK(VgRemoved(L, v)) /\ v \notin VgsOf(VgRemoved(L, v))
           /\ VgRemoved(L, v).md = L.md /\ VgRemoved(L, v).part = L.part
           /\ \A x : VgsUsing(VgRemoved(L, v), x) = VgsUsing(L, x) \ {v}
<1> DEFINE M == VgRemoved(L, v)
<1>1. M.part = L.part /\ M.md = L.md /\ M.vg = [L.vg EXCEPT ![v] = NoVg] /\ DOMAIN L.vg = VgNames
  BY DEF VgRemoved, LayoutInv, GroupsOK
<1> HIDE DEF M
<1>2. \A w \in VgNames : w # v => M.vg[w] = L.vg[w]
  BY <1>1
<1>3. v \in VgNames => M.vg[v].devs = <<>>
  BY <1>1 DEF NoVg
<1>4. MdsOf(M) = MdsOf(L) /\ VgsOf(M) = VgsOf(L) \ {v}
  BY <1>1, <1>2, <1>3 DEF MdsOf, VgsOf
<1>5. \A w \in VgsOf(M) : L.vg[w].devs = M.vg[w].devs
  BY <1>2, <1>4 DEF VgsOf
<1>6. NumsOK(M) /\ \A x : DeviceExists(L, x) => DeviceExists(M, x)
  BY <1>1, <1>4 DEF NumsOK, DevicesOK, DeviceExists
<1>7. DevicesOK(M)
  BY <1>1, <1>4, <1>5, <1>6, DevicesKept
<1>8. \A x : VgsUsing(M, x) = VgsUsing(L, x) \ {v}
  BY <1>4, <1>5 DEF VgsUsing
<1> QED
  BY <1>1, <1>4, <1>7, <1>8 DEF M

LEMMA LvCreatedDevices ==
    ASSUME NEW L, LayoutInv(L), DevicesOK(L), NEW v, NEW l, NEW n
    PROVE  DevicesOK(LvCreated(L, v, l, n))
<1> DEFINE M == LvCreated(L, v, l, n)
<1>1. /\ M.part = L.part /\ M.md = L.md /\ DOMAIN L.vg = VgNames
      /\ \A w \in VgNames : DOMAIN L.vg[w] = {"devs", "lvs"}
      /\ M.vg = [L.vg EXCEPT ![v].lvs[l] = n]
  BY DEF LvCreated, LayoutInv, GroupsOK
<1> HIDE DEF M
<1>2. \A w \in VgNames : M.vg[w].devs = L.vg[w].devs
  BY <1>1
<1>3. MdsOf(M) = MdsOf(L) /\ VgsOf(M) = VgsOf(L) /\ VgsOf(M) \subseteq VgNames
  BY <1>1, <1>2 DEF MdsOf, VgsOf
<1>4. NumsOK(M) /\ \A x : DeviceExists(L, x) => DeviceExists(M, x)
  BY <1>1, <1>3 DEF NumsOK, DevicesOK, DeviceExists
<1>5. DevicesOK(M)
  BY <1>1, <1>2, <1>3, <1>4, DevicesKept
<1> QED
  BY <1>5 DEF M

LEMMA MdCreatedDevices ==
    ASSUME NEW L, LayoutInv(L), DevicesOK(L), NEW level \in {0, 1, 5}, NEW xs, CanCreateMd(L, level, xs)
    PROVE  /\ DevicesOK(MdCreated(L, level, xs))
           /\ DOMAIN MdCreated(L, level, xs).vg = VgNames
<1> DEFINE M == MdCreated(L, level, xs)
           n == NewMd(L)
           e == [level |-> level, devs |-> xs, size |-> MdBytes(L, level, xs)]
<1>1. n \in MdNums /\ n \notin MdsOf(L)
  BY NewMdIsNew DEF CanCreateMd
<1>2. /\ M.part = L.part /\ M.vg = L.vg /\ M.md = [L.md EXCEPT ![n] = e] /\ DOMAIN L.md = MdNums
      /\ DOMAIN L.vg = VgNames
  BY DEF MdCreated, LayoutInv, GroupsOK
<1>3. e.level = level /\ e.devs = xs /\ level # NoLevel
  BY DEF NoLevel
<1> HIDE DEF M, n, e
<1>4. M.md[n] = e /\ \A k \in MdNums : k # n => M.md[k] = L.md[k]
  BY <1>1, <1>2
<1>5. MdsOf(M) = MdsOf(L) \cup {n} /\ (\A k \in MdsOf(L) : M.md[k] = L.md[k]) /\ VgsOf(M) = VgsOf(L)
  BY <1>1, <1>2, <1>3, <1>4 DEF MdsOf, VgsOf
<1>6. ToSet(xs) # {} /\ \A x \in ToSet(xs) : DeviceExists(L, x) /\ ~InUse(L, x)
  <2>1. Cardinality(ToSet(xs)) >= 2
    BY DEF CanCreateMd, Unused
  <2>2. Cardinality({}) = 0
    BY FS_EmptySet
  <2> QED
    BY <2>1, <2>2 DEF CanCreateMd, Unused
<1>7. \A x : DeviceExists(L, x) => DeviceExists(M, x)
  BY <1>2, <1>5 DEF DeviceExists
<1>8. MdsHold(M)
  BY <1>3, <1>4, <1>5, <1>6, <1>7 DEF MdsHold, DevicesOK
<1>9. VgsHold(M) /\ NumsOK(M)
  BY <1>2, <1>5, <1>7 DEF VgsHold, NumsOK, DevicesOK
<1>10. /\ \A k \in MdsOf(L) : ToSet(xs) \cap ToSet(L.md[k].devs) = {}
       /\ \A v \in VgsOf(L) : ToSet(xs) \cap ToSet(L.vg[v].devs) = {}
  BY <1>6 DEF InUse, MdsUsing, VgsUsing
<1>11. OneUser(M)
  <2>1. OneUser(L)
    BY DEF DevicesOK
  <2>2. \A k, m \in MdsOf(M) : ToSet(M.md[k].devs) \cap ToSet(M.md[m].devs) # {} => k = m
    BY <1>3, <1>4, <1>5, <1>10, <2>1 DEF OneUser
  <2>3. \A k \in MdsOf(M), v \in VgsOf(M) : ToSet(M.md[k].devs) \cap ToSet(M.vg[v].devs) = {}
    BY <1>2, <1>3, <1>4, <1>5, <1>10, <2>1 DEF OneUser
  <2> QED
    BY <1>2, <1>5, <2>1, <2>2, <2>3 DEF OneUser
<1> QED
  BY <1>2, <1>8, <1>9, <1>11 DEF DevicesOK, M

LEMMA VgCreatedDevices ==
    ASSUME NEW L, DevicesOK(L), DOMAIN L = {"part", "md", "vg"}, DOMAIN L.vg = VgNames,
           \A w \in VgNames : DOMAIN L.vg[w] = {"devs", "lvs"},
           NEW v, NEW xs, CanCreateVg(L, v, xs)
    PROVE  DevicesOK(VgCreated(L, v, xs))
<1> DEFINE M == VgCreated(L, v, xs)
<1>1. M.part = L.part /\ M.md = L.md /\ M.vg = [L.vg EXCEPT ![v].devs = xs]
  BY DEF VgCreated
<1> HIDE DEF M
<1>2. /\ \A w \in VgNames : w # v => M.vg[w] = L.vg[w]
      /\ v \in VgNames => M.vg[v].devs = xs
  BY <1>1
<1>3. MdsOf(M) = MdsOf(L) /\ VgsOf(M) \subseteq VgsOf(L) \cup {v} /\ VgsOf(M) \subseteq VgNames
  BY <1>1, <1>2 DEF MdsOf, VgsOf
<1>4. \A x : DeviceExists(L, x) => DeviceExists(M, x)
  BY <1>1, <1>3 DEF DeviceExists
<1>5. v \notin VgsOf(L) /\ \A x \in ToSet(xs) : DeviceExists(L, x) /\ ~InUse(L, x)
  BY DEF CanCreateVg, Unused
<1>6. VgsHold(M)
  BY <1>2, <1>3, <1>4, <1>5 DEF VgsHold, DevicesOK
<1>7. MdsHold(M) /\ NumsOK(M)
  BY <1>1, <1>3, <1>4 DEF MdsHold, NumsOK, DevicesOK
<1>8. /\ \A k \in MdsOf(L) : ToSet(L.md[k].devs) \cap ToSet(xs) = {}
      /\ \A w \in VgsOf(L) : ToSet(L.vg[w].devs) \cap ToSet(xs) = {}
  BY <1>5 DEF InUse, MdsUsing, VgsUsing
<1>9. OneUser(M)
  <2>1. OneUser(L)
    BY DEF DevicesOK
  <2>2. \A u, w \in VgsOf(M) : ToSet(M.vg[u].devs) \cap ToSet(M.vg[w].devs) # {} => u = w
    <3>1. \A u \in VgsOf(M) : \/ u \in VgsOf(L) /\ u # v /\ M.vg[u] = L.vg[u]
                              \/ u = v /\ M.vg[u].devs = xs
      BY <1>2, <1>3, <1>5
    <3> QED
      BY <1>8, <2>1, <3>1 DEF OneUser
  <2>3. \A k \in MdsOf(M), w \in VgsOf(M) : ToSet(M.md[k].devs) \cap ToSet(M.vg[w].devs) = {}
    BY <1>1, <1>2, <1>3, <1>5, <1>8, <2>1 DEF OneUser
  <2> QED
    BY <1>1, <1>3, <2>1, <2>2, <2>3 DEF OneUser
<1> QED
  BY <1>6, <1>7, <1>9 DEF DevicesOK, M

LEMMA GroupedDevices ==
    ASSUME NEW L, DevicesOK(L), DOMAIN L = {"part", "md", "vg"}, DOMAIN L.vg = VgNames,
           \A w \in VgNames : DOMAIN L.vg[w] = {"devs", "lvs"},
           NEW v, NEW xs, NEW r \in Grouped(L, v, xs)
    PROVE  DevicesOK(r.lib)
<1>1. (r.lib = VgCreated(L, v, xs) /\ CanCreateVg(L, v, xs)) \/ r.lib = L
  BY DEF Grouped
<1> QED
  BY <1>1, VgCreatedDevices

LEMMA ComposedDevices ==
    ASSUME NEW L, LayoutInv(L), DevicesOK(L), NEW level \in {0, 1, 5}, NEW xs, NEW v,
           NEW r \in Composed(L, level, xs, v)
    PROVE  DevicesOK(r.lib)
<1> DEFINE made == MdCreated(L, level, xs)
<1>1. CASE ~CanCreateMd(L, level, xs)
  <2>1. r.lib = L
    BY <1>1 DEF Composed
  <2> QED
    BY <2>1
<1>2. CASE CanCreateMd(L, level, xs)
  <2>1. DevicesOK(made)
    BY <1>2, MdCreatedDevices
  <2>2. /\ DOMAIN made = {"part", "md", "vg"} /\ DOMAIN made.vg = VgNames
        /\ \A w \in VgNames : DOMAIN made.vg[w] = {"devs", "lvs"}
    BY DEF MdCreated, LayoutInv, GroupsOK
  <2>3. r \in Grouped(made, v, <<Md(NewMd(L))>>) \/ r.lib = L \/ r.lib = made
    BY <1>2 DEF Composed
  <2> HIDE DEF made
  <2> QED
    BY <2>1, <2>2, <2>3, GroupedDevices
<1> QED
  BY <1>1, <1>2

\* All layouts there are, on the disks or staged, are such: no step builds two
\* things on one device or takes away a device that something is on.
DevicesInv == DevicesOK(lib) /\ DevicesOK(disk)

LEMMA NextDevices == RaidInv /\ DevicesInv /\ [Next]_vars => DevicesInv'
<1> SUFFICES ASSUME RaidInv, DevicesInv, [Next]_vars PROVE DevicesInv'
  OBVIOUS
<1>1. LayoutInv(lib) /\ DevicesOK(lib) /\ DevicesOK(disk)
  BY DEF RaidInv, DevicesInv
\* A step moves to a layout, or to one of the two there are.
<1>2. ASSUME NEW L, DevicesOK(L), \/ Commit(L) \/ Staged(L)
      PROVE  DevicesInv'
  BY <1>1, <1>2 DEF Commit, Staged, DevicesInv
<1>3. UNCHANGED <<lib, disk>> => DevicesInv'
  BY <1>1 DEF DevicesInv
<1>4. ASSUME NEW how, Ends(how) PROVE DevicesInv'
  BY <1>1, <1>4 DEF Ends, DevicesInv
<1>6. ASSUME NEW results, Finish(results), \A r \in results : DevicesOK(r.lib)
      PROVE  DevicesInv'
  <2>1. Ends("died") \/ \E r \in results : Commit(r.lib)
    BY <1>6, FinishCases
  <2> QED
    BY <1>2, <1>4, <1>6, <2>1
<1>7. \A xs, v : \A level \in {0, 1, 5} : \A r \in Composed(lib, level, xs, v) : DevicesOK(r.lib)
  BY <1>1, ComposedDevices
<1>8. CASE RequestCreate \/ RequestDelete \/ RefuseGoalOrSize \/ ChooseExtents \/ NoBranch \/ RefuseUsedPool
  <2>1. CASE RequestCreate \/ RequestDelete
    <3>1. RequestCreate => UNCHANGED <<lib, disk, graph, needScan>>
      BY Zenon DEF RequestCreate
    <3>2. RequestDelete => UNCHANGED <<lib, disk, graph, needScan>>
      BY Zenon DEF RequestDelete
    <3> QED
      BY <1>3, <2>1, <3>1, <3>2
  <2>2. CASE RefuseGoalOrSize \/ RefuseUsedPool
    BY <1>3, <2>2 DEF RefuseGoalOrSize, RefuseUsedPool
  <2>3. CASE ChooseExtents
    BY <1>3, <2>3 DEF ChooseExtents
  <2>4. CASE NoBranch
    BY <1>3, <2>4 DEF NoBranch
  <2> QED
    BY <1>8, <2>1, <2>2, <2>3, <2>4
<1>9. CASE UsePool
  <2>1. PICK v, l : Commit(LvCreated(lib, v, l, OneKB))
    BY <1>9 DEF UsePool
  <2> QED
    BY <1>1, <1>2, <2>1, LvCreatedDevices
<1>10. CASE Enter \/ ScanAndAnswer
  <2>1. \/ Ends("died") \/ UNCHANGED <<lib, disk>>
    BY <1>10 DEF Enter, ScanAndAnswer, ScanStorage
  <2> QED
    BY <1>3, <1>4, <2>1
<1>11. CASE ExtentPartition
  <2>1. \/ \E d, start, n : Commit(PartitionCreated(lib, d, start, n))
        \/ UNCHANGED <<lib, disk>>
    BY <1>11 DEF ExtentPartition
  <2> QED
    BY <1>1, <1>2, <1>3, <2>1, PartitionCreatedDevices
<1>12. CASE CreateJBODComposition
  <2>1. Finish(Grouped(lib, call.pool, Reverse(call.devs)))
    BY <1>12 DEF CreateJBODComposition
  <2>2. \A r \in Grouped(lib, call.pool, Reverse(call.devs)) : DevicesOK(r.lib)
    BY <1>1, GroupedDevices DEF LayoutInv, GroupsOK
  <2> QED
    BY <1>6, <2>1, <2>2
<1>13. CASE CreateRAID0Composition \/ CreateRAID1Composition \/ CreateRAID5Composition
  <2>1. PICK level \in {0, 1, 5} : Finish(Composed(lib, level, call.devs, call.pool))
    BY <1>13 DEF CreateRAID0Composition, CreateRAID1Composition, CreateRAID5Composition
  <2>2. \A r \in Composed(lib, level, call.devs, call.pool) : DevicesOK(r.lib)
    BY <1>7
  <2> QED
    BY <1>6, <2>1, <2>2
<1>14. CASE CreateMirror
  <2>1. \/ \E how : Ends(how)
        \/ \E i : CanCreateMd(lib, 1, Mirror(i)) /\ Commit(MdCreated(lib, 1, Mirror(i)))
        \/ UNCHANGED <<lib, disk>>
    BY <1>14 DEF CreateMirror
  <2> QED
    BY <1>1, <1>2, <1>3, <1>4, <2>1, MdCreatedDevices
<1>15. CASE CreateStripe
  <2>1. Ends("died") \/ \E r \in Composed(lib, 0, StripeOver, call.pool) : Commit(r.lib)
    BY <1>15, StripeCases
  <2>2. \A r \in Composed(lib, 0, StripeOver, call.pool) : DevicesOK(r.lib)
    BY <1>7
  <2> QED
    BY <1>2, <1>4, <2>1, <2>2
<1>16. CASE DeleteRAID1Composition
  <2>1. \/ \E how : Ends(how)
        \/ \E n : CanRemoveMd(lib, n) /\ Commit(MdRemoved(lib, n))
        \/ UNCHANGED <<lib, disk>>
    BY <1>16 DEF DeleteRAID1Composition
  <2> QED
    BY <1>1, <1>2, <1>3, <1>4, <2>1, MdRemovedDevices
<1>17. CASE RemoveGroup
  <2>1. Staged(VgRemoved(lib, call.pool)) \/ Staged(lib)
    BY <1>17 DEF RemoveGroup
  <2> QED
    BY <1>1, <1>2, <2>1, VgRemovedDevices
<1>18. CASE RemoveNext
  <2>1. \/ \E n : CanRemoveMd(lib, n) /\ Staged(MdRemoved(lib, n))
        \/ \E x : CanRemovePartition(lib, x) /\ Commit(PartitionRemoved(lib, x))
        \/ Staged(lib) \/ Commit(lib)
    BY <1>18 DEF RemoveNext
  <2> QED
    BY <1>1, <1>2, <2>1, MdRemovedDevices, PartitionRemovedDevices DEF CanRemovePartition
<1>19. CASE Removed
  BY <1>1, <1>2, <1>19 DEF Removed
<1>20. CASE Stopped
  BY <1>4, <1>20 DEF Stopped
<1>21. CASE UNCHANGED vars
  BY <1>3, <1>21 DEF vars
<1> QED
  BY <1>8, <1>9, <1>10, <1>11, <1>12, <1>13, <1>14, <1>15, <1>16, <1>17, <1>18, <1>19, <1>20, <1>21
     DEF Next, Over, Request, Step

\* What is on a device is a RAID device that a list of devices to be removed
\* has before it, or one of K.
UsersFirst(L, s, K) ==
    \A i \in DOMAIN s : /\ VgsUsing(L, s[i]) = {}
                        /\ \A n \in MdsUsing(L, s[i]) : n \in K \/ \E j \in DOMAIN s : j < i /\ s[j] = Md(n)

LEMMA NoneIsFirst ==
    ASSUME NEW L, NEW K
    PROVE  IsSeq(<<>>) /\ UsersFirst(L, <<>>, K)
  BY DEF IsSeq, UsersFirst

LEMMA OneIsFirst ==
    ASSUME NEW L, NEW K, NEW x, VgsUsing(L, x) = {}, MdsUsing(L, x) \subseteq K
    PROVE  IsSeq(<<x>>) /\ UsersFirst(L, <<x>>, K) /\ ToSet(<<x>>) = {x}
<1>1. ToSet(<<x>>) = {x}
  BY DEF ToSet
<1>2. IsSeq(<<x>>)
  BY <1>1 DEF IsSeq
<1> QED
  BY <1>1, <1>2 DEF UsersFirst

LEMMA MoreUsersFirst ==
    ASSUME NEW L, NEW s, NEW K, UsersFirst(L, s, K), NEW J, K \subseteq J
    PROVE  UsersFirst(L, s, J)
  BY DEF UsersFirst

\* One list after another, whose users may be in the first.
LEMMA UsersFirstJoined ==
    ASSUME NEW L, NEW K, NEW s, IsSeq(s), UsersFirst(L, s, K),
           NEW t, IsSeq(t), UsersFirst(L, t, K \cup {n \in MdNums : Md(n) \in ToSet(s)})
    PROVE  IsSeq(s \o t) /\ UsersFirst(L, s \o t, K) /\ ToSet(s \o t) = ToSet(s) \cup ToSet(t)
<1> DEFINE S == ToSet(s) \cup ToSet(t)
           r == s \o t
           m == Len(s)
           n == Len(t)
<1>1. s \in Seq(S) /\ t \in Seq(S)
  <2> DEFINE A == ToSet(s)
             B == ToSet(t)
  <2>1. s \in Seq(A) /\ t \in Seq(B)
    BY DEF IsSeq
  <2> HIDE DEF A, B
  <2>2. s \in Seq(A \cup B) /\ t \in Seq(A \cup B)
    BY <2>1
  <2> QED
    BY <2>2 DEF A, B
<1> HIDE DEF S
<1>2. /\ m \in Nat /\ n \in Nat /\ DOMAIN s = 1..m /\ DOMAIN t = 1..n /\ DOMAIN r = 1..m + n
      /\ r \in Seq(S) /\ \A i \in 1..m : r[i] = s[i]
      /\ \A i \in 1..n : r[m + i] = t[i] /\ m + i \in 1..m + n
  BY <1>1
<1> HIDE DEF r, m, n
<1>3. \A i \in 1..m + n : i \in 1..m \/ (i - m \in 1..n /\ i = m + (i - m))
  BY <1>2
<1>4. ToSet(r) = S
  <2>1. \A i \in DOMAIN r : r[i] \in S
    BY <1>2
  <2>2. \A i \in DOMAIN s : i \in DOMAIN r /\ r[i] = s[i]
    BY <1>2
  <2>3. \A i \in DOMAIN t : m + i \in DOMAIN r /\ r[m + i] = t[i]
    BY <1>2
  <2> QED
    BY <2>1, <2>2, <2>3 DEF ToSet, S
<1>5. UsersFirst(L, r, K)
  <2>1. ASSUME NEW i \in 1..m
        PROVE  /\ VgsUsing(L, r[i]) = {}
               /\ \A k \in MdsUsing(L, r[i]) : k \in K \/ \E j \in DOMAIN r : j < i /\ r[j] = Md(k)
    <3>1. r[i] = s[i] /\ i \in DOMAIN s
      BY <1>2
    <3>2. \A j \in DOMAIN s : j \in DOMAIN r /\ r[j] = s[j]
      BY <1>2
    <3> QED
      BY <3>1, <3>2 DEF UsersFirst
  <2>2. ASSUME NEW i \in 1..n
        PROVE  /\ VgsUsing(L, r[m + i]) = {}
               /\ \A k \in MdsUsing(L, r[m + i]) : k \in K \/ \E j \in DOMAIN r : j < m + i /\ r[j] = Md(k)
    <3>1. r[m + i] = t[i] /\ i \in DOMAIN t
      BY <1>2
    <3>2. \A j \in DOMAIN s : j \in DOMAIN r /\ r[j] = s[j] /\ j < m + i
      BY <1>2
    <3>3. \A j \in DOMAIN t : m + j \in DOMAIN r /\ r[m + j] = t[j] /\ (j < i => m + j < m + i)
      BY <1>2
    <3>4. ASSUME NEW k \in MdsUsing(L, t[i])
          PROVE  k \in K \/ \E j \in DOMAIN r : j < m + i /\ r[j] = Md(k)
      <4>1. CASE k \in K
        BY <4>1
      <4>2. CASE Md(k) \in ToSet(s)
        BY <3>2, <4>2 DEF ToSet
      <4>3. CASE \E j \in DOMAIN t : j < i /\ t[j] = Md(k)
        BY <3>3, <4>3
      <4> QED
        BY <3>1, <4>1, <4>2, <4>3 DEF UsersFirst
    <3> QED
      BY <3>1, <3>4 DEF UsersFirst
  <2>3. ASSUME NEW i \in DOMAIN r
        PROVE  /\ VgsUsing(L, r[i]) = {}
               /\ \A k \in MdsUsing(L, r[i]) : k \in K \/ \E j \in DOMAIN r : j < i /\ r[j] = Md(k)
    <3>1. CASE i \in 1..m
      BY <2>1, <3>1
    <3>2. CASE i - m \in 1..n /\ i = m + (i - m)
      BY <2>2, <3>2
    <3> QED
      BY <1>2, <1>3, <3>1, <3>2
  <2> QED
    BY <2>3 DEF UsersFirst
<1>6. IsSeq(r)
  BY <1>2, <1>4 DEF IsSeq
<1> QED
  BY <1>4, <1>5, <1>6 DEF S, r

\* Many lists, one after the other.
LEMMA FlattenRecursion ==
    ASSUME NEW s, NEW N \in Nat
    PROVE  \E g : g = [i \in 1..N |-> IF i = 1 THEN s[i] ELSE g[i - 1] \o s[i]]
<1> DEFINE F(x, i) == x \o s[i]
           Is(g, n) == g = [i \in 1..n |-> IF i = 1 THEN s[i] ELSE F(g[i - 1], i)]
           T == {n \in Nat : ~ \E g : Is(g, n)}
<1>1. ASSUME T # {}
      PROVE  FALSE
  <2>1. PICK n \in T : \A m \in T : n <= m
    <3> HIDE DEF T
    <3>1. T \in SUBSET Nat
      BY DEF T
    <3> QED
      BY <1>1, <3>1, LeastNumber
  <2>2. n # 0
    <3>1. Is([i \in 1..0 |-> s], 0)
      OBVIOUS
    <3> HIDE DEF Is
    <3> QED
      BY <3>1
  <2>3. n \in Nat /\ n - 1 \in Nat /\ ~(n <= n - 1)
    BY <2>2
  <2>4. PICK g : Is(g, n - 1)
    <3> HIDE DEF Is
    <3> QED
      BY <2>1, <2>3
  <2> DEFINE h == [i \in 1..n |-> IF i = n THEN (IF n = 1 THEN s[1] ELSE F(g[n - 1], n)) ELSE g[i]]
  <2>5. Is(h, n)
    <3> HIDE DEF F
    <3>1. \A i \in 1..n - 1 : h[i] = g[i] /\ g[i] = IF i = 1 THEN s[i] ELSE F(g[i - 1], i)
      BY <2>3, <2>4
    <3>2. ASSUME NEW i \in 1..n
          PROVE  h[i] = IF i = 1 THEN s[i] ELSE F(h[i - 1], i)
      <4>1. CASE i = n
        <5>1. n # 1 => n - 1 \in 1..n - 1
          BY <2>2, <2>3
        <5> QED
          BY <2>2, <2>3, <3>1, <4>1, <5>1
      <4>2. CASE i # n
        <5>1. i \in 1..n - 1 /\ (i # 1 => i - 1 \in 1..n - 1)
          BY <2>3, <4>2
        <5> QED
          BY <3>1, <5>1
      <4> QED
        BY <4>1, <4>2
    <3> HIDE DEF h
    <3>3. h = [i \in 1..n |-> h[i]]
      BY DEF h
    <3> QED
      BY <3>2, <3>3
  <2> HIDE DEF h, Is
  <2> QED
    BY <2>1, <2>5
<1> HIDE DEF F
<1>2. \E g : Is(g, N)
  BY <1>1
<1> QED
  BY <1>2 DEF F

LEMMA UsersFirstFlattened ==
    ASSUME NEW L, NEW K, NEW N \in Nat, NEW s, s = [i \in 1..N |-> s[i]],
           \A i \in 1..N : IsSeq(s[i]) /\ UsersFirst(L, s[i], K)
    PROVE  /\ IsSeq(FlattenSeq(s)) /\ UsersFirst(L, FlattenSeq(s), K)
           /\ \A i \in 1..N : ToSet(s[i]) \subseteq ToSet(FlattenSeq(s))
<1>1. Len(s) = N
  OBVIOUS
<1>2. CASE N = 0
  <2>1. s = <<>> /\ FlattenSeq(s) = s
    BY <1>1, <1>2 DEF FlattenSeq
  <2> QED
    BY <1>2, <2>1, NoneIsFirst
<1>3. CASE N # 0
  <2> DEFINE F(x, i) == x \o s[i]
             g == CHOOSE f : f = [i \in 1..N |-> IF i = 1 THEN s[i] ELSE F(f[i - 1], i)]
             Good(i) == /\ IsSeq(g[i]) /\ UsersFirst(L, g[i], K)
                        /\ \A j \in 1..i : ToSet(s[j]) \subseteq ToSet(g[i])
             T == {n \in 1..N : ~Good(n)}
  <2>1. FlattenSeq(s) = g[N]
    BY <1>1, <1>3 DEF FlattenSeq
  <2>2. g = [i \in 1..N |-> IF i = 1 THEN s[i] ELSE F(g[i - 1], i)]
    <3>1. \E f : f = [i \in 1..N |-> IF i = 1 THEN s[i] ELSE F(f[i - 1], i)]
      BY FlattenRecursion
    <3> HIDE DEF F
    <3> QED
      BY <3>1
  <2>3. \A i \in 1..N : g[i] = IF i = 1 THEN s[i] ELSE F(g[i - 1], i)
    <3> HIDE DEF g, F
    <3> QED
      BY <2>2
  <2> HIDE DEF g
  <2>4. ASSUME T # {}
        PROVE  FALSE
    <3>1. PICK n \in T : \A m \in T : n <= m
      <4>1. T \in SUBSET Nat
        OBVIOUS
      <4> HIDE DEF T
      <4> QED
        BY <2>4, <4>1, LeastNumber
    <3>2. n \in 1..N /\ ~Good(n)
      OBVIOUS
    <3>3. n # 1
      <4>1. CASE n = 1
        <5>1. g[1] = s[1] /\ 1 \in 1..N
          BY <2>3, <3>2, <4>1
        <5> QED
          BY <3>2, <4>1, <5>1
      <4> QED
        BY <4>1
    <3>4. n - 1 \in 1..N /\ ~(n <= n - 1) /\ \A j \in 1..n : j \in 1..n - 1 \/ j = n
      BY <3>2, <3>3
    <3>5. Good(n - 1)
      <4> HIDE DEF Good
      <4> QED
        BY <3>1, <3>4
    <3>6. g[n] = g[n - 1] \o s[n]
      BY <2>3, <3>2, <3>3
    <3>7. UsersFirst(L, s[n], K \cup {k \in MdNums : Md(k) \in ToSet(g[n - 1])})
      BY <3>2, MoreUsersFirst
    <3>8. /\ IsSeq(g[n]) /\ UsersFirst(L, g[n], K) /\ ToSet(g[n]) = ToSet(g[n - 1]) \cup ToSet(s[n])
      BY <3>2, <3>5, <3>6, <3>7, UsersFirstJoined
    <3>9. Good(n)
      BY <3>4, <3>5, <3>8
    <3> QED
      BY <3>2, <3>9
  <2>5. Good(N)
    <3> HIDE DEF Good
    <3>1. N \in 1..N
      BY <1>3
    <3> QED
      BY <2>4, <3>1
  <2> QED
    BY <2>1, <2>5
<1> QED
  BY <1>2, <1>3

\* The devices beneath an extent: f is the recursive function of BeneathPool.
Beneath(G, f) ==
    \A x \in DOMAIN G.ext :
        f[x] = IF G.ext[x].pool = Primordial THEN {} ELSE {x} \cup UNION {f[b.ant] : b \in Antecedents(G, x)}

\* What is based on what gets lower, so that the function is defined.
LEMMA BeneathPoolIs ==
    ASSUME NEW G, NEW L, Linked(G, L), NEW v, CompositeOf(G, v) \in DOMAIN G.ext
    PROVE  \E f : Beneath(G, f) /\ BeneathPool(G, v) = f[CompositeOf(G, v)] \ {Composite(v)}
<1> DEFINE E == DOMAIN G.ext
           h(y) == Height(L, y)
           A(y) == Antecedents(G, y)
           one(f, y) == IF G.ext[y].pool = Primordial THEN {} ELSE {y} \cup UNION {f[b.ant] : b \in A(y)}
           next(f) == [y \in E |-> one(f, y)]
           f0 == [y \in E |-> {}]
           f1 == next(f0)
           f2 == next(f1)
           f3 == next(f2)
           f4 == next(f3)
           f5 == next(f4)
           f6 == next(f5)
           g == CHOOSE f : f = next(f)
           Same(e, f, n) == \A y \in E : h(y) < n => e[y] = f[y]
<1>1. \A y \in E : h(y) \in 0..5 /\ \A b \in A(y) : b.ant \in E /\ h(b.ant) \in 0..5 /\ h(b.ant) < h(y)
  BY DEF Linked, ExtentsOK, BasedOK, Antecedents
<1>2. BeneathPool(G, v) = g[CompositeOf(G, v)] \ {Composite(v)}
  BY DEF BeneathPool
<1>3. ASSUME NEW e, NEW f, NEW n \in 0..5, Same(e, f, n)
      PROVE  Same(next(e), next(f), n + 1)
  <2> SUFFICES ASSUME NEW y \in E, h(y) < n + 1 PROVE next(e)[y] = next(f)[y]
    OBVIOUS
  <2>1. \A b \in A(y) : e[b.ant] = f[b.ant]
    <3> HIDE DEF E, h, A
    <3> QED
      BY <1>1, <1>3
  <2>2. {e[b.ant] : b \in A(y)} = {f[b.ant] : b \in A(y)}
    <3> HIDE DEF A
    <3> QED
      BY <2>1
  <2>3. one(e, y) = one(f, y)
    BY <2>2
  <2> HIDE DEF one, E
  <2> QED
    BY <2>3
<1> HIDE DEF E, h, A, f0
<1>4. Same(f0, f1, 0)
  BY <1>1
<1> HIDE DEF f1, next, Same
<1>5. Same(f1, f2, 1)
  BY <1>3, <1>4 DEF f1
<1> HIDE DEF f2
<1>6. Same(f2, f3, 2)
  BY <1>3, <1>5 DEF f2
<1> HIDE DEF f3
<1>7. Same(f3, f4, 3)
  BY <1>3, <1>6 DEF f3
<1> HIDE DEF f4
<1>8. Same(f4, f5, 4)
  BY <1>3, <1>7 DEF f4
<1> HIDE DEF f5
<1>9. Same(f5, f6, 5)
  BY <1>3, <1>8 DEF f5
<1> HIDE DEF f6
<1>10. Same(f6, next(f6), 6)
  BY <1>3, <1>9 DEF f6
<1>11. f6 = next(f6)
  <2>1. \A y \in E : f6[y] = next(f6)[y]
    BY <1>1, <1>10 DEF Same
  <2>2. f6 = [y \in E |-> f6[y]] /\ next(f6) = [y \in E |-> next(f6)[y]]
    BY DEF f6, next
  <2> QED
    BY <2>1, <2>2
<1>12. g = next(g)
  <2>1. \E f : f = next(f)
    BY <1>11
  <2> QED
    BY <2>1
<1> HIDE DEF g
<1>13. \A y \in E : g[y] = one(g, y)
  <2> HIDE DEF one
  <2> QED
    BY <1>12 DEF next
<1>14. Beneath(G, g)
  BY <1>13 DEF Beneath, E, A
<1> QED
  BY <1>2, <1>14

-----------------------------------------------------------------------------
\* The arrays show layout L, and M is without the group v.
Without(G, L, M, v, f) ==
    /\ Sees(G, L) /\ Linked(G, L) /\ LayoutOK(L) /\ DevicesOK(L) /\ Beneath(G, f)
    /\ M.md = L.md /\ M.part = L.part /\ v \in VgsOf(L)
    /\ \A x : VgsUsing(M, x) = VgsUsing(L, x) \ {v}

\* List r takes away what there is beneath extent x, users first.
Clears(M, f, x, r, K) ==
    /\ IsSeq(r) /\ UsersFirst(M, r, K)
    /\ \A z \in f[x] : DeviceExists(M, z) => z \in ToSet(r)

Free(M, x, K) == VgsUsing(M, x) = {} /\ MdsUsing(M, x) \subseteq K
With(K, x) == K \cup {n \in MdNums : Md(n) \in ToSet(RemoveMd(x))}

\* A sequence of the antecedents in their order.
LEMMA BelowIs ==
    ASSUME NEW G, NEW x, Numbered(Antecedents(G, x))
    PROVE  /\ Cardinality(Antecedents(G, x)) \in Nat
           /\ Below(G, x) = [i \in 1..Cardinality(Antecedents(G, x)) |-> Below(G, x)[i]]
           /\ \A i \in 1..Cardinality(Antecedents(G, x)) :
                  \E b \in Antecedents(G, x) : b.ant = Below(G, x)[i]
           /\ \A b \in Antecedents(G, x) :
                  \E i \in 1..Cardinality(Antecedents(G, x)) : b.ant = Below(G, x)[i]
<1> DEFINE A == Antecedents(G, x)
           n == Cardinality(A)
           s == Below(G, x)
           at(i) == CHOOSE b \in A : b.order = i
<1>1. /\ n \in Nat /\ \A b \in A : b.order \in 1..n
      /\ \A b, c \in A : b.order = c.order => b = c
      /\ \A i \in 1..n : \E b \in A : b.order = i
  BY FS_CardinalityType DEF Numbered
<1>2. s = [i \in 1..n |-> at(i).ant]
  BY DEF Below
<1> HIDE DEF s, n, A
<1>3. \A i \in 1..n : at(i) \in A /\ at(i).order = i
  BY <1>1
<1>4. \A b \in A : at(b.order) = b
  BY <1>1, <1>3
<1> HIDE DEF at
<1>5. /\ s = [i \in 1..n |-> s[i]] /\ \A i \in 1..n : s[i] = at(i).ant
  BY <1>2
<1>6. \A i \in 1..n : \E b \in A : b.ant = s[i]
  BY <1>3, <1>5
<1>7. \A b \in A : \E i \in 1..n : b.ant = s[i]
  BY <1>1, <1>4, <1>5
<1> QED
  BY <1>1, <1>5, <1>6, <1>7 DEF s, n, A

\* What a RAID device or group is made of is free when its user is gone.
LEMMA MembersAreFree ==
    ASSUME NEW G, NEW L, NEW M, NEW v, NEW f, Without(G, L, M, v, f),
           NEW x \in DOMAIN G.ext, IsMd(x) \/ x = Composite(v), NEW K, NEW b \in Antecedents(G, x)
    PROVE  /\ b.ant \in DOMAIN G.ext /\ Free(M, b.ant, With(K, x))
           /\ IsMd(x) => b.ant \in ToSet(L.md[x[3]].devs)
           /\ \/ b.ant[1] = "part" /\ ~G.ext[b.ant].composite
              \/ IsMd(b.ant) /\ b.ant[3] \in MdsOf(L) /\ G.ext[b.ant].composite
<1> DEFINE y == b.ant
<1>1. y \in DOMAIN G.ext /\ EdgeSeen(b, L) /\ b.dep = x
  BY DEF Without, Sees, Linked, BasedOK, Antecedents
<1>2. SeenAs(x, G.ext[x], L, DOMAIN G.pool) /\ SeenAs(y, G.ext[y], L, DOMAIN G.pool)
  BY <1>1 DEF Without, Sees
<1>3. MdsUsing(M, y) = MdsUsing(L, y) /\ VgsUsing(M, y) = VgsUsing(L, y) \ {v} /\ v \in VgsOf(L)
  BY DEF Without, MdsUsing, MdsOf
<1>4. OneUser(L) /\ MdsHold(L) /\ VgsHold(L)
  BY DEF Without, DevicesOK
<1>5. CASE IsMd(x)
  <2>1. /\ x = Md(x[3]) /\ x[3] \in MdsOf(L) /\ y \in ToSet(L.md[x[3]].devs)
    BY <1>1, <1>2, <1>5 DEF SeenAs, EdgeSeen, IsMd
  <2>2. VgsUsing(L, y) = {} /\ MdsUsing(L, y) \subseteq {x[3]}
    BY <1>4, <2>1 DEF OneUser, VgsUsing, MdsUsing
  <2>3. x[3] \in With(K, x)
    BY <1>5, <2>1 DEF With, RemoveMd, ToSet, MdsOf
  <2>4. DeviceExists(L, y)
    BY <1>4, <2>1 DEF MdsHold
  <2> QED
    BY <1>1, <1>2, <1>3, <2>1, <2>2, <2>3, <2>4 DEF Free, DeviceExists, SeenAs, IsMd, Part, Md
<1>6. CASE x = Composite(v)
  <2>1. y \in ToSet(L.vg[v].devs)
    BY <1>1, <1>6 DEF EdgeSeen, Composite
  <2>2. VgsUsing(L, y) \subseteq {v} /\ MdsUsing(L, y) = {}
    BY <1>3, <1>4, <2>1 DEF OneUser, VgsUsing, MdsUsing
  <2>3. DeviceExists(L, y)
    BY <1>3, <1>4, <2>1 DEF VgsHold
  <2>4. ~IsMd(x)
    BY <1>6 DEF IsMd, Composite
  <2> QED
    BY <1>1, <1>2, <1>3, <2>2, <2>3, <2>4 DEF Free, DeviceExists, SeenAs, IsMd, Part, Md
<1> QED
  BY <1>5, <1>6

\* A partition,
LEMMA UnpartitionClears ==
    ASSUME NEW G, NEW L, NEW M, NEW v, NEW f, Without(G, L, M, v, f),
           NEW x \in DOMAIN G.ext, x[1] = "part", NEW K, Free(M, x, K)
    PROVE  Clears(M, f, x, Unpartition(G, x), K)
<1>1. G.ext[x].pool = NULL /\ G.ext[x].composite = FALSE /\ NULL # Primordial
  BY ScanAssumption DEF Without, Sees, SeenAs
<1>2. Unpartition(G, x) = <<x>>
  BY <1>1 DEF Unpartition
<1>3. \A b \in Antecedents(G, x) : f[b.ant] = {}
  <2> SUFFICES ASSUME NEW b \in Antecedents(G, x) PROVE f[b.ant] = {}
    OBVIOUS
  <2>1. b.ant \in DOMAIN G.ext /\ Height(L, b.ant) < Height(L, x) /\ Height(L, b.ant) \in 0..5
    BY DEF Without, Linked, BasedOK, ExtentsOK, Antecedents
  <2>2. Height(L, x) = 1
    BY DEF Height
  <2>3. Height(L, b.ant) = 0
    BY <2>1, <2>2
  <2>4. b.ant[1] = "disk"
    BY <2>3 DEF Height
  <2>5. G.ext[b.ant].pool = Primordial
    BY <2>1, <2>4 DEF Without, Sees, SeenAs
  <2> QED
    BY <2>1, <2>5 DEF Without, Beneath
<1>4. f[x] = {x}
  <2>1. f[x] = {x} \cup UNION {f[b.ant] : b \in Antecedents(G, x)}
    BY <1>1 DEF Without, Beneath
  <2>2. UNION {f[b.ant] : b \in Antecedents(G, x)} = {}
    BY <1>3
  <2> QED
    BY <2>1, <2>2
<1>5. IsSeq(<<x>>) /\ UsersFirst(M, <<x>>, K) /\ ToSet(<<x>>) = {x}
  BY OneIsFirst DEF Free
<1> QED
  BY <1>2, <1>4, <1>5 DEF Clears

\* and a RAID device or composite, when what is below it is cleared.
LEMMA DeviceClears ==
    ASSUME NEW G, NEW L, NEW M, NEW v, NEW f, Without(G, L, M, v, f),
           NEW x \in DOMAIN G.ext, x = Composite(v) \/ IsMd(x), NEW K, IsMd(x) => Free(M, x, K),
           NEW s, s = [i \in DOMAIN Below(G, x) |-> s[i]],
           \A i \in DOMAIN Below(G, x) : Clears(M, f, Below(G, x)[i], s[i], With(K, x))
    PROVE  Clears(M, f, x, RemoveMd(x) \o FlattenSeq(s), K)
<1> DEFINE A == Antecedents(G, x)
           n == Cardinality(A)
           B == Below(G, x)
           t == RemoveMd(x)
           u == FlattenSeq(s)
<1>1. x[1] \in {"md", "Composite"}
  BY DEF IsMd, Composite
<1>2. Numbered(A)
  BY <1>1 DEF Without, Sees
<1>3. /\ n \in Nat /\ DOMAIN B = 1..n
      /\ \A b \in A : \E i \in 1..n : b.ant = B[i]
  BY <1>2, BelowIs
<1>4. s = [i \in 1..n |-> s[i]] /\ \A i \in 1..n : Clears(M, f, B[i], s[i], With(K, x))
  BY <1>3
<1>5. /\ IsSeq(u) /\ UsersFirst(M, u, With(K, x)) /\ \A i \in 1..n : ToSet(s[i]) \subseteq ToSet(u)
  <2> HIDE DEF n, B, u
  <2>1. \A i \in 1..n : IsSeq(s[i]) /\ UsersFirst(M, s[i], With(K, x))
    BY <1>4 DEF Clears
  <2> QED
    BY <1>3, <1>4, <2>1, UsersFirstFlattened DEF u
<1>6. IsSeq(t) /\ UsersFirst(M, t, K) /\ (IsMd(x) => x \in ToSet(t))
  <2>1. CASE IsMd(x)
    <3>1. t = <<x>>
      BY <2>1 DEF RemoveMd
    <3> QED
      BY <2>1, <3>1, OneIsFirst DEF Free
  <2>2. CASE ~IsMd(x)
    <3>1. t = <<>>
      BY <2>2 DEF RemoveMd
    <3> QED
      BY <2>2, <3>1, NoneIsFirst
  <2> QED
    BY <2>1, <2>2
<1> HIDE DEF t, u
<1>7. IsSeq(t \o u) /\ UsersFirst(M, t \o u, K) /\ ToSet(t \o u) = ToSet(t) \cup ToSet(u)
  BY <1>5, <1>6, UsersFirstJoined DEF With, t
<1>8. ASSUME NEW z \in f[x], DeviceExists(M, z)
      PROVE  z \in ToSet(t) \cup ToSet(u)
  <2>1. f[x] = {} \/ f[x] = {x} \cup UNION {f[b.ant] : b \in A}
    BY DEF Without, Beneath
  <2>2. z = x \/ \E b \in A : z \in f[b.ant]
    BY <2>1
  <2>3. CASE z = x
    <3>1. ~IsMd(x) => ~DeviceExists(M, x)
      BY DEF DeviceExists, IsMd, Composite, Part, Md
    <3> QED
      BY <1>6, <1>8, <2>3, <3>1
  <2>4. CASE \E b \in A : z \in f[b.ant]
    <3>1. PICK i \in 1..n : z \in f[B[i]]
      BY <1>3, <2>4
    <3>2. z \in ToSet(s[i])
      BY <1>4, <1>8, <3>1 DEF Clears
    <3> QED
      BY <1>5, <3>1, <3>2
  <2> QED
    BY <2>2, <2>3, <2>4
<1> QED
  BY <1>7, <1>8 DEF Clears, t, u

\* The parts of Removals.
LowerOf(G, x) == RemoveMd(x) \o FlattenSeq([i \in DOMAIN Below(G, x) |-> Unpartition(G, Below(G, x)[i])])
UnderOf(G, x) ==
    RemoveMd(x) \o FlattenSeq([i \in DOMAIN Below(G, x) |->
                                   IF G.ext[Below(G, x)[i]].composite THEN LowerOf(G, Below(G, x)[i])
                                   ELSE Unpartition(G, Below(G, x)[i])])
AllOf(G, x) ==
    RemoveMd(x) \o FlattenSeq([i \in DOMAIN Below(G, x) |->
                                   IF G.ext[Below(G, x)[i]].composite THEN UnderOf(G, Below(G, x)[i])
                                   ELSE Unpartition(G, Below(G, x)[i])])

LEMMA RemovalsAre ==
    ASSUME NEW G, NEW v
    PROVE  Removals(G, v) = AllOf(G, CompositeOf(G, v))
  BY DEF Removals, Each, AllOf, UnderOf, LowerOf

\* What is below an extent, by its place.
LEMMA MembersAreFreeInOrder ==
    ASSUME NEW G, NEW L, NEW M, NEW v, NEW f, Without(G, L, M, v, f),
           NEW x \in DOMAIN G.ext, IsMd(x) \/ x = Composite(v), NEW K, NEW i \in DOMAIN Below(G, x)
    PROVE  /\ Below(G, x)[i] \in DOMAIN G.ext /\ Free(M, Below(G, x)[i], With(K, x))
           /\ IsMd(x) => Below(G, x)[i] \in ToSet(L.md[x[3]].devs)
           /\ \/ Below(G, x)[i][1] = "part" /\ ~G.ext[Below(G, x)[i]].composite
              \/ /\ IsMd(Below(G, x)[i]) /\ Below(G, x)[i][3] \in MdsOf(L)
                 /\ G.ext[Below(G, x)[i]].composite
<1>1. x[1] \in {"md", "Composite"}
  BY DEF IsMd, Composite
<1>2. Numbered(Antecedents(G, x))
  BY <1>1 DEF Without, Sees
<1>3. PICK b \in Antecedents(G, x) : b.ant = Below(G, x)[i]
  BY <1>2, BelowIs
<1> QED
  BY <1>3, MembersAreFree

\* A mirror,
LEMMA LowerClears ==
    ASSUME NEW G, NEW L, NEW M, NEW v, NEW f, Without(G, L, M, v, f),
           NEW x \in DOMAIN G.ext, IsMd(x), \A y \in ToSet(L.md[x[3]].devs) : ~IsMd(y),
           NEW K, Free(M, x, K)
    PROVE  Clears(M, f, x, LowerOf(G, x), K)
<1> DEFINE B == Below(G, x)
           s == [i \in DOMAIN B |-> Unpartition(G, B[i])]
<1>1. ASSUME NEW i \in DOMAIN B
      PROVE  Clears(M, f, B[i], s[i], With(K, x))
  <2>1. B[i] \in DOMAIN G.ext /\ Free(M, B[i], With(K, x)) /\ B[i][1] = "part"
    BY MembersAreFreeInOrder
  <2> HIDE DEF B
  <2>2. s[i] = Unpartition(G, B[i])
    OBVIOUS
  <2> QED
    BY <2>1, <2>2, UnpartitionClears
<1>2. s = [i \in DOMAIN B |-> s[i]] /\ LowerOf(G, x) = RemoveMd(x) \o FlattenSeq(s)
  BY DEF LowerOf
<1> HIDE DEF s
<1> QED
  BY <1>1, <1>2, DeviceClears

\* a RAID device of partitions or mirrors,
LEMMA UnderClears ==
    ASSUME NEW G, NEW L, NEW M, NEW v, NEW f, Without(G, L, M, v, f),
           NEW x \in DOMAIN G.ext, IsMd(x), NEW K, Free(M, x, K)
    PROVE  Clears(M, f, x, UnderOf(G, x), K)
<1> DEFINE B == Below(G, x)
           s == [i \in DOMAIN B |-> IF G.ext[B[i]].composite THEN LowerOf(G, B[i]) ELSE Unpartition(G, B[i])]
<1>1. ASSUME NEW i \in DOMAIN B
      PROVE  Clears(M, f, B[i], s[i], With(K, x))
  <2> DEFINE y == B[i]
  <2>1. /\ y \in DOMAIN G.ext /\ Free(M, y, With(K, x)) /\ y \in ToSet(L.md[x[3]].devs)
        /\ \/ y[1] = "part" /\ ~G.ext[y].composite
           \/ IsMd(y) /\ y[3] \in MdsOf(L) /\ G.ext[y].composite
    BY MembersAreFreeInOrder
  <2> HIDE DEF B
  <2>2. s[i] = IF G.ext[y].composite THEN LowerOf(G, y) ELSE Unpartition(G, y)
    OBVIOUS
  <2> HIDE DEF y, s
  <2>3. CASE y[1] = "part" /\ ~G.ext[y].composite
    BY <2>1, <2>2, <2>3, UnpartitionClears DEF y
  <2>4. CASE IsMd(y) /\ y[3] \in MdsOf(L) /\ G.ext[y].composite
    <3>1. x = Md(x[3]) /\ x[3] \in MdsOf(L) /\ y = Md(y[3])
      BY <2>1, <2>4 DEF Without, Sees, SeenAs, IsMd
    <3>2. L.md[y[3]].level = 1
      BY <2>1, <2>4, <3>1 DEF Without, LayoutOK
    <3>3. ASSUME NEW z \in ToSet(L.md[y[3]].devs), IsMd(z)
          PROVE  FALSE
      <4>1. DeviceExists(L, z)
        BY <2>4 DEF Without, DevicesOK, MdsHold
      <4>2. PICK n \in MdsOf(L) : z = Md(n)
        BY <3>3, <4>1 DEF DeviceExists, IsMd, Part
      <4>3. L.md[y[3]].level = 0
        BY <2>4, <4>2 DEF Without, LayoutOK
      <4> QED
        BY <3>2, <4>3
    <3>4. Clears(M, f, y, LowerOf(G, y), With(K, x))
      BY <2>1, <2>4, <3>3, LowerClears
    <3> QED
      BY <2>2, <2>4, <3>4 DEF y
  <2> QED
    BY <2>1, <2>3, <2>4
<1>2. s = [i \in DOMAIN B |-> s[i]] /\ UnderOf(G, x) = RemoveMd(x) \o FlattenSeq(s)
  BY DEF UnderOf
<1> HIDE DEF s
<1> QED
  BY <1>1, <1>2, DeviceClears

\* and the composite extent of a group.
LEMMA AllClears ==
    ASSUME NEW G, NEW L, NEW M, NEW v, NEW f, Without(G, L, M, v, f),
           NEW x \in DOMAIN G.ext, x = Composite(v) \/ (IsMd(x) /\ Free(M, x, {}))
    PROVE  Clears(M, f, x, AllOf(G, x), {})
<1> DEFINE B == Below(G, x)
           s == [i \in DOMAIN B |-> IF G.ext[B[i]].composite THEN UnderOf(G, B[i]) ELSE Unpartition(G, B[i])]
           K == {}
<1>1. ASSUME NEW i \in DOMAIN B
      PROVE  Clears(M, f, B[i], s[i], With(K, x))
  <2> DEFINE y == B[i]
  <2>1. /\ y \in DOMAIN G.ext /\ Free(M, y, With(K, x))
        /\ \/ y[1] = "part" /\ ~G.ext[y].composite
           \/ IsMd(y) /\ y[3] \in MdsOf(L) /\ G.ext[y].composite
    BY MembersAreFreeInOrder
  <2> HIDE DEF B
  <2>2. s[i] = IF G.ext[y].composite THEN UnderOf(G, y) ELSE Unpartition(G, y)
    OBVIOUS
  <2> HIDE DEF y, s, K
  <2>3. CASE y[1] = "part" /\ ~G.ext[y].composite
    BY <2>1, <2>2, <2>3, UnpartitionClears DEF y
  <2>4. CASE IsMd(y) /\ y[3] \in MdsOf(L) /\ G.ext[y].composite
    BY <2>1, <2>2, <2>4, UnderClears DEF y
  <2> QED
    BY <2>1, <2>3, <2>4
<1>2. s = [i \in DOMAIN B |-> s[i]] /\ AllOf(G, x) = RemoveMd(x) \o FlattenSeq(s)
  BY DEF AllOf
<1> HIDE DEF s
<1>3. x = Composite(v) \/ IsMd(x)
  OBVIOUS
<1>4. IsMd(x) => Free(M, x, K)
  <2>1. ~IsMd(Composite(v))
    BY DEF IsMd, Composite
  <2> QED
    BY <2>1
<1>5. \A i \in DOMAIN Below(G, x) : Clears(M, f, Below(G, x)[i], s[i], With(K, x))
  BY <1>1
<1> HIDE DEF K
<1>6. Clears(M, f, x, RemoveMd(x) \o FlattenSeq(s), K)
  BY <1>2, <1>3, <1>4, <1>5, DeviceClears
<1> QED
  BY <1>2, <1>6 DEF K

\* The arrays are those a scan makes of a layout, but for the capabilities.
Pictures(G, L) == Linked(G, L) /\ ShowsLayout(G, L)

LEMMA ScanPictures ==
    ASSUME NEW L, LayoutInv(L), DevicesOK(L)
    PROVE  Pictures(SCSScanStorage(L), L)
<1>1. ScanOK(L)
  BY LayoutIsOK DEF ScanOK, LayoutInv, GroupsOK, IsSeq
<1>2. ShowsLayout(SCSScanStorage(L), L)
  BY <1>1, ShownAfterScan DEF LayoutInv, PartsOK
<1> QED
  BY <1>1, <1>2, LinkedAfterScan DEF Pictures

\* What DeleteStoragePool does after it has removed the group: the calls to
\* come are in an order the library accepts, and nothing is forgotten.
LEMMA RemovalsClear ==
    ASSUME NEW L, LayoutInv(L), DevicesOK(L), NEW v \in VgsOf(L),
           NEW G, Pictures(G, L), NEW M, M = VgRemoved(L, v)
    PROVE  /\ IsSeq(Removals(G, v)) /\ UsersFirst(M, Removals(G, v), {})
           /\ \A x \in BeneathPool(G, v) : DeviceExists(M, x) => x \in ToSet(Removals(G, v))
<1> DEFINE x == CompositeOf(G, v)
<1>1. ScanOK(L)
  BY LayoutIsOK DEF ScanOK, LayoutInv, GroupsOK, IsSeq
<1>2. Linked(G, L)
  BY DEF Pictures
<1>3. ShowsLayout(G, L)
  BY DEF Pictures
<1>4. v \in DOMAIN G.pool \ {Primordial} /\ v \in VgNames
  BY <1>1, <1>3, GroupsAreShown, ScanAssumption DEF VgsOf
<1>5. Sees(G, L) /\ Held(G, v)
  BY <1>3, <1>4 DEF ShowsLayout, Seeing, PoolsHeld
<1>6. x \in DOMAIN G.ext /\ G.ext[x].pool = v /\ ~ExtentIsFreespace(x)
  BY <1>5 DEF Held, CompositeOf, Components
<1> HIDE DEF x
<1>7. SeenAs(x, G.ext[x], L, DOMAIN G.pool)
  BY <1>5, <1>6 DEF Sees
<1>8. x = Composite(v) \/ (IsMd(x) /\ ToSet(L.vg[v].devs) = {x})
  <2>1. v # NULL /\ v # Primordial
    BY <1>4, DiskAssumption
  <2> QED
    BY <1>6, <1>7, <2>1 DEF SeenAs, ExtentIsFreespace, IsMd
<1>9. PICK f : Beneath(G, f) /\ BeneathPool(G, v) = f[x] \ {Composite(v)}
  BY <1>2, <1>6, BeneathPoolIs DEF x
<1>10. /\ DevicesOK(M) /\ v \notin VgsOf(M) /\ M.md = L.md /\ M.part = L.part
       /\ \A y : VgsUsing(M, y) = VgsUsing(L, y) \ {v}
  BY VgRemovedDevices
<1>11. Without(G, L, M, v, f)
  BY <1>2, <1>5, <1>9, <1>10, LayoutIsOK DEF Without
<1>12. IsMd(x) /\ ToSet(L.vg[v].devs) = {x} => Free(M, x, {})
  <2> SUFFICES ASSUME ToSet(L.vg[v].devs) = {x} PROVE VgsUsing(M, x) = {} /\ MdsUsing(M, x) \subseteq {}
    BY DEF Free
  <2>1. MdsUsing(M, x) = MdsUsing(L, x)
    BY <1>10 DEF MdsUsing, MdsOf
  <2>2. OneUser(L)
    BY DEF DevicesOK
  <2>3. \A w \in VgsUsing(L, x) : w = v
    BY <2>2 DEF OneUser, VgsUsing
  <2>4. MdsUsing(L, x) = {}
    BY <2>2 DEF OneUser, MdsUsing
  <2> QED
    BY <1>10, <2>1, <2>3, <2>4
<1>13. Clears(M, f, x, AllOf(G, x), {})
  BY <1>6, <1>8, <1>11, <1>12, AllClears
<1>14. Removals(G, v) = AllOf(G, x)
  BY RemovalsAre DEF x
<1> QED
  BY <1>9, <1>13, <1>14 DEF Clears

\* The arrays show the layout while nothing has been changed since the scan.
GraphIsOfLib ==
    call.pc \in {"idle", "create", "delete"} /\ ~needScan => Pictures(graph, lib)

OpOfCall ==
    /\ call.pc \in {"create", "cut", "cleanup"} => call.op = "create"
    /\ call.pc \in {"delete", "remove"} => call.op = "delete"
    /\ call.op = "delete" /\ call.pc \in {"enter", "delete"} => call.pool \in VgsOf(lib)

\* What is left of the pool is in the plan.
Leaves(L) ==
    /\ call.pool \notin VgsOf(L)
    /\ \A x \in BeneathPool(graph, call.pool) : DeviceExists(L, x) => call.pc = "remove" /\ x \in ToSet(call.plan)

\* Between the removal of the group and the scan, what there is still of the
\* pool is in the plan, with what is built on a device before the device.
DeletionInv ==
    /\ DevicesOK(lib) /\ DevicesOK(disk) /\ GraphIsOfLib /\ OpOfCall
    /\ call.pc = "remove" => Leaves(lib) /\ IsSeq(call.plan) /\ UsersFirst(lib, call.plan, {})
    /\ call.pc = "scan" /\ call.op = "delete" => Leaves(disk)

-----------------------------------------------------------------------------
\* After a step the call is over,
LEMMA IdleAgain ==
    ASSUME DevicesOK(lib)', DevicesOK(disk)', call' = Idle, ~needScan' => Pictures(graph, lib)'
    PROVE  DeletionInv'
<1>1. call'.pc = "idle"
  BY DEF Idle
<1> QED
  BY <1>1 DEF DeletionInv, GraphIsOfLib, OpOfCall

\* or it goes on creating a pool.
LEMMA CreationGoesOn ==
    ASSUME DevicesOK(lib)', DevicesOK(disk)', call'.op = "create", call'.pc \in {"cut", "cleanup", "scan"}
    PROVE  DeletionInv'
  BY DEF DeletionInv, GraphIsOfLib, OpOfCall

LEMMA EndsCompletely ==
    ASSUME DeletionInv, NEW how, Ends(how)
    PROVE  DeletionInv'
<1>1. DevicesOK(lib)' /\ DevicesOK(disk)' /\ call' = Idle /\ needScan' = TRUE
  BY DEF Ends, DeletionInv
<1> QED
  BY <1>1, IdleAgain

LEMMA InitDeletes == Init => DeletionInv
<1> SUFFICES ASSUME Init PROVE DeletionInv
  OBVIOUS
<1>1. DevicesOK(lib) /\ DevicesOK(disk) /\ needScan = TRUE /\ call.pc = "idle"
  BY BlankDevicesOK DEF Init, Idle
<1> QED
  BY <1>1 DEF DeletionInv, GraphIsOfLib, OpOfCall

LEMMA RequestsDelete ==
    ASSUME RaidInv, DeletionInv, RequestCreate \/ RequestDelete
    PROVE  DeletionInv'
<1>1. call.pc = "idle" /\ UNCHANGED <<lib, disk, graph, needScan>> /\ needScan \in BOOLEAN
  BY DEF RequestCreate, RequestDelete, RaidInv, TypeOK
<1>2. \/ call'.op = "create" /\ call'.pc = IF needScan THEN "enter" ELSE "create"
      \/ /\ call'.op = "delete" /\ call'.pc = IF needScan THEN "enter" ELSE "delete"
         /\ call'.pool \in VgsOf(lib)
  BY DEF RequestCreate, RequestDelete, Idle
<1>3. DevicesOK(lib)' /\ DevicesOK(disk)' /\ (~needScan => Pictures(graph, lib))
  BY <1>1 DEF DeletionInv, GraphIsOfLib
<1>4. \/ call'.op = "create" /\ ((needScan /\ call'.pc = "enter") \/ (~needScan /\ call'.pc = "create"))
      \/ /\ call'.op = "delete" /\ ((needScan /\ call'.pc = "enter") \/ (~needScan /\ call'.pc = "delete"))
         /\ call'.pool \in VgsOf(lib)
  BY <1>1, <1>2
<1>5. GraphIsOfLib'
  BY <1>1, <1>3, <1>4 DEF GraphIsOfLib
<1>6. OpOfCall' /\ call'.pc \in {"enter", "create", "delete"}
  BY <1>1, <1>4 DEF OpOfCall
<1> QED
  BY <1>3, <1>5, <1>6 DEF DeletionInv

LEMMA UsePoolDeletes ==
    ASSUME RaidInv, DeletionInv, UsePool
    PROVE  DeletionInv'
<1>1. PICK v \in VgsOf(lib), l \in LvNames :
          LET L == LvCreated(lib, v, l, OneKB)
              G == SCSScanStorage(L)
          IN  /\ Commit(L) /\ graph' = (IF G.defined THEN G ELSE EmptyGraph) /\ needScan' = ~G.defined
  BY DEF UsePool
<1> DEFINE L == LvCreated(lib, v, l, OneKB)
           G == SCSScanStorage(L)
<1>2. call.pc = "idle" /\ call' = call
  BY DEF UsePool
<1>3. DevicesOK(L) /\ LayoutInv(L)
  <2>1. IsSeq(<<>>)
    BY DEF IsSeq
  <2> QED
    BY <2>1, LvCreatedDevices, GroupsAreSound DEF RaidInv, DeletionInv
<1>4. lib' = L /\ disk' = L /\ (~needScan' => Pictures(graph', L))
  <2> HIDE DEF L
  <2> QED
    BY <1>1, <1>3, ScanPictures DEF Commit, L
<1> HIDE DEF L, G
<1>5. GraphIsOfLib'
  BY <1>4 DEF GraphIsOfLib
<1> QED
  BY <1>2, <1>3, <1>4, <1>5 DEF DeletionInv, OpOfCall

LEMMA EnterDeletes ==
    ASSUME RaidInv, DeletionInv, Enter
    PROVE  DeletionInv'
<1>1. call.pc = "enter" /\ call.op \in {"create", "delete"} /\ DOMAIN call = DOMAIN Idle
  BY DEF Enter, RaidInv, CallInv
<1>2. \/ Ends("died")
      \/ /\ graph' = SCSScanStorage(lib) /\ call' = [call EXCEPT !.pc = call.op] /\ UNCHANGED <<lib, disk>>
  BY DEF Enter, ScanStorage
<1>3. CASE Ends("died")
  BY <1>3, EndsCompletely
<1>4. CASE graph' = SCSScanStorage(lib) /\ call' = [call EXCEPT !.pc = call.op] /\ UNCHANGED <<lib, disk>>
  <2>1. call'.pc = call.op /\ call'.op = call.op /\ call'.pool = call.pool
    BY <1>1, <1>4 DEF Idle
  <2>2. GraphIsOfLib'
    BY <1>4, ScanPictures DEF GraphIsOfLib, RaidInv, DeletionInv
  <2>3. OpOfCall'
    BY <1>1, <1>4, <2>1 DEF DeletionInv, OpOfCall
  <2> QED
    BY <1>1, <1>4, <2>1, <2>2, <2>3 DEF DeletionInv
<1> QED
  BY <1>2, <1>3, <1>4

LEMMA ScanAndAnswerDeletes ==
    ASSUME RaidInv, DeletionInv, ScanAndAnswer
    PROVE  DeletionInv'
<1>1. \/ Ends("died")
      \/ graph' = SCSScanStorage(lib) /\ call' = Idle /\ UNCHANGED <<lib, disk>>
  BY DEF ScanAndAnswer, ScanStorage
<1>2. CASE Ends("died")
  BY <1>2, EndsCompletely
<1>3. CASE graph' = SCSScanStorage(lib) /\ call' = Idle /\ UNCHANGED <<lib, disk>>
  <2>1. DevicesOK(lib)' /\ DevicesOK(disk)' /\ Pictures(graph, lib)'
    BY <1>3, ScanPictures DEF RaidInv, DeletionInv
  <2> QED
    BY <1>3, <2>1, IdleAgain
<1> QED
  BY <1>1, <1>2, <1>3

LEMMA RefusalsDelete ==
    ASSUME RaidInv, DeletionInv, RefuseGoalOrSize \/ RefuseUsedPool
    PROVE  DeletionInv'
<1>1. call.pc \in {"create", "delete"} /\ call' = Idle /\ UNCHANGED <<lib, disk, graph, needScan>>
  BY DEF RefuseGoalOrSize, RefuseUsedPool
<1>2. DevicesOK(lib)' /\ DevicesOK(disk)' /\ (~needScan' => Pictures(graph, lib)')
  BY <1>1 DEF DeletionInv, GraphIsOfLib
<1> QED
  BY <1>1, <1>2, IdleAgain

\* Creation.
LEMMA ChooseExtentsDeletes ==
    ASSUME RaidInv, DeletionInv, ChooseExtents
    PROVE  DeletionInv'
<1>1. call.pc = "create" /\ call.op = "create" /\ DOMAIN call = DOMAIN Idle /\ UNCHANGED <<lib, disk>>
  BY DEF ChooseExtents, DeletionInv, OpOfCall, RaidInv, CallInv
<1>2. call' = Exit("SIZE_NOT_SUPPORTED") \/ \E p, n : Selected(p, n)
  BY DEF ChooseExtents
<1>3. call'.op = "create" /\ call'.pc \in {"cut", "scan"}
  BY <1>1, <1>2 DEF Exit, Selected, Idle
<1>4. DevicesOK(lib)' /\ DevicesOK(disk)'
  BY <1>1 DEF DeletionInv
<1> QED
  BY <1>3, <1>4, CreationGoesOn

LEMMA ExtentPartitionDeletes ==
    ASSUME RaidInv, DeletionInv, ExtentPartition
    PROVE  DeletionInv'
<1> DEFINE cut == Head(call.plan)
           d == cut.from[2]
           L == PartitionCreated(lib, d, Offset(lib, d), KBytes(cut.bytes))
<1>1. call.pc = "cut" /\ call.op = "create" /\ DOMAIN call = DOMAIN Idle
  BY DEF ExtentPartition, DeletionInv, OpOfCall, RaidInv, CallInv
<1>2. DevicesOK(L)
  BY PartitionCreatedDevices DEF RaidInv, DeletionInv
<1>3. (lib' = L /\ disk' = L) \/ UNCHANGED <<lib, disk>>
  BY DEF ExtentPartition, Commit
<1> HIDE DEF L
<1>4. DevicesOK(lib)' /\ DevicesOK(disk)'
  BY <1>2, <1>3 DEF DeletionInv
<1>5. \E dev : call' = Cut(dev)
  BY DEF ExtentPartition
<1>6. call'.op = "create" /\ call'.pc = "cut"
  BY <1>1, <1>5 DEF Cut, Idle
<1> QED
  BY <1>4, <1>6, CreationGoesOn

LEMMA CompositionsDelete ==
    ASSUME RaidInv, DeletionInv,
           \/ CreateJBODComposition \/ CreateRAID0Composition \/ CreateRAID1Composition
           \/ CreateRAID5Composition \/ NoBranch
    PROVE  DeletionInv'
<1>1. call.pc = "cut" /\ call.op = "create" /\ DOMAIN call = DOMAIN Idle
  BY DEF CreateJBODComposition, CreateRAID0Composition, CreateRAID1Composition, CreateRAID5Composition,
         NoBranch, AllCut, DeletionInv, OpOfCall, RaidInv, CallInv
<1>2. LayoutInv(lib) /\ DevicesOK(lib) /\ DevicesOK(disk)
  BY DEF RaidInv, DeletionInv
<1>3. ASSUME NEW results, Finish(results), \A r \in results : DevicesOK(r.lib)
      PROVE  DeletionInv'
  <2>1. CASE Ends("died")
    BY <2>1, EndsCompletely
  <2>2. ASSUME NEW r \in results, Commit(r.lib), call' = Exit(r.rc)
        PROVE  DeletionInv'
    <3>1. DevicesOK(lib)' /\ DevicesOK(disk)'
      BY <1>3, <2>2 DEF Commit
    <3>2. call'.op = "create" /\ call'.pc = "scan"
      BY <1>1, <2>2 DEF Exit, Idle
    <3> QED
      BY <3>1, <3>2, CreationGoesOn
  <2> QED
    BY <1>3, <2>1, <2>2, FinishCases
<1>4. CASE CreateJBODComposition
  <2>1. \A r \in Grouped(lib, call.pool, Reverse(call.devs)) : DevicesOK(r.lib)
    BY <1>2, GroupedDevices DEF LayoutInv, GroupsOK
  <2> QED
    BY <1>3, <1>4, <2>1 DEF CreateJBODComposition
<1>5. \A level \in {0, 1, 5} : \A r \in Composed(lib, level, call.devs, call.pool) : DevicesOK(r.lib)
  BY <1>2, ComposedDevices
<1>6. CASE CreateRAID0Composition \/ CreateRAID1Composition \/ CreateRAID5Composition
  <2>1. PICK level \in {0, 1, 5} : Finish(Composed(lib, level, call.devs, call.pool))
    BY <1>6 DEF CreateRAID0Composition, CreateRAID1Composition, CreateRAID5Composition
  <2> QED
    BY <1>3, <1>5, <2>1
<1>7. CASE NoBranch
  <2>1. DevicesOK(lib)' /\ DevicesOK(disk)' /\ call' = Exit("INVALID_PARAM")
    BY <1>2, <1>7 DEF NoBranch
  <2>2. call'.op = "create" /\ call'.pc = "scan"
    BY <1>1, <2>1 DEF Exit, Idle
  <2> QED
    BY <2>1, <2>2, CreationGoesOn
<1> QED
  BY <1>4, <1>6, <1>7

LEMMA CreateMirrorDeletes ==
    ASSUME RaidInv, DeletionInv, CreateMirror
    PROVE  DeletionInv'
<1> DEFINE i == Len(call.mirrors) + 1
           L == MdCreated(lib, 1, Mirror(i))
<1>1. call.pc = "cut" /\ call.op = "create" /\ DOMAIN call = DOMAIN Idle
  BY DEF CreateMirror, AllCut, DeletionInv, OpOfCall, RaidInv, CallInv
<1>2. \/ Ends("died")
      \/ /\ CanCreateMd(lib, 1, Mirror(i)) /\ Commit(L)
         /\ call' = [call EXCEPT !.mirrors = Append(@, NewMd(lib))]
      \/ call' = CleanUp /\ UNCHANGED <<lib, disk>>
  BY DEF CreateMirror
<1>3. CASE Ends("died")
  BY <1>3, EndsCompletely
<1>4. CASE /\ CanCreateMd(lib, 1, Mirror(i)) /\ Commit(L)
           /\ call' = [call EXCEPT !.mirrors = Append(@, NewMd(lib))]
  <2>1. DevicesOK(L)
    BY <1>4, MdCreatedDevices DEF RaidInv, DeletionInv
  <2>2. lib' = L /\ disk' = L
    BY <1>4 DEF Commit
  <2> HIDE DEF L
  <2>3. DevicesOK(lib)' /\ DevicesOK(disk)'
    BY <2>1, <2>2
  <2>4. call'.op = "create" /\ call'.pc = "cut"
    BY <1>1, <1>4 DEF Idle
  <2> QED
    BY <2>3, <2>4, CreationGoesOn
<1>5. CASE call' = CleanUp /\ UNCHANGED <<lib, disk>>
  <2>1. DevicesOK(lib)' /\ DevicesOK(disk)'
    BY <1>5 DEF DeletionInv
  <2>2. call'.op = "create" /\ call'.pc = "cleanup"
    BY <1>1, <1>5 DEF CleanUp, Idle
  <2> QED
    BY <2>1, <2>2, CreationGoesOn
<1> QED
  BY <1>2, <1>3, <1>4, <1>5

LEMMA CreateStripeDeletes ==
    ASSUME RaidInv, DeletionInv, CreateStripe
    PROVE  DeletionInv'
<1>1. call.pc = "cut" /\ call.op = "create" /\ DOMAIN call = DOMAIN Idle
  BY DEF CreateStripe, AllCut, DeletionInv, OpOfCall, RaidInv, CallInv
<1>2. CASE Ends("died")
  BY <1>2, EndsCompletely
<1>3. ASSUME NEW r \in Composed(lib, 0, StripeOver, call.pool), Commit(r.lib),
             call' \in {Exit("OK"), [CleanUp EXCEPT !.devs = <<>>]}
      PROVE  DeletionInv'
  <2>1. DevicesOK(r.lib)
    BY ComposedDevices DEF RaidInv, DeletionInv
  <2>2. DevicesOK(lib)' /\ DevicesOK(disk)'
    BY <1>3, <2>1 DEF Commit
  <2>3. call'.op = "create" /\ call'.pc \in {"scan", "cleanup"}
    BY <1>1, <1>3 DEF Exit, CleanUp, Idle
  <2> QED
    BY <2>2, <2>3, CreationGoesOn
<1> QED
  BY <1>2, <1>3, StripeCases

LEMMA DeleteRAID1CompositionDeletes ==
    ASSUME RaidInv, DeletionInv, DeleteRAID1Composition
    PROVE  DeletionInv'
<1> DEFINE n == Head(call.mirrors)
<1>1. /\ call.pc = "cleanup" /\ call.op = "create" /\ DOMAIN call = DOMAIN Idle
      /\ LayoutInv(lib) /\ DevicesOK(lib) /\ DevicesOK(disk)
  BY DEF DeleteRAID1Composition, DeletionInv, OpOfCall, RaidInv, CallInv
<1>2. CASE Ends("died")
  BY <1>2, EndsCompletely
<1>3. CASE ~Ends("died")
  <2>1. (CanRemoveMd(lib, n) /\ Commit(MdRemoved(lib, n))) \/ UNCHANGED <<lib, disk>>
    BY <1>3 DEF DeleteRAID1Composition
  <2>2. DevicesOK(lib)' /\ DevicesOK(disk)'
    BY <1>1, <2>1, MdRemovedDevices DEF Commit
  <2>3. call' = [call EXCEPT !.mirrors = Tail(@)] \/ call' = Exit("FAILED")
    BY <1>3 DEF DeleteRAID1Composition
  <2>4. call'.op = "create" /\ call'.pc \in {"scan", "cleanup"}
    BY <1>1, <2>3 DEF Exit, Idle
  <2> QED
    BY <2>2, <2>4, CreationGoesOn
<1> QED
  BY <1>2, <1>3

\* Deletion: the group goes first,
LEMMA RemoveGroupDeletes ==
    ASSUME RaidInv, DeletionInv, RemoveGroup, "remove" \notin LibraryFails
    PROVE  DeletionInv'
<1> DEFINE v == call.pool
           M == VgRemoved(lib, v)
           plan == Removals(graph, v)
<1>1. /\ call.pc = "delete" /\ call.op = "delete" /\ v \in VgsOf(lib) /\ DOMAIN call = DOMAIN Idle
      /\ Pictures(graph, lib) /\ LayoutInv(lib) /\ DevicesOK(lib) /\ DevicesOK(disk)
  BY DEF RemoveGroup, DeletionInv, OpOfCall, GraphIsOfLib, RaidInv, CallInv
<1>2. lib' = M /\ disk' = disk /\ graph' = graph
  BY DEF RemoveGroup, Fails, Staged
<1>3. /\ call'.pc = "remove" /\ call'.op = "delete" /\ call'.pool = v /\ call'.plan = plan
  BY <1>1 DEF RemoveGroup, Idle
<1>4. /\ IsSeq(plan) /\ UsersFirst(M, plan, {})
      /\ \A x \in BeneathPool(graph, v) : DeviceExists(M, x) => x \in ToSet(plan)
  BY <1>1, RemovalsClear
<1>5. DevicesOK(M) /\ v \notin VgsOf(M)
  BY <1>1, VgRemovedDevices
<1> HIDE DEF M, plan
<1>6. Leaves(lib)'
  BY <1>2, <1>3, <1>4, <1>5 DEF Leaves
<1>7. GraphIsOfLib' /\ OpOfCall'
  BY <1>3 DEF GraphIsOfLib, OpOfCall
<1> QED
  BY <1>1, <1>2, <1>3, <1>4, <1>5, <1>6, <1>7 DEF DeletionInv

\* what is first in the list is on nothing that is left, and when it is gone
\* so is what is next;
LEMMA RestIsInOrder ==
    ASSUME NEW L, NEW s, IsSeq(s), s # <<>>, UsersFirst(L, s, {}),
           NEW M, MdsOf(M) \subseteq MdsOf(L), \A n \in MdsOf(M) : M.md[n].devs = L.md[n].devs,
           M.vg = L.vg, \A n \in MdsOf(M) : Md(n) # s[1]
    PROVE  /\ ~InUse(L, s[1]) /\ IsSeq(Tail(s)) /\ UsersFirst(M, Tail(s), {})
           /\ \A x \in ToSet(s) : x = s[1] \/ x \in ToSet(Tail(s))
<1> DEFINE t == Tail(s)
<1>1. /\ IsSeq(t) /\ 1 \in DOMAIN s /\ DOMAIN s \subseteq Nat
      /\ \A i \in DOMAIN t : i \in Nat /\ i + 1 \in DOMAIN s /\ t[i] = s[i + 1]
      /\ \A i \in DOMAIN s : i = 1 \/ (i - 1 \in DOMAIN t /\ t[i - 1] = s[i])
  <2>1. /\ IsSeq(t) /\ 1 \in DOMAIN s
        /\ \A i \in DOMAIN t : i \in Nat /\ i + 1 \in DOMAIN s /\ t[i] = s[i + 1]
    BY TailIsSeq
  <2>2. /\ DOMAIN s \subseteq Nat
        /\ \A i \in DOMAIN s : i = 1 \/ (i - 1 \in DOMAIN t /\ t[i - 1] = s[i])
    <3> DEFINE S == ToSet(s)
    <3>1. s \in Seq(S)
      BY DEF IsSeq
    <3> HIDE DEF S
    <3> QED
      BY <3>1
  <2> QED
    BY <2>1, <2>2
<1> HIDE DEF t
<1>2. \A i \in DOMAIN s : i >= 1
  <2>1. DOMAIN s = 1..Len(s) /\ Len(s) \in Nat
    BY DEF IsSeq
  <2> QED
    BY <2>1
<1>3. ~InUse(L, s[1])
  <2>1. VgsUsing(L, s[1]) = {}
    BY <1>1 DEF UsersFirst
  <2>2. ASSUME NEW n \in MdsUsing(L, s[1])
        PROVE  FALSE
    <3>1. \E j \in DOMAIN s : j < 1
      BY <1>1 DEF UsersFirst
    <3> QED
      BY <1>1, <1>2, <3>1
  <2> QED
    BY <2>1, <2>2 DEF InUse
<1>4. VgsOf(M) = VgsOf(L) /\ \A x : VgsUsing(M, x) = VgsUsing(L, x)
  BY DEF VgsOf, VgsUsing
<1>5. \A x : MdsUsing(M, x) \subseteq MdsUsing(L, x)
  BY DEF MdsUsing
<1>6. ASSUME NEW i \in DOMAIN t
      PROVE  /\ VgsUsing(M, t[i]) = {}
             /\ \A n \in MdsUsing(M, t[i]) : n \in {} \/ \E j \in DOMAIN t : j < i /\ t[j] = Md(n)
  <2>1. VgsUsing(M, t[i]) = {}
    BY <1>1, <1>4 DEF UsersFirst
  <2>2. ASSUME NEW n \in MdsUsing(M, t[i])
        PROVE  \E j \in DOMAIN t : j < i /\ t[j] = Md(n)
    <3>1. n \in MdsUsing(L, s[i + 1]) /\ i + 1 \in DOMAIN s
      BY <1>1, <1>5
    <3>2. PICK j \in DOMAIN s : j < i + 1 /\ s[j] = Md(n)
      BY <3>1 DEF UsersFirst
    <3>3. s[j] # s[1]
      BY <3>2 DEF MdsUsing
    <3>4. j - 1 \in DOMAIN t /\ t[j - 1] = Md(n) /\ j - 1 < i
      BY <1>1, <3>2, <3>3
    <3> QED
      BY <3>4
  <2> QED
    BY <2>1, <2>2
<1>7. UsersFirst(M, t, {})
  BY <1>6 DEF UsersFirst
<1>8. \A x \in ToSet(s) : x = s[1] \/ x \in ToSet(t)
  BY <1>1 DEF ToSet
<1> QED
  BY <1>1, <1>3, <1>7, <1>8 DEF t

LEMMA RemoveNextDeletes ==
    ASSUME RaidInv, DeletionInv, RemoveNext, "remove" \notin LibraryFails
    PROVE  DeletionInv'
<1> DEFINE x == Head(call.plan)
           s == call.plan
<1>1. /\ call.pc = "remove" /\ call.op = "delete" /\ s # <<>> /\ DOMAIN call = DOMAIN Idle
      /\ LayoutInv(lib) /\ DevicesOK(lib) /\ DevicesOK(disk) /\ UNCHANGED graph
      /\ IsSeq(s) /\ UsersFirst(lib, s, {}) /\ Leaves(lib)
  BY DEF RemoveNext, DeletionInv, OpOfCall, RaidInv, CallInv
<1>2. x = s[1]
  OBVIOUS
<1>3. ~InUse(lib, x)
  <2>1. MdsOf(lib) \subseteq MdsOf(lib)
    OBVIOUS
  <2>2. 1 \in DOMAIN s /\ DOMAIN s = 1..Len(s) /\ Len(s) \in Nat
    BY <1>1, TailIsSeq DEF IsSeq
  <2>3. \A j \in DOMAIN s : ~(j < 1)
    BY <2>2
  <2> QED
    BY <1>1, <1>2, <2>2, <2>3 DEF UsersFirst, InUse
<1>4. \/ /\ IsMd(x) /\ CanRemoveMd(lib, x[3]) /\ lib' = MdRemoved(lib, x[3]) /\ disk' = disk
      \/ /\ IsMd(x) /\ ~CanRemoveMd(lib, x[3]) /\ lib' = lib /\ disk' = disk
      \/ /\ ~IsMd(x) /\ CanRemovePartition(lib, x) /\ lib' = PartitionRemoved(lib, x) /\ disk' = lib'
      \/ /\ ~IsMd(x) /\ ~CanRemovePartition(lib, x) /\ lib' = lib /\ disk' = lib
  BY DEF RemoveNext, Staged, Commit, Fails
<1>5. \E rc : call' = [call EXCEPT !.plan = Tail(@), !.rc = rc]
  BY DEF RemoveNext
<1>6. call'.pc = "remove" /\ call'.op = "delete" /\ call'.pool = call.pool /\ call'.plan = Tail(s)
  BY <1>1, <1>5 DEF Idle
<1>7. \A n : Md(n)[3] = n /\ IsMd(Md(n))
  BY DEF Md, IsMd
<1>8. \A p : ~IsMd(Part(p))
  BY DEF Part, IsMd
<1> HIDE DEF x, s
<1>9. /\ DevicesOK(lib)' /\ DevicesOK(disk)' /\ lib'.vg = lib.vg /\ VgsOf(lib') = VgsOf(lib)
      /\ MdsOf(lib') \subseteq MdsOf(lib) /\ \A n \in MdsOf(lib') : lib'.md[n].devs = lib.md[n].devs
      /\ \A y : DeviceExists(lib', y) => DeviceExists(lib, y)
      /\ ~DeviceExists(lib', x) /\ \A n \in MdsOf(lib') : Md(n) # x
  <2>1. CASE IsMd(x) /\ CanRemoveMd(lib, x[3]) /\ lib' = MdRemoved(lib, x[3]) /\ disk' = disk
    <3> DEFINE n == x[3]
               M == MdRemoved(lib, n)
    <3>1. /\ M.part = lib.part /\ M.vg = lib.vg /\ M.md = [lib.md EXCEPT ![n] = NoMd]
          /\ n \in MdsOf(lib) /\ DOMAIN lib.md = MdNums
      BY <1>1, <2>1 DEF MdRemoved, LayoutInv, CanRemoveMd
    <3>2. DevicesOK(M)
      BY <1>1, <2>1, MdRemovedDevices
    <3> HIDE DEF M
    <3>3. M.md[n] = NoMd /\ \A k \in MdNums : k # n => M.md[k] = lib.md[k]
      BY <3>1 DEF MdsOf
    <3>4. MdsOf(M) = MdsOf(lib) \ {n} /\ VgsOf(M) = VgsOf(lib) /\ MdsOf(M) \subseteq MdNums
      BY <3>1, <3>3 DEF MdsOf, VgsOf, NoMd
    <3>5. \A k \in MdsOf(M) : M.md[k].devs = lib.md[k].devs
      BY <3>3, <3>4
    <3>6. \A k \in MdsOf(M) : Md(k) # x
      BY <1>7, <3>4
    <3>7. ~DeviceExists(M, x) /\ \A y : DeviceExists(M, y) => DeviceExists(lib, y)
      BY <1>8, <2>1, <3>1, <3>4, <3>6 DEF DeviceExists
    <3>8. lib' = M /\ disk' = disk
      BY <2>1 DEF M
    <3> QED
      BY <1>1, <3>1, <3>2, <3>4, <3>5, <3>6, <3>7, <3>8
  <2>2. CASE IsMd(x) /\ ~CanRemoveMd(lib, x[3]) /\ lib' = lib /\ disk' = disk
    <3>1. \A n \in MdsOf(lib) : Md(n) # x
      BY <1>3, <1>7, <2>2 DEF CanRemoveMd
    <3>2. ~DeviceExists(lib, x)
      BY <1>8, <2>2, <3>1 DEF DeviceExists
    <3> QED
      BY <1>1, <2>2, <3>1, <3>2
  <2>3. CASE ~IsMd(x) /\ CanRemovePartition(lib, x) /\ lib' = PartitionRemoved(lib, x) /\ disk' = lib'
    <3> DEFINE M == PartitionRemoved(lib, x)
    <3>1. M.md = lib.md /\ M.vg = lib.vg /\ M.part = {p \in lib.part : Part(p) # x}
      BY <1>1 DEF PartitionRemoved, LayoutInv
    <3>2. DevicesOK(M)
      BY <1>1, <1>3, PartitionRemovedDevices
    <3> HIDE DEF M
    <3>3. MdsOf(M) = MdsOf(lib) /\ VgsOf(M) = VgsOf(lib)
      BY <3>1 DEF MdsOf, VgsOf
    <3>4. \A n : Md(n) # x
      BY <1>7, <2>3
    <3>5. ~DeviceExists(M, x) /\ \A y : DeviceExists(M, y) => DeviceExists(lib, y)
      BY <3>1, <3>3, <3>4 DEF DeviceExists
    <3>6. lib' = M /\ disk' = M
      BY <2>3 DEF M
    <3> QED
      BY <3>1, <3>2, <3>3, <3>4, <3>5, <3>6
  <2>4. CASE ~IsMd(x) /\ ~CanRemovePartition(lib, x) /\ lib' = lib /\ disk' = lib
    <3>1. \A n : Md(n) # x
      BY <1>7, <2>4
    <3>2. ~DeviceExists(lib, x)
      BY <1>3, <2>4, <3>1 DEF CanRemovePartition, DeviceExists
    <3> QED
      BY <1>1, <2>4, <3>1, <3>2
  <2> QED
    BY <1>4, <2>1, <2>2, <2>3, <2>4
<1>10. /\ IsSeq(Tail(s)) /\ UsersFirst(lib', Tail(s), {})
       /\ \A y \in ToSet(s) : y = s[1] \/ y \in ToSet(Tail(s))
  BY <1>1, <1>2, <1>9, RestIsInOrder
<1>11. Leaves(lib)'
  BY <1>1, <1>2, <1>6, <1>9, <1>10 DEF Leaves, s
<1>12. GraphIsOfLib' /\ OpOfCall'
  BY <1>6 DEF GraphIsOfLib, OpOfCall
<1> QED
  BY <1>6, <1>9, <1>10, <1>11, <1>12 DEF DeletionInv

\* in the end nothing is left.
LEMMA RemovedDeletes ==
    ASSUME RaidInv, DeletionInv, Removed
    PROVE  DeletionInv'
<1>1. /\ call.pc = "remove" /\ call.op = "delete" /\ call.plan = <<>> /\ DOMAIN call = DOMAIN Idle
      /\ DevicesOK(lib) /\ Leaves(lib) /\ UNCHANGED graph /\ lib' = lib /\ disk' = lib
      /\ call' = Exit(call.rc)
  BY DEF Removed, Commit, DeletionInv, OpOfCall, RaidInv, CallInv
<1>2. call'.pc = "scan" /\ call'.op = "delete" /\ call'.pool = call.pool
  BY <1>1 DEF Exit, Idle
<1>3. ToSet(<<>>) = {}
  BY DEF ToSet
<1>4. Leaves(disk)'
  BY <1>1, <1>2, <1>3 DEF Leaves
<1> QED
  BY <1>1, <1>2, <1>4 DEF DeletionInv, GraphIsOfLib, OpOfCall

LEMMA NextDeletes ==
    ASSUME "remove" \notin LibraryFails
    PROVE  RaidInv /\ DeletionInv /\ [Next]_vars => DeletionInv'
<1> SUFFICES ASSUME RaidInv, DeletionInv, [Next]_vars PROVE DeletionInv'
  OBVIOUS
<1>1. CASE Request
  BY <1>1, RequestsDelete, UsePoolDeletes DEF Request
<1>2. CASE Step
  BY <1>2, EnterDeletes, RefusalsDelete, ChooseExtentsDeletes, ExtentPartitionDeletes, CompositionsDelete,
     CreateMirrorDeletes, CreateStripeDeletes, DeleteRAID1CompositionDeletes, RemoveGroupDeletes,
     RemoveNextDeletes, RemovedDeletes, ScanAndAnswerDeletes DEF Step
<1>3. CASE Stopped
  BY <1>3, EndsCompletely DEF Stopped
<1>4. CASE UNCHANGED vars
  BY <1>4 DEF vars, DeletionInv, GraphIsOfLib, OpOfCall, Leaves
<1> QED
  BY <1>1, <1>2, <1>3, <1>4 DEF Next, Over

\* A deletion that ends well leaves nothing of its pool on the disks: no group,
\* no RAID device of either level, no partition, whatever else fails and
\* whenever the provider is stopped.  The calls DeleteStoragePool reads off the
\* arrays are all the calls there are to make, and in an order in which the
\* library refuses none.  (A call the library fails for another reason is
\* forgotten when the next one succeeds, as removeMd's error is the answer: the
\* assumption is needed.)
THEOREM DeletionsAreComplete ==
    ASSUME "remove" \notin LibraryFails
    PROVE  Spec => []DeletionIsComplete
<1>1. RaidInv /\ DeletionInv => DeletionIsComplete
  BY DEF DeletionInv, Leaves, DeletionIsComplete
<1>2. Init => RaidInv /\ DeletionInv
  BY InitIsSound, InitDeletes
<1>3. (RaidInv /\ DeletionInv) /\ [Next]_vars => (RaidInv /\ DeletionInv)'
  BY NextIsSound, NextDeletes
<1> QED
  BY <1>1, <1>2, <1>3, PTL DEF Spec

-----------------------------------------------------------------------------
(***************************************************************************)
(* Space that was granted                                                  *)
(***************************************************************************)

\* The arrays show the space there is on the disks.
ShowsSpace(G, L) ==
    /\ Sees(G, L) /\ IsGraph(G)
    /\ \A x \in DOMAIN G.ext : G.ext[x].pool = Primordial /\ ~Based(G, x) =>
           \E d \in ToSet(Disks) : x = Freespace(d)
    /\ \A d \in ToSet(Disks) : Freespace(d) \in DOMAIN G.ext =>
           G.ext[Freespace(d)].size = DiskSize - Taken(L, d)
    /\ \A x \in DOMAIN G.ext : G.ext[x].pool \in VgNames => x = Freespace(G.ext[x].pool) \/ Based(G, x)
    /\ G.pool[Primordial].remaining \in Nat

LEMMA ScanShowsSpace ==
    ASSUME NamesDiffer, NEW L, LayoutInv(L), DevicesOK(L), SizesOK(L)
    PROVE  ShowsSpace(SCSScanStorage(L), L)
<1> DEFINE G == SCSScanStorage(L)
<1>1. Sees(G, L)
  BY ScanPictures DEF Pictures, ShowsLayout, Seeing
<1>2. /\ IsGraph(G)
      /\ \A x \in DOMAIN G.ext : G.ext[x].pool = Primordial /\ ~Based(G, x) =>
             \E d \in ToSet(Disks) : x = Freespace(d)
  BY ScanIsSound
<1>3. /\ \A d \in ToSet(Disks) : Freespace(d) \in DOMAIN G.ext =>
             G.ext[Freespace(d)].size = DiskSize - Taken(L, d)
      /\ \A x \in DOMAIN G.ext : G.ext[x].pool \in VgNames => x = Freespace(G.ext[x].pool) \/ Based(G, x)
  BY LayoutIsOK, SpaceAfterScan DEF DevicesOK
<1>4. G.pool[Primordial].remaining \in Nat
  <2> DEFINE H == ScanDisks(L)
             p == H.pool[Primordial]
             n == Len(Disks)
             q == [p EXCEPT !.remaining = IF @ \in 0..p.total THEN @ ELSE 0,
                            !.cap.nspf = n > 1 \/ p.cap.parity = 2,
                            !.cap.drMax = n, !.cap.prMax = n - 1]
  <2>1. ScanOK(L)
    BY LayoutIsOK DEF ScanOK, LayoutInv, GroupsOK, IsSeq
  <2>2. G = [H EXCEPT !.pool[Primordial] = q]
    BY DEF SCSScanStorage, Fixup
  <2>3. Linked(H, L)
    BY <2>1, ScanDisksLinked DEF Scanning
  <2> HIDE DEF H
  <2>4. "pool" \in DOMAIN H /\ Primordial \in DOMAIN H.pool /\ "remaining" \in DOMAIN p
    BY <2>3 DEF Linked, PoolsOK, Record
  <2>5. q.remaining = IF p.remaining \in 0..p.total THEN p.remaining ELSE 0
    <3> HIDE DEF p, n
    <3> QED
      BY <2>4
  <2>6. q.remaining \in Nat
    <3> HIDE DEF p, q
    <3> QED
      BY <2>5
  <2> HIDE DEF q, G
  <2> QED
    BY <2>2, <2>4, <2>6
<1> QED
  BY <1>1, <1>2, <1>3, <1>4 DEF ShowsSpace

\* What is free in a pool: pieces of the disks' free space, or the free space
\* of the group, and nothing else.
LEMMA AvailableIsFree ==
    ASSUME NEW G, NEW L, ShowsSpace(G, L)
    PROVE  /\ \A x \in Available(G, Primordial) : \E d \in ToSet(Disks) : x = Freespace(d)
           /\ \A p \in VgNames : \A x \in Available(G, p) : x = Freespace(p)
<1>1. \A p : \A x \in Available(G, p) : x \in DOMAIN G.ext /\ G.ext[x].pool = p /\ ~Based(G, x)
  BY DEF Available, Components, DependentExtents, Based
<1> QED
  BY <1>1 DEF ShowsSpace

LEMMA DisksAreFinite == IsFiniteSet({Freespace(d) : d \in ToSet(Disks)})
<1> DEFINE S == {Freespace(d) : d \in ToSet(Disks)}
           f == [d \in ToSet(Disks) |-> Freespace(d)]
<1>1. IsFiniteSet(ToSet(Disks))
  <2>1. Len(Disks) \in Nat /\ Disks \in Surjection(1..Len(Disks), ToSet(Disks))
    BY DiskAssumption DEF ToSet, Surjection
  <2>2. IsFiniteSet(1..Len(Disks))
    BY <2>1, FS_Interval
  <2> QED
    BY <2>1, <2>2, FS_Surjection
<1>2. f \in Surjection(ToSet(Disks), S)
  BY DEF Surjection
<1> HIDE DEF f, S
<1> QED
  BY <1>1, <1>2, FS_Surjection DEF S

LEMMA TakenIsNumber ==
    ASSUME NEW L, IsFiniteSet(L.part), SizesOK(L), NEW d
    PROVE  Taken(L, d) \in Nat
<1> DEFINE S == PartsOn(L, d)
           g == [p \in S |-> p.size]
<1>1. S \subseteq L.part /\ IsFiniteSet(S) /\ \A p \in S : g[p] = p.size /\ p.size \in Nat
  BY FS_Subset DEF PartsOn, SizesOK
<1> HIDE DEF g
<1>2. MapThenSumSet(LAMBDA p : p.size, S) = Total(g, S)
  <2> HIDE DEF S
  <2> QED
    BY <1>1, SizesTotal
<1>3. Total(g, S) \in Nat
  <2> HIDE DEF S
  <2>1. (\A x \in S : g[x] \in Int) /\ (\A x \in S : g[x] \in Nat) /\ S \in SUBSET S
    BY <1>1
  <2> QED
    BY <1>1, <2>1, Totals
<1> QED
  BY <1>2, <1>3 DEF Taken

\* The sizes of what is free on the disks.
LEMMA FreeSizes ==
    ASSUME NEW G, NEW L, ShowsSpace(G, L), IsFiniteSet(L.part), SizesOK(L), NEW x \in Available(G, Primordial)
    PROVE  /\ x[2] \in ToSet(Disks) /\ x = Freespace(x[2])
           /\ G.ext[x].size = DiskSize - Taken(L, x[2]) /\ G.ext[x].size \in Int
<1>1. PICK d \in ToSet(Disks) : x = Freespace(d)
  BY AvailableIsFree
<1>2. x[2] = d /\ x \in DOMAIN G.ext
  BY <1>1 DEF Freespace, Available, Components
<1>3. G.ext[x].size = DiskSize - Taken(L, d)
  BY <1>1, <1>2 DEF ShowsSpace
<1>4. DiskSize \in Int /\ Taken(L, d) \in Int
  BY TakenIsNumber, DiskAssumption
<1> QED
  BY <1>1, <1>2, <1>3, <1>4

\* They are in order, smallest first: each once.
LEMMA AvailableInPlace ==
    ASSUME NamesDiffer, NEW G, NEW L, ShowsSpace(G, L), IsFiniteSet(L.part), SizesOK(L),
           NEW p \in VgNames \cup {Primordial}
    PROVE  /\ Len(GetAvailableExtents(G, p)) \in Nat
           /\ DOMAIN GetAvailableExtents(G, p) = 1..Len(GetAvailableExtents(G, p))
           /\ \A k \in 1..Len(GetAvailableExtents(G, p)) : GetAvailableExtents(G, p)[k] \in Available(G, p)
           /\ \A j \in 1..Len(GetAvailableExtents(G, p)) : \A k \in 1..Len(GetAvailableExtents(G, p)) :
                  GetAvailableExtents(G, p)[j] = GetAvailableExtents(G, p)[k] => j = k
<1> DEFINE A == Available(G, p)
           N == Cardinality(A)
           R == {e \in A \X A : Smaller(G, e[1], e[2])}
           av == GetAvailableExtents(G, p)
<1>1. \A x \in A : \A y \in A : <<x, y>> \in R <=> Smaller(G, x, y)
  OBVIOUS
<1>2. av = InPlace(A, R)
  <2>1. \A x \in A : {y \in A \ {x} : Smaller(G, y, x)} = BeforeIn(A, R, x)
    BY <1>1 DEF BeforeIn
  <2>2. av = [k \in 1..N |-> CHOOSE x \in A : Cardinality({y \in A \ {x} : Smaller(G, y, x)}) = k - 1]
    BY DEF GetAvailableExtents
  <2>3. InPlace(A, R) = [k \in 1..N |-> CHOOSE x \in A : Cardinality(BeforeIn(A, R, x)) = k - 1]
    BY DEF InPlace
  <2> DEFINE ip == InPlace(A, R)
             at(k) == CHOOSE x \in A : Cardinality({y \in A \ {x} : Smaller(G, y, x)}) = k - 1
             in(k) == CHOOSE x \in A : Cardinality(BeforeIn(A, R, x)) = k - 1
  <2> HIDE DEF A, av, R, N
  <2>4. ASSUME NEW k PROVE at(k) = in(k)
    BY <2>1
  <2>5. av = [k \in 1..N |-> at(k)] /\ ip = [k \in 1..N |-> in(k)]
    BY <2>2, <2>3
  <2> HIDE DEF at, in, ip
  <2>6. av = ip
    BY <2>4, <2>5
  <2> QED
    BY <2>6 DEF ip
<1> HIDE DEF R
<1>3. IsFiniteSet(A) /\ Orders(R, A)
  <2>1. CASE p = Primordial
    <3>1. IsFiniteSet(A)
      <4>1. A \subseteq {Freespace(d) : d \in ToSet(Disks)}
        BY <2>1, AvailableIsFree
      <4> QED
        BY <4>1, DisksAreFinite, FS_Subset
    <3>2. \A x \in A : x[2] \in ToSet(Disks) /\ x = Freespace(x[2]) /\ G.ext[x].size \in Int
      BY <2>1, FreeSizes
    <3>3. \A x \in A : Rank(x) \in DOMAIN Disks /\ Disks[Rank(x)] = x[2] /\ Rank(x) \in Int
      BY <3>2, DiskAssumption DEF Rank, ToSet
    <3> HIDE DEF A
    <3>4. \A x \in A : \A y \in A : x # y => Smaller(G, x, y) \/ Smaller(G, y, x)
      <4> SUFFICES ASSUME NEW x \in A, NEW y \in A, x # y PROVE Smaller(G, x, y) \/ Smaller(G, y, x)
        OBVIOUS
      <4>1. Rank(x) # Rank(y)
        BY <3>2, <3>3
      <4> QED
        BY <3>2, <3>3, <4>1 DEF Smaller
    <3>5. \A x \in A : \A y \in A : x # y => ~(Smaller(G, x, y) /\ Smaller(G, y, x))
      BY <3>2, <3>3 DEF Smaller
    <3>6. \A x \in A : \A y \in A : \A z \in A : Smaller(G, x, y) /\ Smaller(G, y, z) => Smaller(G, x, z)
      BY <3>2, <3>3 DEF Smaller
    <3> QED
      BY <1>1, <3>1, <3>4, <3>5, <3>6 DEF Orders
  <2>2. CASE p \in VgNames
    <3>1. \A x \in A : x = Freespace(p)
      BY <2>2, AvailableIsFree
    <3> HIDE DEF A
    <3>2. A \subseteq {Freespace(p)}
      BY <3>1
    <3>3. IsFiniteSet(A)
      BY <3>2, FS_Singleton, FS_Subset
    <3> QED
      BY <3>1, <3>3 DEF Orders
  <2> QED
    BY <2>1, <2>2
<1>4. N \in Nat /\ DOMAIN av = 1..N
  BY <1>2, <1>3, InPlaceIs DEF InPlace
<1>5. Len(av) = N
  <2> HIDE DEF av, N
  <2> QED
    BY <1>4
<1> HIDE DEF A, av
<1> QED
  BY <1>2, <1>3, <1>4, <1>5, InPlaceIs DEF A, av

\* A plan takes from each disk once, and not more than there is.
PlanFits(L, plan) ==
    /\ IsSeq(plan)
    /\ \A i \in DOMAIN plan : plan[i].from[2] \in ToSet(Disks) =>
           plan[i].bytes \in Int /\ plan[i].bytes <= DiskSize - Taken(L, plan[i].from[2])
    /\ \A i \in DOMAIN plan : \A j \in DOMAIN plan :
           plan[i].from[2] \in ToSet(Disks) /\ plan[i].from[2] = plan[j].from[2] => i = j

LEMMA EmptyPlanFits ==
    ASSUME NEW L
    PROVE  PlanFits(L, <<>>)
<1>1. IsSeq(<<>>) /\ DOMAIN <<>> = {}
  BY DEF IsSeq
<1> QED
  BY <1>1 DEF PlanFits

\* So does one that takes from each available extent once.
LEMMA AvailablePlanFits ==
    ASSUME NamesDiffer, NEW G, NEW L, ShowsSpace(G, L), IsFiniteSet(L.part), SizesOK(L),
           NEW p \in VgNames \cup {Primordial}, NEW plan, IsSeq(plan),
           \A i \in DOMAIN plan : plan[i].from \in Available(G, p),
           \A i \in DOMAIN plan : \A j \in DOMAIN plan : plan[i].from = plan[j].from => i = j,
           p = Primordial => \A i \in DOMAIN plan :
                                 plan[i].bytes \in Int /\ plan[i].bytes <= G.ext[plan[i].from].size
    PROVE  PlanFits(L, plan)
<1>1. CASE p = Primordial
  <2>1. ASSUME NEW i \in DOMAIN plan
        PROVE  /\ plan[i].from = Freespace(plan[i].from[2])
               /\ G.ext[plan[i].from].size = DiskSize - Taken(L, plan[i].from[2])
    BY <1>1, FreeSizes
  <2> QED
    BY <1>1, <2>1 DEF PlanFits
<1>2. CASE p \in VgNames
  <2>1. ASSUME NEW i \in DOMAIN plan
        PROVE  plan[i].from[2] \notin ToSet(Disks)
    <3>1. plan[i].from = Freespace(p)
      BY <1>2, AvailableIsFree
    <3> QED
      BY <1>2, <3>1 DEF Freespace, NamesDiffer
  <2> QED
    BY <2>1 DEF PlanFits
<1> QED
  BY <1>1, <1>2

\* The least of two.
LEMMA LesserIs ==
    ASSUME NEW m \in Int, NEW n \in Int
    PROVE  Min({m, n}) \in Int /\ Min({m, n}) <= m
<1>1. \E x \in {m, n} : \A y \in {m, n} : x <= y
  OBVIOUS
<1>2. Min({m, n}) \in {m, n} /\ \A y \in {m, n} : Min({m, n}) <= y
  BY <1>1 DEF Min
<1> QED
  BY <1>2

\* SelectJBODExtents: one extent, or the largest ones.
LEMMA JBODPlanFits ==
    ASSUME NamesDiffer, NEW G, NEW L, ShowsSpace(G, L), IsFiniteSet(L.part), SizesOK(L),
           NEW p \in VgNames \cup {Primordial}, NEW size, p = Primordial => size \in Int
    PROVE  PlanFits(L, SelectJBODExtents(G, GetAvailableExtents(G, p), size))
<1> DEFINE avail == GetAvailableExtents(G, p)
           N == Len(avail)
           bytes(i) == G.ext[avail[i]].size
           single == {i \in DOMAIN avail : bytes(i) >= size}
           above(i) == MapThenSumSet(bytes, (i + 1)..Len(avail))
           taken == {i \in DOMAIN avail : above(i) < size}
           cut(i) == [from |-> avail[i], bytes |-> Min({bytes(i), size - above(i)})]
           C == Cardinality(taken)
           some == [k \in 1..C |-> cut(N - C + k)]
           one == <<[from |-> avail[Min(single)], bytes |-> size]>>
<1> SUFFICES PlanFits(L, SelectJBODExtents(G, avail, size))
  OBVIOUS
<1>1. SelectJBODExtents(G, avail, size) = IF single # {} THEN one ELSE Reverse(some)
  BY DEF SelectJBODExtents
<1>2. /\ N \in Nat /\ DOMAIN avail = 1..N
      /\ \A k \in 1..N : avail[k] \in Available(G, p)
      /\ \A j \in 1..N : \A k \in 1..N : avail[j] = avail[k] => j = k
  BY AvailableInPlace
<1>3. p = Primordial => \A k \in 1..N : bytes(k) \in Int
  <2> SUFFICES ASSUME p = Primordial, NEW k \in 1..N PROVE bytes(k) \in Int
    OBVIOUS
  <2>1. avail[k] \in Available(G, Primordial)
    BY <1>2
  <2> HIDE DEF avail
  <2> QED
    BY <2>1, FreeSizes
<1>4. ASSUME p = Primordial, NEW i \in 1..N PROVE above(i) \in Int
  <2> DEFINE S == (i + 1)..N
             g == [k \in S |-> G.ext[avail[k]].size]
  <2>1. IsFiniteSet(S)
    BY <1>2, FS_Interval
  <2>2. S \subseteq 1..N
    BY <1>2
  <2>3. \A k \in S : g[k] = G.ext[avail[k]].size /\ g[k] \in Int
    BY <1>3, <1>4, <2>2
  <2> HIDE DEF g
  <2>4. Total(g, S) \in Int
    <3>1. S \in SUBSET S /\ \A k \in S : g[k] \in Int
      BY <2>3
    <3> HIDE DEF S
    <3> QED
      BY <2>1, <3>1, Totals
  <2> DEFINE F(f) == [s \in SUBSET S |-> IF s = {} THEN 0
                                         ELSE G.ext[avail[CHOOSE x \in s : TRUE]].size + f[s \ {CHOOSE x \in s : TRUE}]]
             H(f) == [s \in SUBSET S |-> IF s = {} THEN 0 ELSE g[AnyOf(s)] + f[s \ {AnyOf(s)}]]
             h == CHOOSE f : f = F(f)
  <2>5. above(i) = h[S]
    BY DEF MapThenSumSet, MapThenFoldSet
  <2> HIDE DEF S, above, avail
  <2>6. ASSUME NEW f
        PROVE  F(f) = H(f)
    <3>1. \A s \in SUBSET S : s # {} => AnyOf(s) \in S /\ g[AnyOf(s)] = G.ext[avail[CHOOSE x \in s : TRUE]].size
      BY <2>3, AnyOfIsIn DEF AnyOf
    <3> QED
      BY <3>1 DEF AnyOf
  <2>7. PICK f : SumsUp(f, g, S)
    BY <2>1, SumExists
  <2>8. f = F(f)
    BY <2>6, <2>7 DEF SumsUp
  <2>9. h = F(h)
    <3> HIDE DEF F
    <3> QED
      BY <2>8
  <2> HIDE DEF F
  <2>10. h = H(h)
    BY <2>6, <2>9
  <2> HIDE DEF h
  <2>11. SumsUp(h, g, S)
    BY <2>10 DEF SumsUp
  <2>12. h[S] = Total(g, S)
    BY <2>1, <2>11, TotalIs
  <2> QED
    BY <2>4, <2>5, <2>12
<1> HIDE DEF above
<1>5. CASE single # {}
  <2>1. Min(single) \in 1..N /\ Min(single) \in single
    <3>1. single \subseteq 1..N /\ single \in SUBSET Nat
      BY <1>2
    <3> HIDE DEF single
    <3>2. \E n \in single : \A m \in single : n <= m
      BY <1>5, <3>1, LeastNumber
    <3> QED
      BY <3>1, <3>2 DEF Min
  <2>2. p = Primordial => bytes(Min(single)) >= size
    BY <2>1
  <2> DEFINE k == Min(single)
  <2> HIDE DEF k, single, avail, N
  <2>3. DOMAIN one = {1} /\ one[1].from = avail[k] /\ one[1].bytes = size
    BY DEF k
  <2>4. IsSeq(one)
    <3>1. one \in Seq({one[1]})
      BY DEF k
    <3>2. ToSet(one) = {one[1]}
      BY <2>3 DEF ToSet
    <3> QED
      BY <3>1, <3>2 DEF IsSeq
  <2>5. avail[k] \in Available(G, p)
    BY <1>2, <2>1 DEF k
  <2>6. p = Primordial => bytes(k) >= size /\ bytes(k) \in Int
    BY <1>3, <2>1, <2>2 DEF k
  <2> DEFINE o == one
  <2>7. /\ \A i \in DOMAIN o : o[i].from \in Available(G, p)
        /\ \A i \in DOMAIN o : \A j \in DOMAIN o : o[i].from = o[j].from => i = j
        /\ p = Primordial => \A i \in DOMAIN o : o[i].bytes \in Int /\ o[i].bytes <= G.ext[o[i].from].size
    <3>1. DOMAIN o = {1} /\ o[1].from = avail[k] /\ o[1].bytes = size
      BY <2>3
    <3> HIDE DEF o
    <3> QED
      BY <2>5, <2>6, <3>1
  <2>8. PlanFits(L, o)
    <3>1. IsSeq(o)
      BY <2>4
    <3> HIDE DEF o
    <3> QED
      BY <2>7, <3>1, AvailablePlanFits
  <2> QED
    BY <1>1, <1>5, <2>8
<1>6. CASE single = {}
  <2>1. C \in 0..N
    <3>1. taken \subseteq 1..N
      BY <1>2
    <3> HIDE DEF taken
    <3>2. IsFiniteSet(1..N) /\ Cardinality(1..N) = N
      BY <1>2, FS_Interval
    <3>3. C \in Nat /\ C <= Cardinality(1..N)
      BY <3>1, <3>2, FS_Subset, FS_CardinalityType
    <3> QED
      BY <1>2, <3>2, <3>3
  <2> HIDE DEF C, single, avail, N
  <2> DEFINE h(k) == N - C + k
  <2>2. \A k \in 1..C : /\ some[k].from = avail[h(k)] /\ h(k) \in 1..N
                        /\ some[k].bytes = Min({bytes(h(k)), size - above(h(k))})
    BY <1>2, <2>1
  <2>3. ASSUME p = Primordial, NEW k \in 1..C
        PROVE  some[k].bytes \in Int /\ some[k].bytes <= G.ext[some[k].from].size
    <3>1. h(k) \in 1..N
      BY <2>2
    <3>2. bytes(h(k)) \in Int /\ size - above(h(k)) \in Int
      BY <1>3, <1>4, <2>3, <3>1
    <3> HIDE DEF h
    <3>3. Min({bytes(h(k)), size - above(h(k))}) \in Int
          /\ Min({bytes(h(k)), size - above(h(k))}) <= bytes(h(k))
      BY <3>2, LesserIs
    <3> QED
      BY <2>2, <3>3
  <2> DEFINE s == some
             r == Reverse(s)
  <2>4. DOMAIN s = 1..C /\ s = [k \in 1..C |-> s[k]]
    OBVIOUS
  <2>5. ASSUME NEW j \in 1..C, NEW k \in 1..C, s[j].from = s[k].from PROVE j = k
    BY <1>2, <2>1, <2>2, <2>5
  <2>6. \A k \in 1..C : s[k].from \in Available(G, p)
    BY <1>2, <2>2
  <2> HIDE DEF s, some
  <2>7. IsSeq(s) /\ Len(s) = C
    <3>1. \A k \in 1..C : s[k] \in ToSet(s)
      BY <2>4 DEF ToSet
    <3> QED
      BY <2>1, <2>4, <3>1 DEF IsSeq
  <2>8. /\ r = [k \in 1..C |-> s[(C - k) + 1]] /\ IsSeq(r)
    BY <2>7, ReverseIsSeq DEF Reverse
  <2>9. DOMAIN r = 1..C /\ \A k \in 1..C : r[k] = s[(C - k) + 1] /\ (C - k) + 1 \in 1..C
    BY <2>1, <2>8
  <2> HIDE DEF r
  <2>10. p = Primordial => \A k \in 1..C : s[k].bytes \in Int /\ s[k].bytes <= G.ext[s[k].from].size
    BY <2>3 DEF s
  <2>11. \A i \in DOMAIN r : r[i].from \in Available(G, p)
    BY <2>6, <2>9
  <2>12. \A i \in DOMAIN r : \A j \in DOMAIN r : r[i].from = r[j].from => i = j
    <3> SUFFICES ASSUME NEW i \in 1..C, NEW j \in 1..C, r[i].from = r[j].from PROVE i = j
      BY <2>9
    <3>1. (C - i) + 1 = (C - j) + 1
      BY <2>5, <2>9
    <3> QED
      BY <2>1, <3>1
  <2>13. p = Primordial => \A i \in DOMAIN r : r[i].bytes \in Int /\ r[i].bytes <= G.ext[r[i].from].size
    BY <2>9, <2>10
  <2>14. PlanFits(L, r)
    BY <2>8, <2>11, <2>12, <2>13, AvailablePlanFits
  <2> QED
    BY <1>1, <1>6, <2>14 DEF r, s
<1> QED
  BY <1>5, <1>6

\* SelectRAIDExtents: extents that have the size.
LEMMA RAIDPlanFits ==
    ASSUME NamesDiffer, NEW G, NEW L, ShowsSpace(G, L), IsFiniteSet(L.part), SizesOK(L),
           NEW num \in Nat, NEW size \in Int, NEW plan \in SelectRAIDExtents(G, Primordial, num, size)
    PROVE  PlanFits(L, plan)
<1> DEFINE fit == {x \in Available(G, Primordial) : G.ext[x].size >= size}
           n == Min({num, Cardinality(fit)})
<1>1. TakesFromDisks(plan)
  BY RAIDExtentsAreApart DEF ShowsSpace
<1>2. PICK xs \in Injection(1..n, fit) : plan = [k \in DOMAIN xs |-> [from |-> xs[k], bytes |-> size]]
  BY DEF SelectRAIDExtents
<1> HIDE DEF n
<1>3. \A i \in DOMAIN plan : plan[i].from \in fit /\ plan[i].bytes = size
  <2> HIDE DEF fit
  <2>1. xs \in [1..n -> fit]
    BY DEF Injection
  <2> QED
    BY <1>2, <2>1
<1>4. \A i \in DOMAIN plan : /\ plan[i].from \in Available(G, Primordial)
                             /\ plan[i].bytes \in Int /\ plan[i].bytes <= G.ext[plan[i].from].size
  <2> SUFFICES ASSUME NEW i \in DOMAIN plan
               PROVE  /\ plan[i].from \in Available(G, Primordial)
                      /\ plan[i].bytes \in Int /\ plan[i].bytes <= G.ext[plan[i].from].size
    OBVIOUS
  <2> DEFINE x == plan[i].from
  <2>1. x \in Available(G, Primordial) /\ G.ext[x].size >= size /\ plan[i].bytes = size
    BY <1>3
  <2>2. G.ext[x].size \in Int
    <3> HIDE DEF x
    <3> QED
      BY <2>1, FreeSizes
  <2> QED
    BY <2>1, <2>2
<1> QED
  BY <1>1, <1>4, AvailablePlanFits DEF TakesFromDisks

\* What there is in the primordial pool for a goal is a number.
LEMMA MostIsNumber ==
    ASSUME NamesDiffer, NEW G, NEW L, ShowsSpace(G, L), IsFiniteSet(L.part), SizesOK(L),
           NEW goal \in Goals, Supported(goal), NEW unset \in Int
    PROVE  GetSupportedSizeRange(G, Primordial, goal, unset) \in Int
<1> DEFINE avail  == GetAvailableExtents(G, Primordial)
           N == Len(avail)
           needed == goal.dr * goal.stripe
           rows   == IF goal.parity = 2 THEN goal.stripe - 1 ELSE goal.stripe
           n == IF IsJBOD(goal) \/ PoolGoalMatchesDefault(G, Primordial, goal)
                THEN G.pool[Primordial].remaining
                ELSE IF N < needed THEN unset
                ELSE rows * G.ext[avail[N - needed + 1]].size
<1>1. GetSupportedSizeRange(G, Primordial, goal, unset) = AtLeastMin(n)
  BY DEF GetSupportedSizeRange
<1>2. goal.dr \in Nat /\ goal.stripe \in Nat
  BY RaidAssumption
<1>3. needed \in Nat \ {0}
  <2>1. goal.dr >= 1 /\ goal.stripe >= 1
    BY <1>2 DEF Supported, IsJBOD, IsRAID0, IsRAID1, IsRAID10, IsRAID5
  <2>2. goal.dr * goal.stripe >= 1
    BY <1>2, <2>1
  <2> QED
    BY <1>2, <2>2
<1>4. /\ N \in Nat /\ \A k \in 1..N : avail[k] \in Available(G, Primordial)
  BY AvailableInPlace
<1>5. \A k \in 1..N : G.ext[avail[k]].size \in Int
  <2> HIDE DEF avail, N
  <2>1. ASSUME NEW x \in Available(G, Primordial) PROVE G.ext[x].size \in Int
    BY FreeSizes
  <2> QED
    BY <1>4, <2>1
<1>6. ~(N < needed) => G.ext[avail[N - needed + 1]].size \in Int
  <2> HIDE DEF avail, N, needed
  <2> QED
    BY <1>3, <1>4, <1>5
<1>7. rows \in Int /\ G.pool[Primordial].remaining \in Int
  BY <1>2 DEF ShowsSpace
<1>8. n \in Int
  <2> HIDE DEF avail, N, needed, rows
  <2> QED
    BY <1>6, <1>7
<1> HIDE DEF n
<1> QED
  BY <1>1, <1>8 DEF AtLeastMin

LEMMA PlansFit ==
    ASSUME NamesDiffer, NEW G, NEW L, ShowsSpace(G, L), IsFiniteSet(L.part), SizesOK(L),
           NEW goal \in Goals, NEW p \in VgNames \cup {Primordial}, NEW n,
           p = Primordial => n \in Int, Kind(G, p, goal) # "JBOD" => p = Primordial,
           NEW plan \in Plans(G, p, goal, n)
    PROVE  PlanFits(L, plan)
<1>1. CASE Kind(G, p, goal) = "JBOD"
  BY <1>1, JBODPlanFits DEF Plans
<1>2. CASE plan = <<>>
  BY <1>2, EmptyPlanFits
<1>3. ASSUME Kind(G, p, goal) # "JBOD", plan # <<>>
      PROVE  p = Primordial /\ \E num \in Nat : \E size \in Int : plan \in SelectRAIDExtents(G, Primordial, num, size)
  <2>1. p = Primordial /\ n \in Int /\ goal.dr \in Nat /\ goal.stripe \in Nat /\ goal.dr * goal.stripe \in Nat
    BY <1>3, RaidAssumption
  <2> DEFINE kind == Kind(G, p, goal)
  <2>2. CASE kind = "RAID0"
    <3>1. goal.stripe > 1
      BY <2>2 DEF Kind, IsRAID0
    <3>2. n \div goal.stripe \in Int
      BY <2>1, <3>1
    <3>3. plan \in SelectRAIDExtents(G, p, goal.stripe, n \div goal.stripe)
      BY <2>2 DEF Plans
    <3> QED
      BY <2>1, <3>2, <3>3
  <2>3. CASE kind = "RAID1"
    <3>1. plan \in SelectRAIDExtents(G, p, goal.dr, n)
      BY <2>3 DEF Plans
    <3> QED
      BY <2>1, <3>1
  <2>4. CASE kind = "RAID10"
    <3>1. goal.stripe > 1
      BY <2>4 DEF Kind, IsRAID10
    <3>2. n \div goal.stripe \in Int
      BY <2>1, <3>1
    <3>3. plan \in SelectRAIDExtents(G, p, goal.dr * goal.stripe, n \div goal.stripe)
      BY <2>4 DEF Plans
    <3> QED
      BY <2>1, <3>2, <3>3
  <2>5. CASE kind = "RAID5"
    <3>1. goal.stripe > 2
      BY <2>5 DEF Kind, IsRAID5
    <3>2. n \div (goal.stripe - 1) \in Int
      BY <2>1, <3>1
    <3>3. plan \in SelectRAIDExtents(G, p, goal.stripe, n \div (goal.stripe - 1))
      BY <2>5 DEF Plans
    <3> QED
      BY <2>1, <3>2, <3>3
  <2>6. kind \in {"RAID0", "RAID1", "RAID10", "RAID5"}
    BY <1>3 DEF Plans, Kind
  <2> QED
    BY <2>2, <2>3, <2>4, <2>5, <2>6
<1>4. ASSUME Kind(G, p, goal) # "JBOD", plan # <<>>
      PROVE  PlanFits(L, plan)
  BY <1>3, <1>4, RAIDPlanFits
<1> QED
  BY <1>1, <1>2, <1>4

-----------------------------------------------------------------------------
(***************************************************************************)
(* What is granted, until it is cut                                        *)
(***************************************************************************)

\* The partitions have sizes, the arrays show the space there is until
\* something is changed, and a plan fits until it has been carried out.
SpaceInv ==
    /\ SizesOK(lib) /\ SizesOK(disk)
    /\ ~needScan /\ call.pc \in {"idle", "create", "delete"} => ShowsSpace(graph, lib)
    /\ call.pc \in {"create", "cut"} => call.op = "create"
    /\ call.op = "create" /\ call.pc \in {"enter", "create"} =>
           call.size \in Nat /\ call.in \in VgNames \cup {Primordial, NULL}
    /\ call.pc = "cut" => PlanFits(lib, call.plan)

\* What has no part in partitions leaves their sizes.
LEMMA SamePartsSameSizes ==
    ASSUME NEW L, SizesOK(L), NEW M, M.part = L.part
    PROVE  SizesOK(M)
  BY DEF SizesOK

LEMMA DevicesOnlyAreMade ==
    ASSUME NEW L, LayoutInv(L), SizesOK(L)
    PROVE  /\ \A level, xs : SizesOK(MdCreated(L, level, xs))
           /\ \A n : SizesOK(MdRemoved(L, n))
           /\ \A v, xs : SizesOK(VgCreated(L, v, xs))
           /\ \A v : SizesOK(VgRemoved(L, v))
           /\ \A v, l, n : SizesOK(LvCreated(L, v, l, n))
           /\ \A x : SizesOK(PartitionRemoved(L, x))
           /\ \A v, xs : \A r \in Grouped(L, v, xs) : SizesOK(r.lib)
           /\ \A level, xs, v : \A r \in Composed(L, level, xs, v) : SizesOK(r.lib)
<1>1. "part" \in DOMAIN L
  BY DEF LayoutInv
<1>2. \A level, xs : MdCreated(L, level, xs).part = L.part
  BY <1>1 DEF MdCreated
<1>3. \A n : MdRemoved(L, n).part = L.part
  BY <1>1 DEF MdRemoved
<1>4. \A M : "part" \in DOMAIN M => \A v, xs : VgCreated(M, v, xs).part = M.part
  BY DEF VgCreated
<1>5. \A v : VgRemoved(L, v).part = L.part
  BY <1>1 DEF VgRemoved
<1>6. \A v, l, n : LvCreated(L, v, l, n).part = L.part
  BY <1>1 DEF LvCreated
<1>7. \A x : PartitionRemoved(L, x).part \subseteq L.part
  BY <1>1 DEF PartitionRemoved
<1>8. \A M : "part" \in DOMAIN M => \A v, xs : \A r \in Grouped(M, v, xs) : r.lib.part = M.part
  BY <1>4 DEF Grouped
<1>9. \A level, xs : "part" \in DOMAIN MdCreated(L, level, xs)
  BY <1>1 DEF MdCreated
<1>10. \A level, xs, v : \A r \in Composed(L, level, xs, v) : r.lib.part = L.part
  <2> SUFFICES ASSUME NEW level, NEW xs, NEW v, NEW r \in Composed(L, level, xs, v)
               PROVE  r.lib.part = L.part
    OBVIOUS
  <2> DEFINE M == MdCreated(L, level, xs)
  <2>1. \/ r \in Grouped(M, v, <<Md(NewMd(L))>>)
        \/ r.lib = L
        \/ r.lib = M
    BY DEF Composed
  <2> QED
    BY <1>2, <1>8, <1>9, <2>1
<1>11. \A x : SizesOK(PartitionRemoved(L, x))
  BY <1>7 DEF SizesOK
<1>12. \A M : M.part = L.part => SizesOK(M)
  BY SamePartsSameSizes
<1> QED
  BY <1>1, <1>2, <1>3, <1>4, <1>5, <1>6, <1>8, <1>10, <1>11, <1>12

\* After a step the call is over, or past the plan,
LEMMA PlanIsDone ==
    ASSUME SizesOK(lib)', SizesOK(disk)',
           \/ call'.pc \in {"cleanup", "remove", "scan"}
           \/ call'.pc = "cut" /\ call'.op = "create" /\ call'.plan = <<>>
    PROVE  SpaceInv'
<1>1. PlanFits(lib', <<>>)
  BY EmptyPlanFits
<1> QED
  BY <1>1 DEF SpaceInv

LEMMA IdleShowsSpace ==
    ASSUME SizesOK(lib)', SizesOK(disk)', call'.pc = "idle", ~needScan' => ShowsSpace(graph, lib)'
    PROVE  SpaceInv'
  BY DEF SpaceInv

LEMMA EndsSpace ==
    ASSUME SpaceInv, NEW how, Ends(how)
    PROVE  SpaceInv'
<1>1. lib' = disk /\ disk' = disk /\ needScan' /\ call'.pc = "idle"
  BY DEF Ends, Idle
<1> QED
  BY <1>1, IdleShowsSpace DEF SpaceInv

LEMMA InitSpace == Init => DevicesInv /\ SpaceInv
<1> SUFFICES ASSUME Init PROVE DevicesInv /\ SpaceInv
  OBVIOUS
<1>1. lib = BlankLayout /\ disk = BlankLayout /\ needScan /\ call.pc = "idle"
  BY DEF Init, Idle
<1>2. SizesOK(BlankLayout)
  BY DEF SizesOK, BlankLayout
<1> QED
  BY <1>1, <1>2, BlankDevicesOK DEF DevicesInv, SpaceInv

\* Requests.
LEMMA RequestsSpace ==
    ASSUME NamesDiffer, RaidInv, DevicesInv, SpaceInv, RequestCreate \/ RequestDelete \/ UsePool
    PROVE  SpaceInv'
<1>1. call.pc = "idle"
  BY DEF RequestCreate, RequestDelete, UsePool
<1>2. CASE RequestCreate
  <2>1. UNCHANGED <<lib, disk, graph, needScan>>
    BY <1>2, Zenon DEF RequestCreate
  <2>2. /\ call'.pc = (IF needScan THEN "enter" ELSE "create") /\ call'.op = "create"
        /\ call'.size \in Sizes /\ call'.in \in {Primordial, NULL} \cup VgsOf(lib)
    BY <1>2 DEF RequestCreate, Idle
  <2>3. call'.size \in Nat /\ call'.in \in VgNames \cup {Primordial, NULL}
    BY <2>2, RaidAssumption DEF VgsOf
  <2> QED
    BY <1>1, <2>1, <2>2, <2>3 DEF SpaceInv
<1>3. CASE RequestDelete
  <2>1. UNCHANGED <<lib, disk, graph, needScan>>
    BY <1>3, Zenon DEF RequestDelete
  <2>2. call'.pc = (IF needScan THEN "enter" ELSE "delete") /\ call'.op = "delete"
    BY <1>3 DEF RequestDelete, Idle
  <2> QED
    BY <1>1, <2>1, <2>2 DEF SpaceInv
<1>4. CASE UsePool
  <2>1. PICK v, l : \E L \in {LvCreated(lib, v, l, OneKB)} : \E G \in {SCSScanStorage(L)} :
                        /\ Commit(L)
                        /\ graph' = IF G.defined THEN G ELSE EmptyGraph
                        /\ needScan' = ~G.defined
    BY <1>4 DEF UsePool
  <2> DEFINE L == LvCreated(lib, v, l, OneKB)
             G == SCSScanStorage(L)
  <2>2. /\ lib' = L /\ disk' = L /\ graph' = (IF G.defined THEN G ELSE EmptyGraph)
        /\ needScan' = ~G.defined
    BY <2>1 DEF Commit
  <2>3. LayoutInv(L)
    <3>1. IsSeq(<<>>)
      BY DEF IsSeq
    <3> QED
      BY <3>1, GroupsAreSound DEF RaidInv
  <2>4. DevicesOK(L) /\ SizesOK(L)
    BY LvCreatedDevices, DevicesOnlyAreMade DEF RaidInv, DevicesInv, SpaceInv
  <2> HIDE DEF L
  <2>5. ShowsSpace(G, L)
    BY <2>3, <2>4, ScanShowsSpace
  <2>6. call'.pc = "idle"
    BY <1>1, <1>4 DEF UsePool
  <2> HIDE DEF G
  <2> QED
    BY <2>2, <2>4, <2>5, <2>6, IdleShowsSpace
<1> QED
  BY <1>2, <1>3, <1>4

\* Scans, and what is refused.
LEMMA ScansSpace ==
    ASSUME NamesDiffer, RaidInv, DevicesInv, SpaceInv,
           Enter \/ ScanAndAnswer \/ RefuseGoalOrSize \/ RefuseUsedPool
    PROVE  SpaceInv'
<1> DEFINE G == SCSScanStorage(lib)
<1>1. /\ LayoutInv(lib) /\ DevicesOK(lib) /\ SizesOK(lib) /\ SizesOK(disk)
      /\ DOMAIN call = DOMAIN Idle
      /\ call.pc = "enter" => call.op \in {"create", "delete"}
  BY DEF RaidInv, CallInv, DevicesInv, SpaceInv
<1>2. ShowsSpace(G, lib)
  BY <1>1, ScanShowsSpace
<1>3. CASE Enter
  <2>1. \/ Ends("died")
        \/ graph' = G /\ call' = [call EXCEPT !.pc = call.op] /\ UNCHANGED <<lib, disk>>
    BY <1>3 DEF Enter, ScanStorage
  <2> HIDE DEF G
  <2>2. call.pc = "enter"
    BY <1>3 DEF Enter
  <2>3. CASE graph' = G /\ call' = [call EXCEPT !.pc = call.op] /\ UNCHANGED <<lib, disk>>
    <3>1. call'.pc = call.op /\ call'.op = call.op /\ call'.size = call.size /\ call'.in = call.in
      BY <1>1, <2>3 DEF Idle
    <3> QED
      BY <1>1, <1>2, <2>2, <2>3, <3>1 DEF SpaceInv
  <2> QED
    BY <2>1, <2>3, EndsSpace
<1>4. CASE ScanAndAnswer
  <2>1. \/ Ends("died")
        \/ graph' = G /\ call' = Idle /\ UNCHANGED <<lib, disk>>
    BY <1>4 DEF ScanAndAnswer, ScanStorage
  <2> HIDE DEF G
  <2>2. CASE graph' = G /\ call' = Idle /\ UNCHANGED <<lib, disk>>
    <3>1. call'.pc = "idle"
      BY <2>2 DEF Idle
    <3> QED
      BY <1>1, <1>2, <2>2, <3>1, IdleShowsSpace
  <2> QED
    BY <2>1, <2>2, EndsSpace
<1>5. CASE RefuseGoalOrSize \/ RefuseUsedPool
  <2>1. call.pc \in {"create", "delete"} /\ call' = Idle /\ UNCHANGED <<lib, disk, graph, needScan>>
    BY <1>5 DEF RefuseGoalOrSize, RefuseUsedPool
  <2>2. call'.pc = "idle"
    BY <2>1 DEF Idle
  <2>3. ~needScan' => ShowsSpace(graph, lib)'
    BY <2>1 DEF SpaceInv
  <2> QED
    BY <1>1, <2>1, <2>2, <2>3, IdleShowsSpace
<1> QED
  BY <1>3, <1>4, <1>5

\* The plan is made from what the arrays show.
LEMMA SelectedSpace ==
    ASSUME NamesDiffer, RaidInv, SpaceInv, call.pc = "create", Supported(call.goal), UNCHANGED <<lib, disk>>,
           NEW unset \in Int, NEW p \in VgNames \cup {Primordial},
           GetSupportedSizeRange(graph, p, call.goal, unset) # 0,
           NEW n, Selected(p, n), n \in {GetSupportedSizeRange(graph, p, call.goal, unset), call.size}
    PROVE  SpaceInv'
<1>1. /\ DOMAIN call = DOMAIN Idle /\ call.goal \in Goals /\ ~needScan
      /\ IsFiniteSet(lib.part)
  BY LayoutIsOK DEF RaidInv, CallInv
<1>2. ShowsSpace(graph, lib) /\ SizesOK(lib) /\ SizesOK(disk) /\ call.op = "create" /\ call.size \in Nat
  BY <1>1 DEF SpaceInv
<1>3. p = Primordial => n \in Int
  <2>1. p = Primordial => GetSupportedSizeRange(graph, p, call.goal, unset) \in Int
    BY <1>1, <1>2, MostIsNumber
  <2> QED
    BY <1>2, <2>1
<1>4. PICK plan \in Plans(graph, p, call.goal, n) :
          call' = [call EXCEPT !.pc = "cut", !.in = p, !.size = n, !.plan = plan]
  BY DEF Selected
<1>5. Kind(graph, p, call.goal) # "JBOD" => p = Primordial
  BY RaidIsPrimordial
<1>6. PlanFits(lib, plan)
  BY <1>1, <1>2, <1>3, <1>4, <1>5, PlansFit
<1>7. call'.pc = "cut" /\ call'.plan = plan /\ call'.op = "create"
  BY <1>1, <1>2, <1>4 DEF Idle
<1> QED
  BY <1>2, <1>6, <1>7 DEF SpaceInv

LEMMA ChooseExtentsSpace ==
    ASSUME NamesDiffer, RaidInv, SpaceInv, ChooseExtents
    PROVE  SpaceInv'
<1>1. /\ call.pc = "create" /\ Supported(call.goal) /\ UNCHANGED <<lib, disk, graph, needScan>>
      /\ DOMAIN call = DOMAIN Idle /\ ~needScan
  BY DEF ChooseExtents, RaidInv, CallInv
<1>2. /\ ShowsSpace(graph, lib) /\ call.in \in VgNames \cup {Primordial, NULL}
      /\ SizesOK(lib) /\ SizesOK(disk)
  BY <1>1 DEF SpaceInv
<1>3. CASE call' = Exit("SIZE_NOT_SUPPORTED")
  <2>1. call'.pc = "scan"
    BY <1>1, <1>3 DEF Exit, Idle
  <2> QED
    BY <1>1, <1>2, <2>1, PlanIsDone
<1>4. CASE \E unset \in Int : \E p \in VgNames \cup {Primordial} : \E n :
              /\ GetSupportedSizeRange(graph, p, call.goal, unset) # 0 /\ Selected(p, n)
              /\ n \in {GetSupportedSizeRange(graph, p, call.goal, unset), call.size}
  BY <1>1, <1>4, SelectedSpace
<1>5. ASSUME NEW unset, NEW p \in PoolsFindByGoal(graph, call.goal, call.size, unset)
      PROVE  p \in VgNames \cup {Primordial}
  <2>1. DOMAIN graph.pool \subseteq VgNames \cup {Primordial}
    BY <1>2 DEF ShowsSpace, Sees
  <2>2. p \in DOMAIN graph.pool
    BY <1>5 DEF PoolsFindByGoal, Suiting
  <2> QED
    BY <2>1, <2>2
<1> DEFINE most(p, unset) == GetSupportedSizeRange(graph, p, call.goal, unset)
           wanted(p, unset) == IF call.size = 0 THEN most(p, unset) ELSE call.size
           found(unset) == IF call.in = NULL THEN PoolsFindByGoal(graph, call.goal, call.size, unset)
                           ELSE {p \in {call.in} : most(p, unset) >= call.size /\ most(p, unset) # 0}
<1>6. \/ call' = Exit("SIZE_NOT_SUPPORTED")
      \/ \E unset \in {0, Garbage} : \E p \in found(unset) : Selected(p, wanted(p, unset))
  BY DEF ChooseExtents
<1>7. ASSUME NEW unset \in {0, Garbage}, NEW p \in found(unset)
      PROVE  unset \in Int /\ p \in VgNames \cup {Primordial} /\ most(p, unset) # 0
  <2>1. CASE call.in = NULL
    <3>1. p \in PoolsFindByGoal(graph, call.goal, call.size, unset)
      BY <1>7, <2>1
    <3> QED
      BY <1>5, <3>1, FoundHasSpace, RaidAssumption
  <2>2. CASE call.in # NULL
    <3>1. p = call.in /\ most(p, unset) # 0
      BY <1>7, <2>2
    <3> QED
      BY <1>2, <2>2, <3>1, RaidAssumption
  <2> QED
    BY <2>1, <2>2
<1>8. \A unset, p : wanted(p, unset) \in {most(p, unset), call.size}
  OBVIOUS
<1> HIDE DEF wanted, found
<1> QED
  BY <1>3, <1>4, <1>6, <1>7, <1>8

\* Whole kilobytes.
LEMMA KBytesAre ==
    ASSUME NEW n \in Int
    PROVE  KBytes(n) \in Int /\ KBytes(n) <= n /\ (n >= OneKB => KBytes(n) > 0)
<1> DEFINE q == n \div OneKB
<1>1. OneKB \in Int /\ OneKB > 0
  BY RaidAssumption
<1>2. q \in Int /\ OneKB * q <= n /\ n < OneKB * (q + 1)
  BY <1>1
<1> HIDE DEF q
<1>3. OneKB * (q + 1) = OneKB * q + OneKB
  BY <1>1, <1>2
<1>4. KBytes(n) = OneKB * q
  BY <1>1, <1>2 DEF KBytes, q
<1>5. OneKB * q \in Int
  BY <1>1, <1>2
<1>6. n >= OneKB => OneKB * q > 0
  <2> DEFINE m == OneKB * q
  <2>1. m \in Int /\ n < m + OneKB
    BY <1>2, <1>3, <1>5
  <2> HIDE DEF m
  <2>2. n >= OneKB => m > 0
    BY <1>1, <2>1
  <2> QED
    BY <2>2 DEF m
<1> QED
  BY <1>2, <1>4, <1>5, <1>6

\* A piece is cut from one disk: the rest of the plan is on others.
LEMMA RestFits ==
    ASSUME NEW L, NEW M, NEW plan, plan # <<>>, PlanFits(L, plan),
           \A d \in ToSet(Disks) : d # plan[1].from[2] => Taken(M, d) = Taken(L, d)
    PROVE  /\ PlanFits(M, Tail(plan)) /\ Head(plan) = plan[1] /\ 1 \in DOMAIN plan
<1> DEFINE t == Tail(plan)
<1>1. IsSeq(plan)
  BY DEF PlanFits
<1>2. /\ IsSeq(t) /\ 1 \in DOMAIN plan /\ Head(plan) = plan[1]
      /\ \A i \in DOMAIN t : i \in Nat /\ i + 1 \in DOMAIN plan /\ t[i] = plan[i + 1]
  BY <1>1, TailIsSeq
<1>3. \A i \in DOMAIN t : 0 \notin DOMAIN t
  <2>1. DOMAIN t = 1..Len(t) /\ Len(t) \in Nat
    BY <1>2 DEF IsSeq
  <2> QED
    BY <2>1
<1> HIDE DEF t
<1>4. ASSUME NEW i \in DOMAIN t, t[i].from[2] \in ToSet(Disks)
      PROVE  /\ t[i].bytes \in Int /\ t[i].bytes <= DiskSize - Taken(M, t[i].from[2])
  <2>1. i \in Nat /\ i # 0 /\ i + 1 \in DOMAIN plan /\ t[i] = plan[i + 1]
    BY <1>2, <1>3
  <2>2. plan[i + 1].from[2] # plan[1].from[2]
    <3>1. i + 1 # 1
      BY <2>1
    <3> QED
      BY <1>2, <1>4, <2>1, <3>1 DEF PlanFits
  <2>3. Taken(M, t[i].from[2]) = Taken(L, t[i].from[2])
    BY <1>4, <2>1, <2>2
  <2>4. t[i].bytes \in Int /\ t[i].bytes <= DiskSize - Taken(L, t[i].from[2])
    BY <1>4, <2>1 DEF PlanFits
  <2> QED
    BY <2>3, <2>4
<1>5. ASSUME NEW i \in DOMAIN t, NEW j \in DOMAIN t, t[i].from[2] \in ToSet(Disks), t[i].from[2] = t[j].from[2]
      PROVE  i = j
  <2>1. /\ i \in Nat /\ i + 1 \in DOMAIN plan /\ t[i] = plan[i + 1]
        /\ j \in Nat /\ j + 1 \in DOMAIN plan /\ t[j] = plan[j + 1]
    BY <1>2
  <2>2. i + 1 = j + 1
    BY <1>5, <2>1 DEF PlanFits
  <2> QED
    BY <2>1, <2>2
<1>6. PlanFits(M, t)
  BY <1>2, <1>4, <1>5 DEF PlanFits
<1> QED
  BY <1>2, <1>6 DEF t

LEMMA OtherPartsStay ==
    ASSUME NEW L, LayoutInv(L), SizesOK(L), NEW d, NEW start \in Nat, NEW n \in Nat,
           NEW M, M = PartitionCreated(L, d, start, n)
    PROVE  SizesOK(M) /\ \A e : e # d => Taken(M, e) = Taken(L, e)
<1> DEFINE p == [disk |-> d, num |-> NewNum(L, d), start |-> start, size |-> n]
<1>1. M.part = L.part \cup {p} /\ p.disk = d /\ p.start = start /\ p.size = n
  BY DEF PartitionCreated, LayoutInv
<1> HIDE DEF p
<1>2. SizesOK(M)
  BY <1>1 DEF SizesOK
<1>3. ASSUME NEW e, e # d PROVE Taken(M, e) = Taken(L, e)
  <2>1. PartsOn(M, e) = PartsOn(L, e)
    BY <1>1, <1>3 DEF PartsOn
  <2> QED
    BY <2>1 DEF Taken
<1> QED
  BY <1>2, <1>3

LEMMA ExtentPartitionSpace ==
    ASSUME RaidInv, SpaceInv, ExtentPartition
    PROVE  SpaceInv'
<1> DEFINE cut == Head(call.plan)
           d   == cut.from[2]
           L   == PartitionCreated(lib, d, Offset(lib, d), KBytes(cut.bytes))
<1>1. /\ call.pc = "cut" /\ call.plan # <<>>
      /\ \/ CanCut(lib, cut) /\ Commit(L) /\ call' = Cut(<<"part", d, NewNum(lib, d)>>)
         \/ call' = Cut(cut.from) /\ UNCHANGED <<lib, disk>>
  BY DEF ExtentPartition
<1>2. /\ DOMAIN call = DOMAIN Idle /\ LayoutInv(lib) /\ SizesOK(lib) /\ SizesOK(disk) /\ IsFiniteSet(lib.part)
      /\ PlanFits(lib, call.plan) /\ call.op = "create"
  BY <1>1, LayoutIsOK DEF RaidInv, CallInv, SpaceInv
<1>3. cut = call.plan[1] /\ 1 \in DOMAIN call.plan
  BY <1>1, <1>2, RestFits
<1>4. \A dev : call' = Cut(dev) => call'.pc = "cut" /\ call'.op = "create" /\ call'.plan = Tail(call.plan)
  BY <1>1, <1>2 DEF Cut, Idle
<1>5. CASE CanCut(lib, cut) /\ Commit(L) /\ call' = Cut(<<"part", d, NewNum(lib, d)>>)
  <2>1. d \in ToSet(Disks) /\ KBytes(cut.bytes) > 0
    BY <1>5 DEF CanCut, PartitionFits
  <2>2. KBytes(cut.bytes) \in Nat
    <3>1. cut.bytes \in Int
      BY <1>2, <1>3, <2>1 DEF PlanFits
    <3>2. KBytes(cut.bytes) \in Int
      BY <3>1, KBytesAre
    <3> QED
      BY <2>1, <3>2
  <2>3. Offset(lib, d) \in Nat
    <3>1. Offset(lib, d) = Taken(lib, d)
      BY DEF Offset, Taken
    <3> QED
      BY <1>2, <3>1, TakenIsNumber
  <2>4. SizesOK(L) /\ \A e : e # d => Taken(L, e) = Taken(lib, e)
    BY <1>2, <2>2, <2>3, OtherPartsStay
  <2>5. lib' = L /\ disk' = L
    BY <1>5 DEF Commit
  <2> HIDE DEF L
  <2>6. PlanFits(L, Tail(call.plan))
    BY <1>1, <1>2, <1>3, <2>4, RestFits
  <2>7. call'.pc = "cut" /\ call'.op = "create" /\ call'.plan = Tail(call.plan)
    BY <1>4, <1>5
  <2> QED
    BY <2>4, <2>5, <2>6, <2>7 DEF SpaceInv
<1>6. CASE call' = Cut(cut.from) /\ UNCHANGED <<lib, disk>>
  <2>1. PlanFits(lib, Tail(call.plan))
    BY <1>1, <1>2, RestFits
  <2>2. call'.pc = "cut" /\ call'.op = "create" /\ call'.plan = Tail(call.plan)
    BY <1>4, <1>6
  <2> QED
    BY <1>2, <1>6, <2>1, <2>2 DEF SpaceInv
<1> QED
  BY <1>1, <1>5, <1>6

\* Nothing that is composed or removed changes a plan that is still to be cut.
LEMMA CompositionsSpace ==
    ASSUME RaidInv, SpaceInv,
           \/ CreateJBODComposition \/ CreateRAID0Composition \/ CreateRAID1Composition
           \/ CreateRAID5Composition \/ NoBranch \/ CreateMirror \/ CreateStripe
    PROVE  SpaceInv'
<1>1. /\ call.pc = "cut" /\ call.plan = <<>> /\ DOMAIN call = DOMAIN Idle
      /\ LayoutInv(lib) /\ SizesOK(lib) /\ SizesOK(disk) /\ call.op = "create"
  BY DEF AllCut, CreateJBODComposition, CreateRAID0Composition, CreateRAID1Composition,
         CreateRAID5Composition, NoBranch, CreateMirror, CreateStripe, RaidInv, CallInv, SpaceInv
<1>2. \A rc : call' = Exit(rc) => call'.pc = "scan"
  BY <1>1 DEF Exit, Idle
<1>3. call' = CleanUp => call'.pc = "cleanup"
  BY <1>1 DEF CleanUp, Idle
<1>4. ASSUME NEW results, Finish(results), \A r \in results : SizesOK(r.lib)
      PROVE  SpaceInv'
  <2>1. Ends("died") \/ \E r \in results : Commit(r.lib) /\ call' = Exit(r.rc)
    BY <1>4, FinishCases
  <2> QED
    BY <1>2, <1>4, <2>1, EndsSpace, PlanIsDone DEF Commit
<1>5. /\ \A v, xs : \A r \in Grouped(lib, v, xs) : SizesOK(r.lib)
      /\ \A level, xs, v : \A r \in Composed(lib, level, xs, v) : SizesOK(r.lib)
      /\ \A level, xs : SizesOK(MdCreated(lib, level, xs))
  BY <1>1, DevicesOnlyAreMade
<1>6. CASE CreateJBODComposition
  <2>1. PICK xs : Finish(Grouped(lib, call.pool, xs))
    BY <1>6 DEF CreateJBODComposition
  <2>2. \A r \in Grouped(lib, call.pool, xs) : SizesOK(r.lib)
    BY <1>5
  <2> QED
    BY <1>4, <2>1, <2>2
<1>7. CASE CreateRAID0Composition \/ CreateRAID1Composition \/ CreateRAID5Composition
  <2>1. PICK level : Finish(Composed(lib, level, call.devs, call.pool))
    BY <1>7 DEF CreateRAID0Composition, CreateRAID1Composition, CreateRAID5Composition
  <2>2. \A r \in Composed(lib, level, call.devs, call.pool) : SizesOK(r.lib)
    BY <1>5
  <2> QED
    BY <1>4, <2>1, <2>2
<1>8. CASE NoBranch
  <2>1. call' = Exit("INVALID_PARAM") /\ UNCHANGED <<lib, disk>>
    BY <1>8 DEF NoBranch
  <2> QED
    BY <1>1, <1>2, <2>1, PlanIsDone
<1>9. CASE CreateMirror
  <2>1. \/ Ends("died")
        \/ /\ \E i : Commit(MdCreated(lib, 1, Mirror(i)))
           /\ call' = [call EXCEPT !.mirrors = Append(@, NewMd(lib))]
        \/ call' = CleanUp /\ UNCHANGED <<lib, disk>>
    BY <1>9 DEF CreateMirror
  <2>2. CASE /\ \E i : Commit(MdCreated(lib, 1, Mirror(i)))
             /\ call' = [call EXCEPT !.mirrors = Append(@, NewMd(lib))]
    <3>1. call'.pc = "cut" /\ call'.op = "create" /\ call'.plan = <<>>
      BY <1>1, <2>2 DEF Idle
    <3>2. SizesOK(lib') /\ SizesOK(disk')
      BY <1>5, <2>2 DEF Commit
    <3> QED
      BY <3>1, <3>2, PlanIsDone
  <2>3. CASE call' = CleanUp /\ UNCHANGED <<lib, disk>>
    BY <1>1, <1>3, <2>3, PlanIsDone
  <2> QED
    BY <2>1, <2>2, <2>3, EndsSpace
<1>10. CASE CreateStripe
  <2>1. \/ Ends("died")
        \/ \E r \in Composed(lib, 0, StripeOver, call.pool) :
              Commit(r.lib) /\ call' \in {Exit("OK"), [CleanUp EXCEPT !.devs = <<>>]}
    BY <1>10, StripeCases
  <2>2. \A k \in {Exit("OK"), [CleanUp EXCEPT !.devs = <<>>]} : k.pc \in {"scan", "cleanup"}
    BY <1>1 DEF Exit, CleanUp, Idle
  <2>3. \A r \in Composed(lib, 0, StripeOver, call.pool) : SizesOK(r.lib)
    BY <1>5
  <2> QED
    BY <2>1, <2>2, <2>3, EndsSpace, PlanIsDone DEF Commit
<1> QED
  BY <1>6, <1>7, <1>8, <1>9, <1>10

LEMMA RemovalsSpace ==
    ASSUME RaidInv, SpaceInv, DeleteRAID1Composition \/ RemoveGroup \/ RemoveNext \/ Removed
    PROVE  SpaceInv'
<1>1. /\ DOMAIN call = DOMAIN Idle /\ LayoutInv(lib) /\ SizesOK(lib) /\ SizesOK(disk)
  BY DEF RaidInv, CallInv, SpaceInv
<1>2. /\ \A n : SizesOK(MdRemoved(lib, n)) /\ \A v : SizesOK(VgRemoved(lib, v))
      /\ \A x : SizesOK(PartitionRemoved(lib, x))
  BY <1>1, DevicesOnlyAreMade
<1>3. ASSUME NEW M, SizesOK(M), Commit(M) \/ Staged(M) PROVE SizesOK(lib') /\ SizesOK(disk')
  BY <1>1, <1>3 DEF Commit, Staged
<1>4. CASE DeleteRAID1Composition
  <2>1. \/ Ends("died")
        \/ /\ (\E n : Commit(MdRemoved(lib, n))) \/ UNCHANGED <<lib, disk>>
           /\ \/ call' = Exit("FAILED")
              \/ call.pc = "cleanup" /\ call' = [call EXCEPT !.mirrors = Tail(@)]
    BY <1>4 DEF DeleteRAID1Composition
  <2>2. CASE /\ (\E n : Commit(MdRemoved(lib, n))) \/ UNCHANGED <<lib, disk>>
             /\ \/ call' = Exit("FAILED")
                \/ call.pc = "cleanup" /\ call' = [call EXCEPT !.mirrors = Tail(@)]
    <3>1. SizesOK(lib') /\ SizesOK(disk')
      BY <1>1, <1>2, <1>3, <2>2
    <3>2. call'.pc \in {"scan", "cleanup"}
      BY <1>1, <2>2 DEF Exit, Idle
    <3> QED
      BY <3>1, <3>2, PlanIsDone
  <2> QED
    BY <2>1, <2>2, EndsSpace
<1>5. CASE RemoveGroup
  <2>1. PICK rc : /\ Staged(VgRemoved(lib, call.pool)) \/ Staged(lib)
                  /\ call' = [call EXCEPT !.pc = "remove", !.plan = Removals(graph, call.pool), !.rc = rc]
    BY <1>5 DEF RemoveGroup
  <2>2. call'.pc = "remove"
    BY <1>1, <2>1 DEF Idle
  <2> QED
    BY <1>1, <1>2, <1>3, <2>1, <2>2, PlanIsDone
<1>6. CASE RemoveNext
  <2>1. \/ \E n : Staged(MdRemoved(lib, n))
        \/ \E x : Commit(PartitionRemoved(lib, x))
        \/ Staged(lib) \/ Commit(lib)
    BY <1>6 DEF RemoveNext
  <2>2. call.pc = "remove" /\ \E rc : call' = [call EXCEPT !.plan = Tail(@), !.rc = rc]
    BY <1>6 DEF RemoveNext
  <2>3. call'.pc = "remove"
    BY <1>1, <2>2 DEF Idle
  <2> QED
    BY <1>1, <1>2, <1>3, <2>1, <2>3, PlanIsDone
<1>7. CASE Removed
  <2>1. Commit(lib) /\ call' = Exit(call.rc)
    BY <1>7 DEF Removed
  <2>2. call'.pc = "scan"
    BY <1>1, <2>1 DEF Exit, Idle
  <2> QED
    BY <1>1, <1>3, <2>1, <2>2, PlanIsDone
<1> QED
  BY <1>4, <1>5, <1>6, <1>7

LEMMA NextSpace ==
    NamesDiffer /\ RaidInv /\ DevicesInv /\ SpaceInv /\ [Next]_vars => SpaceInv'
<1> SUFFICES ASSUME NamesDiffer, RaidInv, DevicesInv, SpaceInv, [Next]_vars
             PROVE  SpaceInv'
  OBVIOUS
<1>1. CASE Request
  BY <1>1, RequestsSpace DEF Request
<1>2. CASE Step
  <2>1. CASE Enter \/ ScanAndAnswer \/ RefuseGoalOrSize \/ RefuseUsedPool
    BY <2>1, ScansSpace
  <2>2. CASE \/ CreateJBODComposition \/ CreateRAID0Composition \/ CreateRAID1Composition
             \/ CreateRAID5Composition \/ NoBranch \/ CreateMirror \/ CreateStripe
    BY <2>2, CompositionsSpace
  <2>3. CASE DeleteRAID1Composition \/ RemoveGroup \/ RemoveNext \/ Removed
    BY <2>3, RemovalsSpace
  <2> QED
    BY <1>2, <2>1, <2>2, <2>3, ChooseExtentsSpace, ExtentPartitionSpace DEF Step
<1>3. CASE Stopped
  BY <1>3, EndsSpace DEF Stopped
<1>4. CASE UNCHANGED vars
  BY <1>4 DEF vars, SpaceInv
<1> QED
  BY <1>1, <1>2, <1>3, <1>4 DEF Next, Over

\* What fits can be cut behind partitions that lie at the start of the disk.
LEMMA PlanCanBeCut ==
    ASSUME RaidInv, SpaceInv
    PROVE  GrantedExtentsCanBeCut
<1> SUFFICES ASSUME call.pc = "cut", NEW i \in DOMAIN call.plan,
                    call.plan[i].from[2] \in ToSet(Disks), Packed(lib, call.plan[i].from[2]),
                    call.plan[i].bytes >= OneKB
             PROVE  CanCut(lib, call.plan[i])
  BY DEF GrantedExtentsCanBeCut
<1> DEFINE cut == call.plan[i]
           d == cut.from[2]
           at == Offset(lib, d)
           n == KBytes(cut.bytes)
<1>1. /\ IsFiniteSet(lib.part) /\ SizesOK(lib) /\ PlanFits(lib, call.plan)
  BY LayoutIsOK DEF RaidInv, SpaceInv
<1>2. at = Taken(lib, d)
  BY DEF Offset, Taken
<1>3. at \in Nat
  BY <1>1, <1>2, TakenIsNumber
<1>4. cut.bytes \in Int /\ cut.bytes <= DiskSize - at
  BY <1>1, <1>2 DEF PlanFits
<1>5. n \in Int /\ n <= cut.bytes /\ n > 0
  BY <1>4, KBytesAre
<1>6. ASSUME NEW p \in PartsOn(lib, d) PROVE ~Overlap(p, at, n)
  <2>1. p.start \in Nat /\ p.size \in Nat /\ p.start + p.size <= at
    BY <1>1 DEF SizesOK, PartsOn, Packed
  <2> HIDE DEF at, n
  <2> QED
    BY <1>3, <1>5, <2>1 DEF Overlap
<1>7. at + n <= DiskSize
  <2> HIDE DEF at, n, d
  <2> QED
    BY <1>3, <1>4, <1>5, DiskAssumption
<1> HIDE DEF at, n
<1>8. PartitionFits(lib, d, at, n)
  BY <1>5, <1>6, <1>7 DEF PartitionFits
<1> QED
  BY <1>8 DEF CanCut, at, n

\* Where no disk is listed twice and no group has the name of a disk, what was
\* promised from the arrays is on the disk: every extent of a plan can be cut,
\* whatever has failed and whenever the provider was stopped.
THEOREM GrantedExtentsCanAlwaysBeCut ==
    ASSUME NamesDiffer
    PROVE  Spec => []GrantedExtentsCanBeCut
<1> DEFINE Inv == RaidInv /\ DevicesInv /\ SpaceInv
<1>1. Init => Inv
  BY InitIsSound, InitSpace
<1>2. Inv /\ [Next]_vars => Inv'
  BY NextIsSound, NextDevices, NextSpace
<1>3. Inv => GrantedExtentsCanBeCut
  BY PlanCanBeCut
<1> QED
  BY <1>1, <1>2, <1>3, PTL DEF Spec
=============================================================================
