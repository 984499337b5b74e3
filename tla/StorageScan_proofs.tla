------------------------- MODULE StorageScan_proofs -------------------------
(***************************************************************************)
(* What a scan leaves of the primordial pool, whatever the layout: its     *)
(* components are the disks and their free space, no disk is without       *)
(* something based on it, and the free space of a disk is what its         *)
(* partitions leave.                                                       *)
(***************************************************************************)
EXTENDS StorageScan, FiniteSetTheorems, WellFoundedInduction, TLAPS

\* The shape of the graph.
IsGraph(G) ==
    /\ DOMAIN G = {"defined", "ext", "pool", "vol", "based", "alloc"}
    /\ \A x \in DOMAIN G.ext : "pool" \in DOMAIN G.ext[x]

\* From G to H nothing is added to the primordial pool's components, and what
\* is based on something stays so.
Keeps(G, H) ==
    /\ IsGraph(H)
    /\ G.based \subseteq H.based
    /\ \A x \in DOMAIN H.ext : H.ext[x].pool = Primordial => x \in DOMAIN G.ext /\ G.ext[x].pool = Primordial

\* Something is based on x.
Based(G, x) == \E b \in G.based : b.ant = x

LEMMA KeepsTransitive ==
    ASSUME NEW G, NEW H, NEW K, Keeps(G, H), Keeps(H, K)
    PROVE  Keeps(G, K)
  BY DEF Keeps

LEMMA KeepsIsGraph ==
    ASSUME NEW G, NEW H, Keeps(G, H)
    PROVE  IsGraph(H) /\ \A x : Based(G, x) => Based(H, x)
  BY DEF Keeps, Based

LEMMA KeepsItself ==
    ASSUME NEW G, IsGraph(G)
    PROVE  Keeps(G, G)
  BY DEF Keeps

\* The building blocks.
LEMMA ExtentAllocKeeps ==
    ASSUME NEW G, IsGraph(G), NEW x, NEW bytes, NEW p, p # Primordial, NEW comp
    PROVE  /\ Keeps(G, ExtentAlloc(G, x, bytes, p, comp))
           /\ ExtentAlloc(G, x, bytes, p, comp).based = G.based
<1> DEFINE e == [size |-> bytes, pool |-> p, composite |-> comp]
           H == ExtentAlloc(G, x, bytes, p, comp)
<1>1. H.ext = [y \in {x} \cup DOMAIN G.ext |-> IF y = x THEN e ELSE G.ext[y]]
  BY DEF ExtentAlloc, IsGraph, Added
<1>2. DOMAIN H = DOMAIN G /\ H.based = G.based
  BY DEF ExtentAlloc, IsGraph
<1> HIDE DEF H
<1> QED
  BY <1>1, <1>2 DEF Keeps, IsGraph, H

LEMMA BasedOnKeeps ==
    ASSUME NEW G, IsGraph(G), NEW dep, NEW ant, NEW order
    PROVE  /\ Keeps(G, ExtentCreateBasedOnAssociation(G, dep, ant, order))
           /\ \E b \in ExtentCreateBasedOnAssociation(G, dep, ant, order).based : b.ant = ant
<1> DEFINE b == [dep |-> dep, ant |-> ant, order |-> order]
           H == ExtentCreateBasedOnAssociation(G, dep, ant, order)
<1>1. DOMAIN H = DOMAIN G /\ H.based = G.based \cup {b} /\ H.ext = G.ext /\ b.ant = ant
  BY DEF ExtentCreateBasedOnAssociation, IsGraph
<1> HIDE DEF H, b
<1> QED
  BY <1>1 DEF Keeps, IsGraph, H

LEMMA PoolsKeep ==
    ASSUME NEW G, IsGraph(G), NEW p, NEW q, NEW total, NEW remaining, NEW cap, NEW bytes
    PROVE  /\ Keeps(G, PoolAlloc(G, p, total, remaining, cap))
           /\ Keeps(G, PoolCreateAllocFromAssociation(G, p, q, bytes))
           /\ Keeps(G, PoolModifyAllocFromAssociation(G, p, q, bytes))
           /\ Keeps(G, Take(G, p, bytes))
  BY DEF Keeps, IsGraph, PoolAlloc, PoolCreateAllocFromAssociation, PoolModifyAllocFromAssociation, Take

LEMMA TakeMoreKeeps ==
    ASSUME NEW G, IsGraph(G), NEW child, NEW p, NEW bytes
    PROVE  Keeps(G, TakeMore(G, child, p, bytes))
<1> DEFINE from == ExtentGetPool(G, child)
           H == Take(G, from, bytes)
<1>1. Keeps(G, H)
  BY PoolsKeep
<1>2. IsGraph(H)
  BY <1>1 DEF Keeps
<1> HIDE DEF H, from
<1>3. Keeps(H, PoolModifyAllocFromAssociation(H, from, p, bytes))
  BY <1>2, PoolsKeep
<1>4. Keeps(G, PoolModifyAllocFromAssociation(H, from, p, bytes))
  BY <1>1, <1>3, KeepsTransitive
<1> QED
  BY <1>4 DEF TakeMore, H, from

LEMMA AdoptKeeps ==
    ASSUME NEW G, IsGraph(G), NEW x, NEW v, v # Primordial
    PROVE  Keeps(G, [G EXCEPT !.ext[x].pool = v])
<1> DEFINE H == [G EXCEPT !.ext[x].pool = v]
<1>1. DOMAIN H = DOMAIN G /\ H.based = G.based /\ H.ext = [G.ext EXCEPT ![x].pool = v]
  BY DEF IsGraph
<1> HIDE DEF H
<1>2. DOMAIN H.ext = DOMAIN G.ext
  BY <1>1
<1>3. ASSUME NEW y \in DOMAIN H.ext
      PROVE  H.ext[y] = IF y = x THEN [G.ext[y] EXCEPT !.pool = v] ELSE G.ext[y]
  BY <1>1, <1>2
<1> QED
  BY <1>1, <1>2, <1>3 DEF Keeps, IsGraph, H

LEMMA CompositeKeeps ==
    ASSUME NEW G, IsGraph(G), NEW x
    PROVE  Keeps(G, [G EXCEPT !.ext[x].composite = TRUE])
<1> DEFINE H == [G EXCEPT !.ext[x].composite = TRUE]
<1>1. DOMAIN H = DOMAIN G /\ H.based = G.based /\ H.ext = [G.ext EXCEPT ![x].composite = TRUE]
  BY DEF IsGraph
<1> HIDE DEF H
<1>2. DOMAIN H.ext = DOMAIN G.ext
  BY <1>1
<1>3. ASSUME NEW y \in DOMAIN H.ext
      PROVE  H.ext[y] = IF y = x THEN [G.ext[y] EXCEPT !.composite = TRUE] ELSE G.ext[y]
  BY <1>1, <1>2
<1> QED
  BY <1>1, <1>2, <1>3 DEF Keeps, IsGraph, H

-----------------------------------------------------------------------------
(***************************************************************************)
(* Groups and RAID devices.                                                *)
(***************************************************************************)
LEMMA FirstOfContainerKeeps ==
    ASSUME NEW G, IsGraph(G), NEW L, NEW child, NEW cap, NEW v, v # Primordial
    PROVE  /\ Keeps(G, FirstOfContainer(G, L, child, cap, v))
           /\ ~IsMd(child) => Based(FirstOfContainer(G, L, child, cap, v), child)
<1> DEFINE total == SizeOfAll(L, L.vg[v].devs) \div OneKB
           free  == PeFree(L, v) \div OneKB
           one   == IsMd(child) /\ Len(L.vg[v].devs) = 1
           comp  == IF one THEN child ELSE Composite(v)
           mine  == IF IsJBOD(cap) THEN Cap(1, 0, 1, 0, FALSE) ELSE cap
           g1 == PoolAlloc(G, v, total, free, mine)
           h1 == ExtentAlloc(g1, comp, G.ext[child].size, v, FALSE)
           h2 == ExtentCreateBasedOnAssociation(h1, comp, child, 1)
           g2 == IF one THEN [g1 EXCEPT !.ext[child].pool = v] ELSE h2
           g3 == PoolCreateAllocFromAssociation(g2, ExtentGetPool(G, child), v, G.ext[child].size)
           h4 == ExtentAlloc(g3, Freespace(v), free, v, FALSE)
           g4 == ExtentCreateBasedOnAssociation(h4, Freespace(v), comp, 1)
<1>0. FirstOfContainer(G, L, child, cap, v) = g4
  BY DEF FirstOfContainer
<1>1. Keeps(G, g1) /\ IsGraph(g1)
  BY PoolsKeep, KeepsIsGraph
<1> HIDE DEF g1, total, free, mine, comp
<1>2. Keeps(g1, h1) /\ IsGraph(h1)
  BY <1>1, ExtentAllocKeeps, KeepsIsGraph
<1> HIDE DEF h1
<1>3. Keeps(h1, h2) /\ IsGraph(h2) /\ Based(h2, child)
  BY <1>2, BasedOnKeeps, KeepsIsGraph DEF Based
<1>4. Keeps(g1, [g1 EXCEPT !.ext[child].pool = v])
  BY <1>1, AdoptKeeps
<1> HIDE DEF h2
<1>5. Keeps(g1, g2) /\ IsGraph(g2) /\ (~one => Based(g2, child))
  BY <1>2, <1>3, <1>4, KeepsTransitive, KeepsIsGraph
<1> HIDE DEF g2
<1>6. Keeps(g2, g3) /\ IsGraph(g3)
  BY <1>5, PoolsKeep, KeepsIsGraph
<1> HIDE DEF g3
<1>7. Keeps(g3, h4) /\ IsGraph(h4)
  BY <1>6, ExtentAllocKeeps, KeepsIsGraph
<1> HIDE DEF h4
<1>8. Keeps(h4, g4)
  BY <1>7, BasedOnKeeps
<1> HIDE DEF g4
<1>9. Keeps(g2, g4)
  BY <1>6, <1>7, <1>8, KeepsTransitive
<1>10. Keeps(G, g4)
  BY <1>1, <1>5, <1>9, KeepsTransitive
<1>11. ~IsMd(child) => Based(g4, child)
  BY <1>5, <1>9, KeepsIsGraph
<1> QED
  BY <1>0, <1>10, <1>11

LEMMA NextOfContainerKeeps ==
    ASSUME NEW G, IsGraph(G), NEW child, NEW v
    PROVE  /\ Keeps(G, NextOfContainer(G, child, v))
           /\ Based(NextOfContainer(G, child, v), child)
<1> DEFINE comp == Composite(v)
           g == PoolModifyAllocFromAssociation(G, ExtentGetPool(G, child), v, G.ext[child].size)
           h == ExtentCreateBasedOnAssociation(g, comp, child, NextOrder(G, comp))
           k == [h EXCEPT !.ext[comp].composite = TRUE]
<1>0. NextOfContainer(G, child, v) = k
  BY DEF NextOfContainer
<1>1. Keeps(G, g) /\ IsGraph(g)
  BY PoolsKeep, KeepsIsGraph
<1> HIDE DEF g, comp
<1>2. Keeps(g, h) /\ IsGraph(h) /\ Based(h, child)
  BY <1>1, BasedOnKeeps, KeepsIsGraph DEF Based
<1> HIDE DEF h
<1>3. Keeps(h, k)
  BY <1>2, CompositeKeeps
<1> HIDE DEF k
<1>4. Keeps(G, k)
  BY <1>1, <1>2, <1>3, KeepsTransitive
<1>5. Based(k, child)
  BY <1>2, <1>3, KeepsIsGraph
<1> QED
  BY <1>0, <1>4, <1>5

LEMMA ContainerKeeps ==
    ASSUME NEW G, IsGraph(G), NEW L, NEW child, NEW cap, NEW v, v # Primordial
    PROVE  /\ Keeps(G, ProcessContainer(G, L, child, cap, v))
           /\ ~IsMd(child) => Based(ProcessContainer(G, L, child, cap, v), child)
<1> DEFINE g == IF v \in DOMAIN G.pool THEN NextOfContainer(G, child, v)
                ELSE FirstOfContainer(G, L, child, cap, v)
           comp == IF Composite(v) \in DOMAIN g.ext THEN Composite(v) ELSE child
           h == Take(g, ExtentGetPool(G, child), G.ext[child].size)
           k == ProcessVolumes(h, L, v, comp)
<1>0. ProcessContainer(G, L, child, cap, v) = k
  BY DEF ProcessContainer
<1>1. Keeps(G, g) /\ IsGraph(g) /\ (~IsMd(child) => Based(g, child))
  BY FirstOfContainerKeeps, NextOfContainerKeeps, KeepsIsGraph
<1> HIDE DEF g, comp
<1>2. Keeps(g, h) /\ IsGraph(h)
  BY <1>1, PoolsKeep, KeepsIsGraph
<1> HIDE DEF h
<1>3. DOMAIN k = DOMAIN h /\ k.ext = h.ext /\ k.based = h.based
  BY <1>2 DEF ProcessVolumes, IsGraph
<1> HIDE DEF k
<1>4. Keeps(h, k)
  BY <1>2, <1>3 DEF Keeps, IsGraph
<1>5. Keeps(G, k) /\ Keeps(g, k)
  BY <1>1, <1>2, <1>4, KeepsTransitive
<1>6. ~IsMd(child) => Based(k, child)
  BY <1>1, <1>5, KeepsIsGraph
<1> QED
  BY <1>0, <1>5, <1>6

LEMMA RegionKeeps ==
    ASSUME NEW G, IsGraph(G), NEW L, NEW child, NEW n, NEW bytes
    PROVE  /\ Keeps(G, NewRegion(G, L, child, n, bytes))
           /\ Keeps(G, NextMember(G, child, n))
<1> DEFINE h == ExtentAlloc(G, Md(n), Max({bytes, L.md[n].size}), NULL, TRUE)
<1>1. Keeps(G, h) /\ IsGraph(h)
  BY ScanAssumption, ExtentAllocKeeps, KeepsIsGraph
<1> HIDE DEF h
<1>2. Keeps(h, ExtentCreateBasedOnAssociation(h, Md(n), child, 1))
  BY <1>1, BasedOnKeeps
<1>3. Keeps(G, NewRegion(G, L, child, n, bytes))
  BY <1>1, <1>2, KeepsTransitive DEF NewRegion, h
<1> QED
  BY <1>3, BasedOnKeeps DEF NextMember

LEMMA GroupIsNotPrimordial ==
    ASSUME NEW L, NEW x, VgsUsing(L, x) # {}
    PROVE  (CHOOSE v \in VgsUsing(L, x) : TRUE) # Primordial
<1>1. VgsUsing(L, x) \subseteq VgNames
  BY DEF VgsUsing, VgsOf
<1>2. (CHOOSE v \in VgsUsing(L, x) : TRUE) \in VgsUsing(L, x)
  OBVIOUS
<1> QED
  BY <1>1, <1>2, ScanAssumption

LEMMA Raid0Keeps ==
    ASSUME NEW G, IsGraph(G), NEW L, NEW child, NEW n
    PROVE  Keeps(G, ProcessMDRaid0Region(G, L, child, n))
<1> DEFINE stripes  == Len(L.md[n].devs)
           mirrored == G.ext[child].composite
           cap  == IF mirrored THEN Cap(2, 1, stripes, 0, TRUE) ELSE Cap(1, 0, stripes, 0, FALSE)
           new  == NewRegion(G, L, child, n, stripes * G.ext[child].size)
           more == NextMember(G, child, n)
           taken == TakeMore(more, child, ExtentGetPool(more, OnlyDependent(more, Md(n))),
                             more.ext[Md(n)].size)
           held == ProcessContainer(new, L, Md(n), cap, GroupOn(L, n))
<1>1. \/ HasGroup(L, n) /\ ProcessMDRaid0Region(G, L, child, n) = held
      \/ ProcessMDRaid0Region(G, L, child, n) \in {new, taken, more}
  BY DEF ProcessMDRaid0Region
<1>2. Keeps(G, new) /\ Keeps(G, more)
  BY RegionKeeps
<1> HIDE DEF new, more, cap
<1>3. Keeps(more, taken)
  BY <1>2, TakeMoreKeeps, KeepsIsGraph
<1>4. HasGroup(L, n) => Keeps(new, held)
  BY <1>2, ContainerKeeps, KeepsIsGraph, GroupIsNotPrimordial DEF HasGroup, GroupOn
<1> HIDE DEF held, taken
<1>5. Keeps(G, taken) /\ (HasGroup(L, n) => Keeps(G, held))
  BY <1>2, <1>3, <1>4, KeepsTransitive
<1> QED
  BY <1>1, <1>2, <1>5

LEMMA Raid5Keeps ==
    ASSUME NEW G, IsGraph(G), NEW L, NEW child, NEW n
    PROVE  Keeps(G, ProcessMDRaid5Region(G, L, child, n))
<1> DEFINE devs == Len(L.md[n].devs)
           new  == NewRegion(G, L, child, n, (devs - 1) * G.ext[child].size)
           held == ProcessContainer(new, L, Md(n), Cap(1, 1, devs, 2, TRUE), GroupOn(L, n))
           more == NextMember(G, child, n)
           taken == TakeMore(held, child, GroupOn(L, n), G.ext[child].size)
<1>1. ProcessMDRaid5Region(G, L, child, n)
        = IF RegionFound(G, n) THEN more ELSE IF HasGroup(L, n) THEN taken ELSE new
  BY DEF ProcessMDRaid5Region
<1>2. Keeps(G, new) /\ Keeps(G, more)
  BY RegionKeeps
<1> HIDE DEF new, more, devs
<1>3. HasGroup(L, n) => Keeps(new, held)
  BY <1>2, ContainerKeeps, KeepsIsGraph, GroupIsNotPrimordial DEF HasGroup, GroupOn
<1> HIDE DEF held
<1>4. HasGroup(L, n) => Keeps(held, taken)
  BY <1>3, TakeMoreKeeps, KeepsIsGraph
<1> HIDE DEF taken
<1>5. HasGroup(L, n) => Keeps(G, taken)
  BY <1>2, <1>3, <1>4, KeepsTransitive
<1> QED
  BY <1>1, <1>2, <1>5

LEMMA ManyMirrorsKeeps ==
    ASSUME NEW G, IsGraph(G), NEW n
    PROVE  Keeps(G, ManyMirrors(G, n))
<1>1. /\ DOMAIN ManyMirrors(G, n) = DOMAIN G
      /\ ManyMirrors(G, n).ext = G.ext /\ ManyMirrors(G, n).based = G.based
  BY DEF ManyMirrors, IsGraph
<1> QED
  BY <1>1 DEF Keeps, IsGraph

LEMMA Raid1Keeps ==
    ASSUME NEW G, IsGraph(G), NEW L, NEW child, NEW n
    PROVE  Keeps(G, ProcessMDRaid1Region(G, L, child, n))
<1> DEFINE x    == Md(n)
           new  == NewRegion(G, L, child, n, G.ext[child].size)
           more == NextMember(G, child, n)
           p    == IF more.ext[x].pool # NULL THEN more.ext[x].pool
                   ELSE IF NumDependents(more, x) = 1 THEN ExtentGetPool(more, OnlyDependent(more, x))
                   ELSE NULL
           taken == IF p # NULL THEN TakeMore(more, child, p, G.ext[child].size) ELSE more
           held == ProcessContainer(new, L, x, Cap(2, 1, 1, 0, TRUE), GroupOn(L, n))
           striped == ProcessMDRaid0Region(new, L, x, CHOOSE m \in MdsUsing(L, x) : TRUE)
<1>1. ProcessMDRaid1Region(G, L, child, n)
        = IF RegionFound(G, n) THEN ManyMirrors(taken, n)
          ELSE IF HasGroup(L, n) THEN held
          ELSE IF MdsUsing(L, x) # {} THEN striped ELSE new
  BY DEF ProcessMDRaid1Region
<1>2. Keeps(G, new) /\ Keeps(G, more)
  BY RegionKeeps
<1> HIDE DEF new, more, p, x
<1>3. Keeps(G, taken)
  BY <1>2, TakeMoreKeeps, KeepsIsGraph, KeepsTransitive
<1> HIDE DEF taken
<1>4. Keeps(G, ManyMirrors(taken, n))
  BY <1>3, ManyMirrorsKeeps, KeepsIsGraph, KeepsTransitive
<1>5. HasGroup(L, n) => Keeps(new, held)
  BY <1>2, ContainerKeeps, KeepsIsGraph, GroupIsNotPrimordial DEF HasGroup, GroupOn
<1>6. Keeps(new, striped)
  BY <1>2, Raid0Keeps, KeepsIsGraph
<1> HIDE DEF held, striped
<1>7. Keeps(G, striped) /\ (HasGroup(L, n) => Keeps(G, held))
  BY <1>2, <1>5, <1>6, KeepsTransitive
<1> QED
  BY <1>1, <1>2, <1>4, <1>7

\* A RAID device that exists has a level the scan knows.
LevelsOK(L) == \A n \in MdsOf(L) : L.md[n].level \in {0, 1, 5}

LEMMA ProcessRegionKeeps ==
    ASSUME NEW G, IsGraph(G), NEW L, LevelsOK(L), NEW child, NEW n \in MdsOf(L)
    PROVE  Keeps(G, ProcessRegion(G, L, child, n))
  BY Raid0Keeps, Raid1Keeps, Raid5Keeps DEF ProcessRegion, LevelsOK

-----------------------------------------------------------------------------
(***************************************************************************)
(* Partitions and disks, one after the other.                              *)
(***************************************************************************)
LEMMA ShrinkKeeps ==
    ASSUME NEW G, IsGraph(G), NEW x, NEW bytes
    PROVE  Keeps(G, [G EXCEPT !.ext[x].size = @ - bytes])
<1> DEFINE H == [G EXCEPT !.ext[x].size = @ - bytes]
<1>1. /\ DOMAIN H = DOMAIN G /\ H.based = G.based
      /\ H.ext = [G.ext EXCEPT ![x].size = @ - bytes]
  BY DEF IsGraph
<1> HIDE DEF H
<1>2. DOMAIN H.ext = DOMAIN G.ext
  BY <1>1
<1>3. ASSUME NEW y \in DOMAIN H.ext
      PROVE  H.ext[y] = IF y = x THEN [G.ext[y] EXCEPT !.size = @ - bytes] ELSE G.ext[y]
  BY <1>1, <1>2
<1> QED
  BY <1>1, <1>2, <1>3 DEF Keeps, IsGraph, H

LEMMA ProcessPartitionKeeps ==
    ASSUME NEW G, IsGraph(G), NEW L, LevelsOK(L), NEW disk, NEW p
    PROVE  Keeps(G, ProcessPartition(G, L, disk, p))
<1> DEFINE x == Part(p)
           h == ExtentAlloc(G, x, p.size, NULL, FALSE)
           g1 == ExtentCreateBasedOnAssociation(h, x, Disk(disk), 1)
           group == ProcessContainer(g1, L, x, G.pool[Primordial].cap, CHOOSE v \in VgsUsing(L, x) : TRUE)
           region == ProcessRegion(g1, L, x, CHOOSE n \in MdsUsing(L, x) : TRUE)
           g2 == IF VgsUsing(L, x) # {} THEN group ELSE region
           g3 == IF InUse(L, x) THEN g2 ELSE Take(G, Primordial, p.size)
           g4 == [g3 EXCEPT !.ext[Freespace(disk)].size = @ - p.size]
<1>1. ProcessPartition(G, L, disk, p) = IF x \in DOMAIN G.ext THEN G ELSE g4
  BY DEF ProcessPartition
<1> HIDE DEF x
<1>2. Keeps(G, h)
  BY ExtentAllocKeeps, ScanAssumption
<1> HIDE DEF h
<1>3. Keeps(h, g1)
  BY <1>2, BasedOnKeeps, KeepsIsGraph
<1> HIDE DEF g1
<1>4. Keeps(G, g1)
  BY <1>2, <1>3, KeepsTransitive
<1>5. VgsUsing(L, x) # {} => Keeps(g1, group)
  BY <1>4, GroupIsNotPrimordial, ContainerKeeps, KeepsIsGraph
<1>6. MdsUsing(L, x) # {} => Keeps(g1, region)
  <2>1. MdsUsing(L, x) \subseteq MdsOf(L)
    BY DEF MdsUsing
  <2> QED
    BY <1>4, <2>1, ProcessRegionKeeps, KeepsIsGraph
<1> HIDE DEF group, region
<1>7. InUse(L, x) => Keeps(g1, g2)
  BY <1>5, <1>6 DEF InUse
<1> HIDE DEF g2
<1>8. Keeps(G, g3)
  BY <1>4, <1>7, PoolsKeep, KeepsTransitive
<1> HIDE DEF g3
<1>9. Keeps(g3, g4)
  BY <1>8, ShrinkKeeps, KeepsIsGraph
<1> HIDE DEF g4
<1> QED
  BY <1>1, <1>8, <1>9, KeepsTransitive, KeepsItself

\* The smallest subset, and so the least number.
LEMMA LeastSubset ==
    ASSUME NEW S, IsFiniteSet(S), NEW T \in SUBSET SUBSET S, T # {}
    PROVE  \E x \in T : \A y \in T : y \subseteq x => y = x
<1>1. FiniteSubsetsOf(S) = SUBSET S
  BY FS_FiniteSubsetsOfFinite
<1>2. IsWellFoundedOn(StrictSubsetOrdering(S), SUBSET S)
  BY <1>1, FS_StrictSubsetOrderingWellFounded
<1>3. \E x \in T : \A y \in T : ~(<<y, x>> \in StrictSubsetOrdering(S))
  BY <1>2, WFMin
<1> QED
  BY <1>3 DEF StrictSubsetOrdering

LEMMA LeastNumber ==
    ASSUME NEW T \in SUBSET Nat, T # {}
    PROVE  \E n \in T : \A m \in T : n <= m
<1>1. PICK t \in T : TRUE
  OBVIOUS
<1> DEFINE S == 0..t
           U == {0..n : n \in {m \in T : m <= t}}
<1>2. IsFiniteSet(S) /\ U \in SUBSET SUBSET S /\ U # {}
  <2>1. t \in Nat /\ 0..t \in U
    BY <1>1
  <2>2. IsFiniteSet(S)
    BY <2>1, FS_Interval
  <2>3. ASSUME NEW n \in T, n <= t
        PROVE  0..n \subseteq S
    BY <2>1, <2>3
  <2> QED
    BY <2>1, <2>2, <2>3
<1>3. PICK x \in U : \A y \in U : y \subseteq x => y = x
  <2> HIDE DEF S, U
  <2> QED
    BY <1>2, LeastSubset
<1>4. PICK n \in T : n <= t /\ x = 0..n
  BY <1>3
<1>5. ASSUME NEW m \in T
      PROVE  n <= m
  <2>1. CASE m <= t /\ m < n
    <3>1. 0..m \in U /\ 0..m \subseteq x
      BY <1>4, <2>1
    <3>2. 0..m = 0..n
      BY <1>3, <1>4, <3>1
    <3>3. n \in 0..n
      BY <1>4
    <3> QED
      BY <2>1, <3>2, <3>3
  <2> QED
    BY <1>4, <2>1
<1> QED
  BY <1>5

\* The partitions of a disk, one after the other: the functions the recursion
\* of ScanPartitions stands for exist.
LEMMA PartitionsRecursion ==
    ASSUME NEW N \in Nat, NEW G, NEW L, NEW disk
    PROVE  \E g : g = [i \in 0..N |-> IF i = 0 THEN G
                                      ELSE ProcessPartition(g[i - 1], L, disk, PartitionAt(L, disk, i))]
<1> DEFINE F(x, i) == ProcessPartition(x, L, disk, PartitionAt(L, disk, i))
           Is(g, n) == g = [i \in 0..n |-> IF i = 0 THEN G ELSE F(g[i - 1], i)]
           T == {n \in Nat : ~ \E g : Is(g, n)}
<1>1. ASSUME T # {}
      PROVE  FALSE
  <2>1. PICK n \in T : \A m \in T : n <= m
    <3> HIDE DEF T
    <3>1. T \in SUBSET Nat
      BY DEF T
    <3> QED
      BY <1>1, <3>1, LeastNumber
  <2>2. n # 0
    <3>1. Is([i \in 0..0 |-> G], 0)
      OBVIOUS
    <3> HIDE DEF Is
    <3> QED
      BY <3>1
  <2>3. n \in Nat /\ n - 1 \in Nat /\ ~(n <= n - 1)
    BY <2>2
  <2>4. PICK g : Is(g, n - 1)
    <3> HIDE DEF Is
    <3> QED
      BY <2>1, <2>3
  <2> DEFINE h == [i \in 0..n |-> IF i = n THEN F(g[n - 1], n) ELSE g[i]]
  <2>5. Is(h, n)
    <3> HIDE DEF F
    <3>1. \A i \in 0..n - 1 : h[i] = g[i] /\ g[i] = IF i = 0 THEN G ELSE F(g[i - 1], i)
      BY <2>3, <2>4
    <3>2. ASSUME NEW i \in 0..n
          PROVE  h[i] = IF i = 0 THEN G ELSE F(h[i - 1], i)
      <4>1. CASE i = n
        BY <2>2, <2>3, <3>1, <4>1
      <4>2. CASE i # n
        <5>1. i \in 0..n - 1 /\ (i # 0 => i - 1 \in 0..n - 1)
          BY <2>3, <4>2
        <5> QED
          BY <3>1, <5>1
      <4> QED
        BY <4>1, <4>2
    <3>3. h = [i \in 0..n |-> h[i]]
      OBVIOUS
    <3> HIDE DEF h
    <3> QED
      BY <3>2, <3>3
  <2> HIDE DEF Is
  <2> QED
    BY <2>1, <2>5
<1> HIDE DEF F
<1> QED
  BY <1>1 DEF F

LEMMA ScanPartitionsKeeps ==
    ASSUME NEW G, IsGraph(G), NEW L, LevelsOK(L), IsFiniteSet(L.part), NEW disk
    PROVE  Keeps(G, ScanPartitions(G, L, disk))
<1> DEFINE F(x, i) == ProcessPartition(x, L, disk, PartitionAt(L, disk, i))
           N == Cardinality(PartsOn(L, disk))
           a == CHOOSE g : g = [i \in 0..N |-> IF i = 0 THEN G ELSE F(g[i - 1], i)]
           T == {n \in 0..N : ~Keeps(G, a[n])}
<1>1. N \in Nat
  <2>1. PartsOn(L, disk) \subseteq L.part
    BY DEF PartsOn
  <2> QED
    BY <2>1, FS_Subset, FS_CardinalityType
<1>2. ScanPartitions(G, L, disk) = a[N]
  BY DEF ScanPartitions, Through
<1> HIDE DEF N
<1>3. a = [i \in 0..N |-> IF i = 0 THEN G ELSE F(a[i - 1], i)]
  BY <1>1, PartitionsRecursion
<1>4. \A x, i : IsGraph(x) => Keeps(x, F(x, i))
  BY ProcessPartitionKeeps
<1> HIDE DEF F, a
<1>5. T = {}
  <2>1. SUFFICES ASSUME T # {} PROVE FALSE
    OBVIOUS
  <2>2. PICK n \in T : \A m \in T : n <= m
    <3>1. T \in SUBSET Nat
      BY <1>1
    <3> HIDE DEF T
    <3> QED
      BY <2>1, <3>1, LeastNumber
  <2>3. n # 0
    BY <1>1, <1>3, <2>2, KeepsItself
  <2>4. n - 1 \in 0..N /\ ~(n <= n - 1)
    BY <1>1, <2>2, <2>3
  <2>5. Keeps(G, a[n - 1]) /\ a[n] = F(a[n - 1], n)
    BY <1>1, <1>3, <2>2, <2>3, <2>4
  <2> QED
    BY <1>4, <2>2, <2>5, KeepsIsGraph, KeepsTransitive
<1> QED
  BY <1>1, <1>2, <1>5

\* A disk: its free space joins the primordial pool's components, if it is not
\* in a group, and something is based on it.
LEMMA ScanDiskKeeps ==
    ASSUME NEW G, IsGraph(G), NEW L, LevelsOK(L), IsFiniteSet(L.part), NEW disk,
           NEW H, H = ScanDisk(G, L, disk)
    PROVE  /\ IsGraph(H) /\ G.based \subseteq H.based /\ Based(H, Disk(disk))
           /\ \A x \in DOMAIN H.ext : H.ext[x].pool = Primordial =>
                  x = Freespace(disk) \/ (x \in DOMAIN G.ext /\ G.ext[x].pool = Primordial)
<1> DEFINE d == Disk(disk)
           f == Freespace(disk)
           g1 == [G EXCEPT !.ext[d].size = DiskSize, !.pool[Primordial].total = @ + DiskSize,
                           !.pool[Primordial].remaining = @ + DiskSize]
           e == [size |-> DiskSize, pool |-> Primordial, composite |-> FALSE]
           h == ExtentAlloc(g1, f, DiskSize, Primordial, FALSE)
           g2 == ExtentCreateBasedOnAssociation(h, f, d, 1)
           v == CHOOSE u \in VgsUsing(L, d) : TRUE
           group == ProcessContainer(g1, L, d, G.pool[Primordial].cap, v)
           parts == ScanPartitions(g2, L, disk)
<1>1. H = IF VgsUsing(L, d) # {} THEN group ELSE parts
  BY DEF ScanDisk
<1>2. Keeps(G, g1)
  <2>1. /\ DOMAIN g1 = DOMAIN G /\ g1.based = G.based
        /\ g1.ext = [G.ext EXCEPT ![d].size = DiskSize]
    BY DEF IsGraph
  <2>2. DOMAIN g1.ext = DOMAIN G.ext
        /\ \A x \in DOMAIN G.ext : "pool" \in DOMAIN g1.ext[x] /\ g1.ext[x].pool = G.ext[x].pool
    <3> HIDE DEF g1
    <3> QED
      BY <2>1 DEF IsGraph
  <2> HIDE DEF g1
  <2> QED
    BY <2>1, <2>2 DEF Keeps, IsGraph
<1> HIDE DEF g1
<1>3. CASE VgsUsing(L, d) # {}
  <2>1. Keeps(g1, group) /\ Based(group, d)
    <3>1. ~IsMd(d) /\ v # Primordial
      BY <1>3, GroupIsNotPrimordial DEF IsMd, Disk
    <3> HIDE DEF d, v
    <3> QED
      BY <1>2, <3>1, ContainerKeeps, KeepsIsGraph
  <2>2. H = group
    BY <1>1, <1>3
  <2> HIDE DEF group, d
  <2>3. Keeps(G, H)
    BY <1>2, <2>1, <2>2, KeepsTransitive
  <2> QED
    BY <2>1, <2>2, <2>3 DEF Keeps, d
<1>4. CASE VgsUsing(L, d) = {}
  <2>1. /\ IsGraph(h) /\ h.based = G.based
        /\ \A x \in DOMAIN h.ext : h.ext[x].pool = Primordial =>
               x = f \/ (x \in DOMAIN G.ext /\ G.ext[x].pool = Primordial)
    <3>1. IsGraph(g1) /\ g1.based = G.based
      <4>1. g1.based = G.based
        BY DEF g1, IsGraph
      <4> QED
        BY <1>2, <4>1, KeepsIsGraph
    <3>2. h.ext = [y \in {f} \cup DOMAIN g1.ext |-> IF y = f THEN e ELSE g1.ext[y]]
      BY <3>1 DEF ExtentAlloc, IsGraph, Added
    <3>3. DOMAIN h = DOMAIN g1 /\ h.based = g1.based
      BY <3>1 DEF ExtentAlloc, IsGraph
    <3> HIDE DEF h, f
    <3> QED
      BY <1>2, <3>1, <3>2, <3>3 DEF Keeps, IsGraph
  <2> HIDE DEF h
  <2>2. Keeps(h, g2) /\ Based(g2, d)
    BY <2>1, BasedOnKeeps DEF Based
  <2> HIDE DEF g2
  <2>3. Keeps(g2, parts)
    BY <2>2, ScanPartitionsKeeps, KeepsIsGraph
  <2> HIDE DEF parts, d, f
  <2>4. Keeps(h, parts) /\ Based(parts, d)
    BY <2>2, <2>3, KeepsTransitive, KeepsIsGraph
  <2>5. H = parts
    BY <1>1, <1>4
  <2> QED
    BY <2>1, <2>4, <2>5 DEF Keeps, d, f
<1> QED
  BY <1>3, <1>4

\* The disks, one after the other: as for the partitions.
LEMMA DisksRecursion ==
    ASSUME NEW N \in Nat, NEW L
    PROVE  \E g : g = [i \in 0..N |-> IF i = 0 THEN LoadPersistentStorageObjects
                                      ELSE ScanDisk(g[i - 1], L, Disks[i])]
<1> DEFINE F(x, i) == ScanDisk(x, L, Disks[i])
           G == LoadPersistentStorageObjects
           Is(g, n) == g = [i \in 0..n |-> IF i = 0 THEN G ELSE F(g[i - 1], i)]
           T == {n \in Nat : ~ \E g : Is(g, n)}
<1> HIDE DEF G
<1>1. ASSUME T # {}
      PROVE  FALSE
  <2>1. PICK n \in T : \A m \in T : n <= m
    <3> HIDE DEF T
    <3>1. T \in SUBSET Nat
      BY DEF T
    <3> QED
      BY <1>1, <3>1, LeastNumber
  <2>2. n # 0
    <3>1. Is([i \in 0..0 |-> G], 0)
      OBVIOUS
    <3> HIDE DEF Is
    <3> QED
      BY <3>1
  <2>3. n \in Nat /\ n - 1 \in Nat /\ ~(n <= n - 1)
    BY <2>2
  <2>4. PICK g : Is(g, n - 1)
    <3> HIDE DEF Is
    <3> QED
      BY <2>1, <2>3
  <2> DEFINE h == [i \in 0..n |-> IF i = n THEN F(g[n - 1], n) ELSE g[i]]
  <2>5. Is(h, n)
    <3> HIDE DEF F
    <3>1. \A i \in 0..n - 1 : h[i] = g[i] /\ g[i] = IF i = 0 THEN G ELSE F(g[i - 1], i)
      BY <2>3, <2>4
    <3>2. ASSUME NEW i \in 0..n
          PROVE  h[i] = IF i = 0 THEN G ELSE F(h[i - 1], i)
      <4>1. CASE i = n
        BY <2>2, <2>3, <3>1, <4>1
      <4>2. CASE i # n
        <5>1. i \in 0..n - 1 /\ (i # 0 => i - 1 \in 0..n - 1)
          BY <2>3, <4>2
        <5> QED
          BY <3>1, <5>1
      <4> QED
        BY <4>1, <4>2
    <3>3. h = [i \in 0..n |-> h[i]]
      OBVIOUS
    <3> HIDE DEF h
    <3> QED
      BY <3>2, <3>3
  <2> HIDE DEF Is
  <2> QED
    BY <2>1, <2>5
<1> HIDE DEF F
<1> QED
  BY <1>1 DEF F, G

\* The first k disks are behind the scan.
Scanned(G, k) ==
    /\ IsGraph(G)
    /\ \A x \in DOMAIN G.ext : G.ext[x].pool = Primordial =>
           \E i \in 1..Len(Disks) : x = Disk(Disks[i]) \/ x = Freespace(Disks[i])
    /\ \A i \in 1..k : Based(G, Disk(Disks[i]))

LEMMA NothingIsScanned == Scanned(LoadPersistentStorageObjects, 0)
<1> DEFINE G == LoadPersistentStorageObjects
           S == {Disk(d) : d \in ToSet(Disks)}
           e == [size |-> 0, pool |-> Primordial, composite |-> FALSE]
<1>1. G.ext = [x \in S |-> e] /\ DOMAIN G = {"defined", "ext", "pool", "vol", "based", "alloc"}
  BY DEF LoadPersistentStorageObjects
<1>2. \A x \in S : \E i \in 1..Len(Disks) : x = Disk(Disks[i])
  BY DiskAssumption DEF ToSet
<1> HIDE DEF G, S
<1> QED
  BY <1>1, <1>2 DEF Scanned, IsGraph, G

LEMMA NextIsScanned ==
    ASSUME NEW G, NEW k \in 1..Len(Disks), Scanned(G, k - 1), NEW L, LevelsOK(L), IsFiniteSet(L.part)
    PROVE  Scanned(ScanDisk(G, L, Disks[k]), k)
<1> DEFINE H == ScanDisk(G, L, Disks[k])
<1>1. /\ IsGraph(H) /\ G.based \subseteq H.based /\ Based(H, Disk(Disks[k]))
      /\ \A x \in DOMAIN H.ext : H.ext[x].pool = Primordial =>
             x = Freespace(Disks[k]) \/ (x \in DOMAIN G.ext /\ G.ext[x].pool = Primordial)
  BY ScanDiskKeeps DEF Scanned
<1> HIDE DEF H
<1>2. \A i \in 1..k : i = k \/ i \in 1..k - 1
  BY DiskAssumption
<1> QED
  BY <1>1, <1>2 DEF Scanned, Based, H

LEMMA AllAreScanned ==
    ASSUME NEW L, LevelsOK(L), IsFiniteSet(L.part)
    PROVE  Scanned(ScanDisks(L), Len(Disks))
<1> DEFINE F(x, i) == ScanDisk(x, L, Disks[i])
           N == Len(Disks)
           G == LoadPersistentStorageObjects
           a == CHOOSE g : g = [i \in 0..N |-> IF i = 0 THEN G ELSE F(g[i - 1], i)]
           T == {n \in 0..N : ~Scanned(a[n], n)}
<1>1. N \in Nat
  BY DiskAssumption
<1>2. ScanDisks(L) = a[N]
  BY DEF ScanDisks, Through
<1> HIDE DEF G
<1>3. a = [i \in 0..N |-> IF i = 0 THEN G ELSE F(a[i - 1], i)]
  <2> HIDE DEF N
  <2> QED
    BY SMTT(40), <1>1, DisksRecursion DEF G
<1>4. \A k \in 1..N : \A x : Scanned(x, k - 1) => Scanned(F(x, k), k)
  BY NextIsScanned
<1> HIDE DEF F, a, N
<1>5. T = {}
  <2>1. SUFFICES ASSUME T # {} PROVE FALSE
    OBVIOUS
  <2>2. PICK n \in T : \A m \in T : n <= m
    <3>1. T \in SUBSET Nat
      BY <1>1
    <3> HIDE DEF T
    <3> QED
      BY <2>1, <3>1, LeastNumber
  <2>3. n # 0
    BY <1>1, <1>3, <2>2, NothingIsScanned DEF G
  <2>4. n \in 1..N /\ n - 1 \in 0..N /\ ~(n <= n - 1)
    BY <1>1, <2>2, <2>3
  <2>5. Scanned(a[n - 1], n - 1) /\ a[n] = F(a[n - 1], n)
    BY <1>1, <1>3, <2>2, <2>3, <2>4
  <2> QED
    BY <1>4, <2>2, <2>4, <2>5
<1> QED
  BY <1>1, <1>2, <1>5 DEF N

\* The code chooses extents nothing is based on: in the primordial pool these
\* are pieces of free space, never a disk.
LEMMA FreeExtentsOfScan ==
    ASSUME NEW L, LevelsOK(L), IsFiniteSet(L.part),
           NEW G, G = SCSScanStorage(L)
    PROVE  /\ IsGraph(G)
           /\ \A x \in DOMAIN G.ext : G.ext[x].pool = Primordial /\ ~Based(G, x) =>
                  \E d \in ToSet(Disks) : x = Freespace(d)
<1> DEFINE H == ScanDisks(L)
<1>1. Scanned(H, Len(Disks))
  BY AllAreScanned
<1> HIDE DEF H
<1>2. DOMAIN G = DOMAIN H /\ G.ext = H.ext /\ G.based = H.based
  BY <1>1 DEF SCSScanStorage, Fixup, Scanned, IsGraph, H
<1>3. \A i \in 1..Len(Disks) : Disks[i] \in ToSet(Disks)
  BY DiskAssumption DEF ToSet
<1> QED
  BY <1>1, <1>2, <1>3 DEF Scanned, IsGraph, Based

-----------------------------------------------------------------------------
(***************************************************************************)
(* How the objects hang together after a scan.                             *)
(***************************************************************************)
Record(r, fields) == r = [f \in fields |-> r[f]]

\* A device is built on lower ones, and the extents the provider adds for a
\* group and for what is left in it are on top.
Height(L, x) ==
    IF x[1] = "disk" THEN 0
    ELSE IF x[1] = "part" THEN 1
    ELSE IF x[1] = "md" THEN (IF L.md[x[3]].level = 1 THEN 2 ELSE 3)
    ELSE IF x[1] = "Composite" THEN 4
    ELSE IF x[1] = "Freespace" THEN 5
    ELSE 6

\* A capability that has parity has no single point of failure, when that of
\* smsetup.conf is so.
CapOK(c) ==
    /\ Record(c, {"dr", "drMax", "pr", "prMax", "stripe", "parity", "nspf"})
    /\ c.nspf \in BOOLEAN
    /\ (PrimordialCap.parity = 2 => PrimordialCap.nspf) => (c.parity = 2 => c.nspf)

PoolsOK(G) ==
    /\ Record(G.pool, DOMAIN G.pool)
    /\ Primordial \in DOMAIN G.pool /\ DOMAIN G.pool \subseteq VgNames \cup {Primordial}
    /\ \A p \in DOMAIN G.pool : Record(G.pool[p], {"total", "remaining", "cap"}) /\ CapOK(G.pool[p].cap)

AllocOK(G) == \A a \in G.alloc : a.dep \in DOMAIN G.pool /\ a.ant \in DOMAIN G.pool /\ a.dep # a.ant

VolsOK(G) == DOMAIN G.vol \subseteq LvNames /\ \A v \in DOMAIN G.vol : G.vol[v].pool \in DOMAIN G.pool

ExtentsOK(G, L) ==
    \A x \in DOMAIN G.ext :
        /\ "pool" \in DOMAIN G.ext[x] /\ G.ext[x].pool \in DOMAIN G.pool \cup {NULL}
        /\ Height(L, x) \in 0..5
        /\ G.ext[x].pool = NULL => Height(L, x) \in 1..3 /\ \E b \in Antecedents(G, x) : b.order = 1

BasedOK(G, L) ==
    \A b \in G.based : b.dep \in DOMAIN G.ext /\ b.ant \in DOMAIN G.ext /\ Height(L, b.ant) < Height(L, b.dep)

Linked(G, L) ==
    /\ Record(G, {"defined", "ext", "pool", "vol", "based", "alloc"})
    /\ \A d \in ToSet(Disks) : Disk(d) \in DOMAIN G.ext
    /\ PoolsOK(G) /\ AllocOK(G) /\ VolsOK(G) /\ ExtentsOK(G, L) /\ BasedOK(G, L)

\* A pool has its composite extent, or is all on one RAID device.
HasComposite(G, L, v) ==
    \/ Composite(v) \in DOMAIN G.ext
    \/ \E n \in MdNums : ToSet(L.vg[v].devs) = {Md(n)} /\ Md(n) \in DOMAIN G.ext
PoolsComposed(G, L) == \A v \in DOMAIN G.pool \ {Primordial} : HasComposite(G, L, v)

LEMMA Heights ==
    ASSUME NEW L
    PROVE  /\ \A d : Height(L, Disk(d)) = 0
           /\ \A p : Height(L, Part(p)) = 1
           /\ \A n : Height(L, Md(n)) = (IF L.md[n].level = 1 THEN 2 ELSE 3)
           /\ \A v : Height(L, Composite(v)) = 4
           /\ \A v : Height(L, Freespace(v)) = 5
  BY DEF Height, Disk, Part, Md, Composite, Freespace

\* Every extent has a pool, its own or that of the first one below that has
\* one: the search of ExtentGetPool ends.
LEMMA RootPool ==
    ASSUME NEW G, NEW L, Linked(G, L), NEW x \in DOMAIN G.ext
    PROVE  ExtentGetPool(G, x) \in DOMAIN G.pool
<1> DEFINE E == DOMAIN G.ext
           own(y) == G.ext[y].pool
           up(y) == (CHOOSE b \in Antecedents(G, y) : b.order = 1).ant
           h(y) == Height(L, y)
           r1(y) == IF own(y) # NULL THEN own(y) ELSE own(up(y))
           r2(y) == IF own(y) # NULL THEN own(y) ELSE r1(up(y))
           r3(y) == IF own(y) # NULL THEN own(y) ELSE r2(up(y))
           P == DOMAIN G.pool
           f == [y \in E |-> r3(y)]
           g == CHOOSE k : k = [y \in E |-> IF own(y) # NULL THEN own(y) ELSE k[up(y)]]
<1>1. \A y \in E : h(y) \in 0..5 /\ (own(y) \in P \/ own(y) = NULL)
  BY DEF Linked, ExtentsOK
<1>2. ASSUME NEW y \in E, own(y) = NULL
      PROVE  h(y) \in 1..3 /\ up(y) \in E /\ h(up(y)) < h(y)
  <2>1. h(y) \in 1..3 /\ \E b \in Antecedents(G, y) : b.order = 1
    BY <1>2 DEF Linked, ExtentsOK
  <2>2. PICK b : b = (CHOOSE c \in Antecedents(G, y) : c.order = 1)
    OBVIOUS
  <2>3. b \in G.based /\ b.dep = y
    BY <2>1, <2>2 DEF Antecedents
  <2> QED
    BY <2>1, <2>2, <2>3 DEF Linked, BasedOK
<1>3. ExtentGetPool(G, x) = g[x]
  BY DEF ExtentGetPool
<1> HIDE DEF own, up, h, P, E
<1>4. \A y \in E : h(y) = 0 => own(y) # NULL
  BY <1>2
<1>5. \A y \in E : h(y) <= 1 /\ own(y) = NULL => up(y) \in E /\ h(up(y)) = 0 /\ own(up(y)) # NULL
  BY <1>1, <1>2, <1>4
<1>6. \A y \in E : h(y) <= 1 => r2(y) = r1(y)
  BY <1>5
<1>7. \A y \in E : h(y) <= 2 => r3(y) = r2(y)
  <2>1. \A y \in E : h(y) <= 2 /\ own(y) = NULL => up(y) \in E /\ h(up(y)) <= 1
    BY <1>1, <1>2
  <2> QED
    BY <1>6, <2>1
<1>8. \A y \in E : own(y) = NULL => up(y) \in E /\ r3(up(y)) = r2(up(y))
  BY <1>1, <1>2, <1>7
<1>9. f = [y \in E |-> IF own(y) # NULL THEN own(y) ELSE f[up(y)]]
  BY <1>8
<1>10. g = [y \in E |-> IF own(y) # NULL THEN own(y) ELSE g[up(y)]]
  <2> HIDE DEF f
  <2>1. \E k : k = [y \in E |-> IF own(y) # NULL THEN own(y) ELSE k[up(y)]]
    BY <1>9
  <2> QED
    BY <2>1
<1> HIDE DEF g
<1>11. \A y \in E : own(y) # NULL => g[y] \in P
  BY <1>1, <1>10
<1>12. \A y \in E : own(y) = NULL => g[y] = g[up(y)]
  BY <1>10
<1>13. \A y \in E : h(y) = 0 => g[y] \in P
  BY <1>4, <1>11
<1>14. \A y \in E : h(y) <= 1 => g[y] \in P
  BY <1>1, <1>2, <1>11, <1>12, <1>13
<1>15. \A y \in E : h(y) <= 2 => g[y] \in P
  BY <1>1, <1>2, <1>11, <1>12, <1>14
<1>16. \A y \in E : g[y] \in P
  BY <1>1, <1>2, <1>11, <1>12, <1>15
<1> QED
  BY <1>3, <1>16 DEF E, P

\* What changes numbers in pools only,
LEMMA PoolsChanged ==
    ASSUME NEW G, NEW L, Linked(G, L), NEW H,
           Record(H, {"defined", "ext", "pool", "vol", "based", "alloc"}),
           H.ext = G.ext, H.based = G.based, H.vol = G.vol, H.alloc = G.alloc,
           DOMAIN H.pool = DOMAIN G.pool, PoolsOK(H)
    PROVE  Linked(H, L)
<1>1. ExtentsOK(H, L)
  BY DEF Linked, ExtentsOK, Antecedents
<1> QED
  BY <1>1 DEF Linked, AllocOK, VolsOK, BasedOK

LEMMA TakeLinked ==
    ASSUME NEW G, NEW L, Linked(G, L), NEW p, NEW bytes
    PROVE  /\ Linked(Take(G, p, bytes), L)
           /\ DOMAIN Take(G, p, bytes).pool = DOMAIN G.pool /\ Take(G, p, bytes).ext = G.ext
<1> DEFINE H == Take(G, p, bytes)
           r(q) == IF q = p THEN [G.pool[q] EXCEPT !.remaining = @ - bytes] ELSE G.pool[q]
<1>1. /\ H = [G EXCEPT !.pool = [G.pool EXCEPT ![p].remaining = @ - bytes]]
      /\ Record(G, {"defined", "ext", "pool", "vol", "based", "alloc"}) /\ PoolsOK(G)
  BY DEF Take, Linked
<1>2. /\ Record(H, {"defined", "ext", "pool", "vol", "based", "alloc"})
      /\ H.ext = G.ext /\ H.based = G.based /\ H.vol = G.vol /\ H.alloc = G.alloc
      /\ H.pool = [q \in DOMAIN G.pool |-> r(q)]
  BY <1>1 DEF Record
<1> HIDE DEF H
<1>3. \A q \in DOMAIN G.pool : Record(r(q), {"total", "remaining", "cap"}) /\ r(q).cap = G.pool[q].cap
  BY <1>1 DEF PoolsOK, Record
<1> HIDE DEF r
<1>4. PoolsOK(H) /\ DOMAIN H.pool = DOMAIN G.pool
  BY SMTT(40), <1>1, <1>2, <1>3 DEF PoolsOK, Record
<1> QED
  BY <1>2, <1>4, PoolsChanged DEF H

\* pools and allocations that are added,
LEMMA PoolAllocLinked ==
    ASSUME NEW G, NEW L, Linked(G, L), NEW v \in VgNames, NEW total, NEW remaining, NEW cap, CapOK(cap)
    PROVE  /\ Linked(PoolAlloc(G, v, total, remaining, cap), L)
           /\ DOMAIN PoolAlloc(G, v, total, remaining, cap).pool = DOMAIN G.pool \cup {v}
           /\ PoolAlloc(G, v, total, remaining, cap).ext = G.ext
<1> DEFINE H == PoolAlloc(G, v, total, remaining, cap)
           e == [total |-> total, remaining |-> remaining, cap |-> cap]
<1>1. /\ H = [G EXCEPT !.pool = Added(@, v, e)]
      /\ Record(G, {"defined", "ext", "pool", "vol", "based", "alloc"}) /\ PoolsOK(G)
  BY DEF PoolAlloc, Linked
<1>2. Record(e, {"total", "remaining", "cap"}) /\ e.cap = cap
  BY DEF Record
<1> HIDE DEF e
<1>3. /\ Record(H, {"defined", "ext", "pool", "vol", "based", "alloc"})
      /\ H.ext = G.ext /\ H.based = G.based /\ H.vol = G.vol /\ H.alloc = G.alloc
      /\ H.pool = [q \in DOMAIN G.pool \cup {v} |-> IF q = v THEN e ELSE G.pool[q]]
  BY <1>1 DEF Record, Added
<1> HIDE DEF H
<1>4. PoolsOK(H) /\ DOMAIN H.pool = DOMAIN G.pool \cup {v}
  <2>1. DOMAIN H.pool = DOMAIN G.pool \cup {v} /\ Record(H.pool, DOMAIN H.pool)
    BY <1>3 DEF Record
  <2>2. \A q \in DOMAIN H.pool : Record(H.pool[q], {"total", "remaining", "cap"}) /\ CapOK(H.pool[q].cap)
    BY <1>1, <1>2, <1>3 DEF PoolsOK
  <2> QED
    BY <1>1, <2>1, <2>2 DEF PoolsOK
<1>5. ExtentsOK(H, L)
  BY <1>3, <1>4 DEF Linked, ExtentsOK, Antecedents
<1> QED
  BY <1>3, <1>4, <1>5 DEF Linked, AllocOK, VolsOK, BasedOK, H

LEMMA AllocationsLinked ==
    ASSUME NEW G, NEW L, Linked(G, L), NEW ant, NEW dep, NEW bytes
    PROVE  /\ {ant, dep} \subseteq DOMAIN G.pool /\ ant # dep =>
                  Linked(PoolCreateAllocFromAssociation(G, ant, dep, bytes), L)
           /\ Linked(PoolModifyAllocFromAssociation(G, ant, dep, bytes), L)
           /\ PoolCreateAllocFromAssociation(G, ant, dep, bytes).pool = G.pool
           /\ PoolCreateAllocFromAssociation(G, ant, dep, bytes).ext = G.ext
           /\ PoolModifyAllocFromAssociation(G, ant, dep, bytes).pool = G.pool
           /\ PoolModifyAllocFromAssociation(G, ant, dep, bytes).ext = G.ext
<1> DEFINE H == PoolCreateAllocFromAssociation(G, ant, dep, bytes)
           K == PoolModifyAllocFromAssociation(G, ant, dep, bytes)
           new == [dep |-> dep, ant |-> ant, space |-> bytes]
           upd(a) == IF a.dep = dep /\ a.ant = ant THEN [a EXCEPT !.space = @ + bytes] ELSE a
<1>1. Record(G, {"defined", "ext", "pool", "vol", "based", "alloc"})
  BY DEF Linked
<1>2. /\ Record(H, {"defined", "ext", "pool", "vol", "based", "alloc"})
      /\ H.ext = G.ext /\ H.pool = G.pool /\ H.based = G.based /\ H.vol = G.vol
      /\ H.alloc = G.alloc \cup {new}
  BY <1>1 DEF Record, PoolCreateAllocFromAssociation
<1>3. /\ Record(K, {"defined", "ext", "pool", "vol", "based", "alloc"})
      /\ K.ext = G.ext /\ K.pool = G.pool /\ K.based = G.based /\ K.vol = G.vol
      /\ K.alloc = {upd(a) : a \in G.alloc}
  BY <1>1 DEF Record, PoolModifyAllocFromAssociation
<1>4. new.dep = dep /\ new.ant = ant
  OBVIOUS
<1>5. \A a \in G.alloc : upd(a).dep = a.dep /\ upd(a).ant = a.ant
  OBVIOUS
<1> HIDE DEF H, K, new, upd
<1>6. {ant, dep} \subseteq DOMAIN G.pool /\ ant # dep => AllocOK(H)
  BY <1>2, <1>4 DEF AllocOK, Linked
<1>7. AllocOK(K)
  BY <1>3, <1>5 DEF AllocOK, Linked
<1>8. ExtentsOK(H, L) /\ ExtentsOK(K, L)
  BY <1>2, <1>3 DEF Linked, ExtentsOK, Antecedents
<1> QED
  BY <1>2, <1>3, <1>6, <1>7, <1>8 DEF Linked, PoolsOK, VolsOK, BasedOK, H, K

LEMMA TakeMoreLinked ==
    ASSUME NEW G, NEW L, Linked(G, L), NEW child, NEW p, NEW bytes
    PROVE  /\ Linked(TakeMore(G, child, p, bytes), L)
           /\ DOMAIN TakeMore(G, child, p, bytes).pool = DOMAIN G.pool
           /\ TakeMore(G, child, p, bytes).ext = G.ext
<1> DEFINE from == ExtentGetPool(G, child)
           H == Take(G, from, bytes)
<1>1. Linked(H, L) /\ DOMAIN H.pool = DOMAIN G.pool /\ H.ext = G.ext
  BY TakeLinked
<1> HIDE DEF H, from
<1> QED
  BY <1>1, AllocationsLinked DEF TakeMore, H, from

\* extents that are added or changed,
LEMMA NewExtentLinked ==
    ASSUME NEW G, NEW L, Linked(G, L), NEW ant \in DOMAIN G.ext, NEW x, Height(L, x) \in 0..5,
           Height(L, ant) < Height(L, x), NEW p \in DOMAIN G.pool \cup {NULL},
           p = NULL => Height(L, x) \in 1..3, NEW bytes, NEW comp
    PROVE  LET H == ExtentCreateBasedOnAssociation(ExtentAlloc(G, x, bytes, p, comp), x, ant, 1)
           IN  Linked(H, L) /\ H.pool = G.pool /\ DOMAIN H.ext = DOMAIN G.ext \cup {x}
<1> DEFINE H == ExtentCreateBasedOnAssociation(ExtentAlloc(G, x, bytes, p, comp), x, ant, 1)
           e == [size |-> bytes, pool |-> p, composite |-> comp]
           b == [dep |-> x, ant |-> ant, order |-> 1]
<1>1. Record(G, {"defined", "ext", "pool", "vol", "based", "alloc"})
  BY DEF Linked
<1>2. /\ Record(H, {"defined", "ext", "pool", "vol", "based", "alloc"})
      /\ H.pool = G.pool /\ H.vol = G.vol /\ H.alloc = G.alloc
      /\ H.ext = Added(G.ext, x, e) /\ H.based = G.based \cup {b}
  BY <1>1 DEF Record, ExtentCreateBasedOnAssociation, ExtentAlloc
<1>3. "pool" \in DOMAIN e /\ e.pool = p /\ b.dep = x /\ b.ant = ant /\ b.order = 1
  OBVIOUS
<1> HIDE DEF e, b, H
<1>4. H.ext = [y \in DOMAIN G.ext \cup {x} |-> IF y = x THEN e ELSE G.ext[y]]
  BY <1>2 DEF Added
<1>5. ASSUME NEW y \in DOMAIN H.ext
      PROVE  /\ "pool" \in DOMAIN H.ext[y] /\ H.ext[y].pool \in DOMAIN H.pool \cup {NULL}
             /\ Height(L, y) \in 0..5
             /\ H.ext[y].pool = NULL => Height(L, y) \in 1..3 /\ \E c \in Antecedents(H, y) : c.order = 1
  <2>1. CASE y = x
    BY <1>2, <1>3, <1>4, <2>1 DEF Antecedents
  <2>2. CASE y # x
    BY <1>2, <1>4, <2>2 DEF Antecedents, Linked, ExtentsOK
  <2> QED
    BY <2>1, <2>2
<1>6. BasedOK(H, L)
  BY <1>2, <1>3, <1>4 DEF BasedOK, Linked
<1>7. ExtentsOK(H, L)
  BY <1>5 DEF ExtentsOK
<1>8. PoolsOK(H) /\ AllocOK(H) /\ VolsOK(H) /\ \A d \in ToSet(Disks) : Disk(d) \in DOMAIN H.ext
  BY <1>2, <1>4 DEF Linked, PoolsOK, AllocOK, VolsOK
<1> QED
  BY <1>2, <1>4, <1>6, <1>7, <1>8 DEF Linked, H

LEMMA ExtentsChanged ==
    ASSUME NEW G, NEW L, Linked(G, L), NEW H,
           Record(H, {"defined", "ext", "pool", "vol", "based", "alloc"}),
           H.pool = G.pool, H.based = G.based, H.vol = G.vol, H.alloc = G.alloc,
           DOMAIN H.ext = DOMAIN G.ext,
           \A x \in DOMAIN G.ext : /\ "pool" \in DOMAIN H.ext[x]
                                   /\ H.ext[x].pool = G.ext[x].pool \/ H.ext[x].pool \in DOMAIN G.pool
    PROVE  Linked(H, L)
<1>1. NULL \notin DOMAIN G.pool
  BY DiskAssumption, ScanAssumption DEF Linked, PoolsOK
<1>2. ExtentsOK(H, L)
  BY <1>1 DEF Linked, ExtentsOK, Antecedents
<1> QED
  BY <1>2 DEF Linked, PoolsOK, AllocOK, VolsOK, BasedOK

LEMMA AdoptLinked ==
    ASSUME NEW G, NEW L, Linked(G, L), NEW x, NEW v \in DOMAIN G.pool
    PROVE  LET H == [G EXCEPT !.ext[x].pool = v]
           IN  Linked(H, L) /\ H.pool = G.pool /\ DOMAIN H.ext = DOMAIN G.ext
<1> DEFINE H == [G EXCEPT !.ext[x].pool = v]
<1>1. /\ Record(G, {"defined", "ext", "pool", "vol", "based", "alloc"})
      /\ \A y \in DOMAIN G.ext : "pool" \in DOMAIN G.ext[y]
  BY DEF Linked, ExtentsOK
<1>2. /\ Record(H, {"defined", "ext", "pool", "vol", "based", "alloc"})
      /\ H.pool = G.pool /\ H.based = G.based /\ H.vol = G.vol /\ H.alloc = G.alloc
      /\ DOMAIN H.ext = DOMAIN G.ext
  BY <1>1 DEF Record
<1>3. \A y \in DOMAIN G.ext : "pool" \in DOMAIN H.ext[y] /\ H.ext[y].pool \in {G.ext[y].pool, v}
  BY <1>1 DEF Record
<1> HIDE DEF H
<1>4. Linked(H, L)
  BY <1>2, <1>3, ExtentsChanged
<1> QED
  BY <1>2, <1>4 DEF H

LEMMA MarkLinked ==
    ASSUME NEW G, NEW L, Linked(G, L), NEW x
    PROVE  LET H == [G EXCEPT !.ext[x].composite = TRUE]
           IN  Linked(H, L) /\ H.pool = G.pool /\ DOMAIN H.ext = DOMAIN G.ext
<1> DEFINE H == [G EXCEPT !.ext[x].composite = TRUE]
<1>1. /\ Record(G, {"defined", "ext", "pool", "vol", "based", "alloc"})
      /\ \A y \in DOMAIN G.ext : "pool" \in DOMAIN G.ext[y]
  BY DEF Linked, ExtentsOK
<1>2. /\ Record(H, {"defined", "ext", "pool", "vol", "based", "alloc"})
      /\ H.pool = G.pool /\ H.based = G.based /\ H.vol = G.vol /\ H.alloc = G.alloc
      /\ DOMAIN H.ext = DOMAIN G.ext
  BY <1>1 DEF Record
<1>3. \A y \in DOMAIN G.ext : "pool" \in DOMAIN H.ext[y] /\ H.ext[y].pool = G.ext[y].pool
  BY <1>1 DEF Record
<1> HIDE DEF H
<1>4. Linked(H, L)
  BY <1>2, <1>3, ExtentsChanged
<1> QED
  BY <1>2, <1>4 DEF H

LEMMA ResizeLinked ==
    ASSUME NEW G, NEW L, Linked(G, L), NEW x, NEW bytes
    PROVE  LET H == [G EXCEPT !.ext[x].size = bytes]
           IN  Linked(H, L) /\ H.pool = G.pool /\ DOMAIN H.ext = DOMAIN G.ext
<1> DEFINE H == [G EXCEPT !.ext[x].size = bytes]
<1>1. /\ Record(G, {"defined", "ext", "pool", "vol", "based", "alloc"})
      /\ \A y \in DOMAIN G.ext : "pool" \in DOMAIN G.ext[y]
  BY DEF Linked, ExtentsOK
<1>2. /\ Record(H, {"defined", "ext", "pool", "vol", "based", "alloc"})
      /\ H.pool = G.pool /\ H.based = G.based /\ H.vol = G.vol /\ H.alloc = G.alloc
      /\ DOMAIN H.ext = DOMAIN G.ext
  BY <1>1 DEF Record
<1>3. \A y \in DOMAIN G.ext : "pool" \in DOMAIN H.ext[y] /\ H.ext[y].pool = G.ext[y].pool
  BY <1>1 DEF Record
<1> HIDE DEF H
<1>4. Linked(H, L)
  BY <1>2, <1>3, ExtentsChanged
<1> QED
  BY <1>2, <1>4 DEF H

Shrunk(G, x, bytes) == [G EXCEPT !.ext[x].size = @ - bytes]

LEMMA ShrinkLinked ==
    ASSUME NEW G, NEW L, Linked(G, L), NEW x, NEW bytes
    PROVE  /\ Linked(Shrunk(G, x, bytes), L) /\ Shrunk(G, x, bytes).pool = G.pool
           /\ DOMAIN Shrunk(G, x, bytes).ext = DOMAIN G.ext
<1> DEFINE H == Shrunk(G, x, bytes)
<1>1. /\ Record(G, {"defined", "ext", "pool", "vol", "based", "alloc"})
      /\ \A y \in DOMAIN G.ext : "pool" \in DOMAIN G.ext[y]
  BY DEF Linked, ExtentsOK
<1>2. /\ Record(H, {"defined", "ext", "pool", "vol", "based", "alloc"})
      /\ H.pool = G.pool /\ H.based = G.based /\ H.vol = G.vol /\ H.alloc = G.alloc
      /\ DOMAIN H.ext = DOMAIN G.ext
  BY <1>1 DEF Record, Shrunk
<1>3. \A y \in DOMAIN G.ext : "pool" \in DOMAIN H.ext[y] /\ H.ext[y].pool = G.ext[y].pool
  BY <1>1 DEF Record, Shrunk
<1> HIDE DEF H
<1>4. Linked(H, L)
  BY <1>2, <1>3, ExtentsChanged
<1> QED
  BY <1>2, <1>4 DEF H

\* an extent that is built on one more device,
LEMMA NextBasedOnLinked ==
    ASSUME NEW G, NEW L, Linked(G, L), NEW dep \in DOMAIN G.ext, NEW ant \in DOMAIN G.ext,
           Height(L, ant) < Height(L, dep), NEW order
    PROVE  /\ Linked(ExtentCreateBasedOnAssociation(G, dep, ant, order), L)
           /\ ExtentCreateBasedOnAssociation(G, dep, ant, order).pool = G.pool
           /\ ExtentCreateBasedOnAssociation(G, dep, ant, order).ext = G.ext
<1> DEFINE H == ExtentCreateBasedOnAssociation(G, dep, ant, order)
           b == [dep |-> dep, ant |-> ant, order |-> order]
<1>1. Record(G, {"defined", "ext", "pool", "vol", "based", "alloc"})
  BY DEF Linked
<1>2. /\ Record(H, {"defined", "ext", "pool", "vol", "based", "alloc"})
      /\ H.pool = G.pool /\ H.vol = G.vol /\ H.alloc = G.alloc
      /\ H.ext = G.ext /\ H.based = G.based \cup {b}
  BY <1>1 DEF Record, ExtentCreateBasedOnAssociation
<1>3. b.dep = dep /\ b.ant = ant
  OBVIOUS
<1> HIDE DEF H, b
<1>4. ExtentsOK(H, L)
  BY <1>2 DEF Linked, ExtentsOK, Antecedents
<1>5. BasedOK(H, L)
  BY <1>2, <1>3 DEF Linked, BasedOK
<1> QED
  BY <1>2, <1>4, <1>5 DEF Linked, PoolsOK, AllocOK, VolsOK, H

\* and volumes.
LEMMA VolumesLinked ==
    ASSUME NEW G, NEW L, Linked(G, L), NEW v \in DOMAIN G.pool, NEW x
    PROVE  /\ Linked(ProcessVolumes(G, L, v, x), L)
           /\ ProcessVolumes(G, L, v, x).pool = G.pool /\ ProcessVolumes(G, L, v, x).ext = G.ext
<1> DEFINE H == ProcessVolumes(G, L, v, x)
           vol(l) == VolumeCreateBasedOnAssociation(
                         VolumeCreateAllocFromAssociation(VolumeAlloc(l, L.vg[v].lvs[l]), v), x)
<1>1. Record(G, {"defined", "ext", "pool", "vol", "based", "alloc"})
  BY DEF Linked
<1>2. /\ Record(H, {"defined", "ext", "pool", "vol", "based", "alloc"})
      /\ H.pool = G.pool /\ H.ext = G.ext /\ H.based = G.based /\ H.alloc = G.alloc
      /\ H.vol = [l \in DOMAIN G.vol \cup LvsIn(L, v) |-> IF l \in DOMAIN G.vol THEN G.vol[l] ELSE vol(l)]
  BY <1>1 DEF Record, ProcessVolumes, AddedIfNew
<1>3. \A l : vol(l).pool = v
  BY DEF VolumeCreateBasedOnAssociation, VolumeCreateAllocFromAssociation, VolumeAlloc
<1>4. LvsIn(L, v) \subseteq LvNames
  BY DEF LvsIn
<1> HIDE DEF H, vol
<1>5. VolsOK(H)
  BY <1>2, <1>3, <1>4 DEF Linked, VolsOK
<1>6. ExtentsOK(H, L)
  BY <1>2 DEF Linked, ExtentsOK, Antecedents
<1> QED
  BY <1>2, <1>5, <1>6 DEF Linked, PoolsOK, AllocOK, BasedOK, H

\* A layout a scan can meet: see LayoutInv in RaidPool_proofs.
ScanOK(L) ==
    /\ LevelsOK(L) /\ LayoutOK(L) /\ IsFiniteSet(L.part)
    /\ \A v \in VgNames : L.vg[v].devs \in Seq(ToSet(L.vg[v].devs))

LEMMA CapsOK ==
    ASSUME NEW dr, NEW pr, NEW stripe
    PROVE  /\ CapOK(Cap(dr, pr, stripe, 0, FALSE))
           /\ CapOK(Cap(dr, pr, stripe, 0, TRUE))
           /\ CapOK(Cap(dr, pr, stripe, 2, TRUE))
  BY DEF CapOK, Cap, Record

LEMMA FirstOfContainerLinked ==
    ASSUME NEW G, NEW L, Linked(G, L), NEW child \in DOMAIN G.ext, Height(L, child) < 4,
           NEW v \in VgNames, v \notin DOMAIN G.pool, NEW cap, CapOK(cap),
           NEW H, H = FirstOfContainer(G, L, child, cap, v)
    PROVE  /\ Linked(H, L) /\ DOMAIN H.pool = DOMAIN G.pool \cup {v} /\ DOMAIN G.ext \subseteq DOMAIN H.ext
           /\ Composite(v) \in DOMAIN H.ext \/ (IsMd(child) /\ Len(L.vg[v].devs) = 1)
<1> DEFINE total == SizeOfAll(L, L.vg[v].devs) \div OneKB
           free  == PeFree(L, v) \div OneKB
           one   == IsMd(child) /\ Len(L.vg[v].devs) = 1
           comp  == IF one THEN child ELSE Composite(v)
           mine  == IF IsJBOD(cap) THEN Cap(1, 0, 1, 0, FALSE) ELSE cap
           from  == ExtentGetPool(G, child)
           size  == G.ext[child].size
           g1 == PoolAlloc(G, v, total, free, mine)
           h2 == ExtentCreateBasedOnAssociation(ExtentAlloc(g1, comp, size, v, FALSE), comp, child, 1)
           k2 == [g1 EXCEPT !.ext[child].pool = v]
           g2 == IF one THEN k2 ELSE h2
           g3 == PoolCreateAllocFromAssociation(g2, from, v, size)
           g4 == ExtentCreateBasedOnAssociation(ExtentAlloc(g3, Freespace(v), free, v, FALSE), Freespace(v), comp, 1)
<1>0. H = g4
  BY DEF FirstOfContainer
<1>1. CapOK(mine)
  <2>1. CapOK(Cap(1, 0, 1, 0, FALSE))
    BY CapsOK
  <2> QED
    BY <2>1
<1>2. from \in DOMAIN G.pool /\ from # v
  BY RootPool
<1> HIDE DEF total, free, mine, from, size
<1>3. Linked(g1, L) /\ DOMAIN g1.pool = DOMAIN G.pool \cup {v} /\ g1.ext = G.ext
  BY <1>1, PoolAllocLinked
<1> HIDE DEF g1
<1>4. CASE ~one
  <2>1. comp = Composite(v) /\ Height(L, comp) = 4 /\ Height(L, Freespace(v)) = 5
    BY <1>4, Heights
  <2>2. Linked(h2, L) /\ h2.pool = g1.pool /\ DOMAIN h2.ext = DOMAIN G.ext \cup {Composite(v)}
    <3> HIDE DEF comp
    <3>1. v \in DOMAIN g1.pool \cup {NULL} /\ child \in DOMAIN g1.ext /\ v # NULL
      BY <1>3, DiskAssumption
    <3>2. Height(L, comp) \in 0..5 /\ Height(L, child) < Height(L, comp)
      BY <2>1
    <3>3. ASSUME NEW c
          PROVE  LET K == ExtentCreateBasedOnAssociation(ExtentAlloc(g1, comp, size, v, c), comp, child, 1)
                 IN  Linked(K, L) /\ K.pool = g1.pool /\ DOMAIN K.ext = DOMAIN g1.ext \cup {comp}
      BY <1>3, <3>1, <3>2, NewExtentLinked
    <3> QED
      BY <1>3, <2>1, <3>3
  <2>3. g2 = h2
    BY <1>4
  <2> HIDE DEF h2, g2
  <2>4. Linked(g3, L) /\ g3.pool = g1.pool /\ DOMAIN g3.ext = DOMAIN G.ext \cup {Composite(v)}
    BY <1>2, <1>3, <2>2, <2>3, AllocationsLinked
  <2> HIDE DEF g3
  <2>5. Linked(g4, L) /\ g4.pool = g3.pool /\ DOMAIN g4.ext = DOMAIN g3.ext \cup {Freespace(v)}
    <3>1. v \in DOMAIN g3.pool \cup {NULL} /\ comp \in DOMAIN g3.ext /\ v # NULL
      BY <1>3, <2>1, <2>4, DiskAssumption
    <3> HIDE DEF comp
    <3>2. Height(L, Freespace(v)) \in 0..5 /\ Height(L, comp) < Height(L, Freespace(v))
      BY <2>1
    <3>3. ASSUME NEW c
          PROVE  LET K == ExtentCreateBasedOnAssociation(ExtentAlloc(g3, Freespace(v), free, v, c),
                                                         Freespace(v), comp, 1)
                 IN  Linked(K, L) /\ K.pool = g3.pool /\ DOMAIN K.ext = DOMAIN g3.ext \cup {Freespace(v)}
      BY <2>4, <3>1, <3>2, NewExtentLinked
    <3> QED
      BY <3>3
  <2> QED
    BY <1>0, <1>3, <2>4, <2>5
<1>5. CASE one
  <2>1. comp = child /\ Height(L, Freespace(v)) = 5
    BY <1>5, Heights
  <2>2. Linked(k2, L) /\ k2.pool = g1.pool /\ DOMAIN k2.ext = DOMAIN G.ext
    <3> HIDE DEF k2
    <3> HIDE DEF g2
    <3> QED
      BY <1>3, AdoptLinked DEF k2
  <2>3. g2 = k2
    BY <1>5
  <2> HIDE DEF k2, g2
  <2>4. Linked(g3, L) /\ g3.pool = g1.pool /\ DOMAIN g3.ext = DOMAIN G.ext
    BY <1>2, <1>3, <2>2, <2>3, AllocationsLinked
  <2> HIDE DEF g3
  <2>5. Linked(g4, L) /\ g4.pool = g3.pool /\ DOMAIN g4.ext = DOMAIN g3.ext \cup {Freespace(v)}
    <3>1. v \in DOMAIN g3.pool \cup {NULL} /\ comp \in DOMAIN g3.ext /\ v # NULL
      BY <1>3, <2>1, <2>4, DiskAssumption
    <3>2. Height(L, Freespace(v)) \in 0..5 /\ Height(L, comp) < Height(L, Freespace(v))
      <4>1. Height(L, child) \in 0..5
        BY DEF Linked, ExtentsOK
      <4> QED
        BY <2>1, <4>1
    <3> HIDE DEF comp
    <3>3. ASSUME NEW c
          PROVE  LET K == ExtentCreateBasedOnAssociation(ExtentAlloc(g3, Freespace(v), free, v, c),
                                                         Freespace(v), comp, 1)
                 IN  Linked(K, L) /\ K.pool = g3.pool /\ DOMAIN K.ext = DOMAIN g3.ext \cup {Freespace(v)}
      BY <2>4, <3>1, <3>2, NewExtentLinked
    <3> QED
      BY <3>3
  <2> QED
    BY <1>0, <1>3, <1>5, <2>4, <2>5
<1> QED
  BY SMTT(40), <1>4, <1>5

LEMMA NextOfContainerLinked ==
    ASSUME NEW G, NEW L, Linked(G, L), NEW child \in DOMAIN G.ext, Height(L, child) < 4,
           NEW v \in DOMAIN G.pool, Composite(v) \in DOMAIN G.ext,
           NEW H, H = NextOfContainer(G, child, v)
    PROVE  Linked(H, L) /\ H.pool = G.pool /\ DOMAIN H.ext = DOMAIN G.ext
<1> DEFINE comp == Composite(v)
           g == PoolModifyAllocFromAssociation(G, ExtentGetPool(G, child), v, G.ext[child].size)
           h == ExtentCreateBasedOnAssociation(g, comp, child, NextOrder(G, comp))
           k == [h EXCEPT !.ext[comp].composite = TRUE]
<1>0. H = k
  BY DEF NextOfContainer
<1>1. Linked(g, L) /\ g.pool = G.pool /\ g.ext = G.ext
  BY AllocationsLinked
<1> HIDE DEF g
<1>2. Linked(h, L) /\ h.pool = G.pool /\ h.ext = G.ext
  BY <1>1, NextBasedOnLinked, Heights
<1> HIDE DEF h, comp
<1>3. Linked(k, L) /\ k.pool = h.pool /\ DOMAIN k.ext = DOMAIN h.ext
  BY <1>2, MarkLinked
<1> HIDE DEF k
<1> QED
  BY <1>0, <1>2, <1>3

\* A device that can be a RAID device by its name is one.
IsDevice(x) == IsMd(x) => \E n \in MdNums : x = Md(n)

LEMMA ContainerLinked ==
    ASSUME NEW G, NEW L, ScanOK(L), Linked(G, L), NEW child \in DOMAIN G.ext, Height(L, child) < 4,
           NEW v \in VgNames, child \in ToSet(L.vg[v].devs), IsDevice(child),
           v \in DOMAIN G.pool => Composite(v) \in DOMAIN G.ext, NEW cap, CapOK(cap),
           NEW H, H = ProcessContainer(G, L, child, cap, v)
    PROVE  /\ Linked(H, L) /\ DOMAIN H.pool = DOMAIN G.pool \cup {v} /\ DOMAIN G.ext \subseteq DOMAIN H.ext
           /\ HasComposite(H, L, v)
<1> DEFINE first == FirstOfContainer(G, L, child, cap, v)
           next == NextOfContainer(G, child, v)
           g == IF v \in DOMAIN G.pool THEN next ELSE first
           comp == IF Composite(v) \in DOMAIN g.ext THEN Composite(v) ELSE child
           h == Take(g, ExtentGetPool(G, child), G.ext[child].size)
           k == ProcessVolumes(h, L, v, comp)
<1>0. H = k
  BY DEF ProcessContainer
<1>1. /\ Linked(g, L) /\ DOMAIN g.pool = DOMAIN G.pool \cup {v} /\ DOMAIN G.ext \subseteq DOMAIN g.ext
      /\ Composite(v) \in DOMAIN g.ext \/ (IsMd(child) /\ Len(L.vg[v].devs) = 1)
  <2> HIDE DEF first, next
  <2>1. CASE v \in DOMAIN G.pool
    <3>1. Linked(next, L) /\ next.pool = G.pool /\ DOMAIN next.ext = DOMAIN G.ext
      BY <2>1, NextOfContainerLinked DEF next
    <3> QED
      BY <2>1, <3>1
  <2>2. CASE v \notin DOMAIN G.pool
    <3>1. /\ Linked(first, L) /\ DOMAIN first.pool = DOMAIN G.pool \cup {v} /\ DOMAIN G.ext \subseteq DOMAIN first.ext
          /\ Composite(v) \in DOMAIN first.ext \/ (IsMd(child) /\ Len(L.vg[v].devs) = 1)
      BY <2>2, FirstOfContainerLinked DEF first
    <3> QED
      BY <2>2, <3>1
  <2> QED
    BY <2>1, <2>2
<1> HIDE DEF g, comp
<1>2. Linked(h, L) /\ DOMAIN h.pool = DOMAIN g.pool /\ h.ext = g.ext
  BY <1>1, TakeLinked
<1> HIDE DEF h
<1>3. Linked(k, L) /\ k.pool = h.pool /\ k.ext = h.ext
  BY <1>1, <1>2, VolumesLinked
<1>4. IsMd(child) /\ Len(L.vg[v].devs) = 1 => \E n \in MdNums : ToSet(L.vg[v].devs) = {Md(n)} /\ child = Md(n)
  <2> SUFFICES ASSUME IsMd(child), Len(L.vg[v].devs) = 1
               PROVE  ToSet(L.vg[v].devs) = {child}
    BY DEF IsDevice
  <2>1. L.vg[v].devs \in Seq(ToSet(L.vg[v].devs))
    BY DEF ScanOK
  <2> DEFINE s == L.vg[v].devs
             S == ToSet(s)
  <2>2. DOMAIN s = {1}
    <3> HIDE DEF s, S
    <3>1. s \in Seq(S) /\ Len(s) = 1
      BY <2>1 DEF s, S
    <3> QED
      BY <3>1
  <2>3. S = {s[1]}
    BY <2>2 DEF ToSet
  <2> QED
    BY <2>3
<1> HIDE DEF k
<1> QED
  BY <1>0, <1>1, <1>2, <1>3, <1>4 DEF HasComposite

\* The state of the graph while the disks are processed.
Scanning(G, L) == Linked(G, L) /\ PoolsComposed(G, L)

\* A group on a device that has no extent yet has its composite extent, or is
\* not known yet.
LEMMA GroupIsOpen ==
    ASSUME NEW G, NEW L, PoolsComposed(G, L), NEW x, VgsUsing(L, x) # {}, IsMd(x) => x \notin DOMAIN G.ext,
           NEW v, v = (CHOOSE w \in VgsUsing(L, x) : TRUE)
    PROVE  /\ v \in VgNames /\ x \in ToSet(L.vg[v].devs)
           /\ v \in DOMAIN G.pool => Composite(v) \in DOMAIN G.ext
<1>1. v \in VgNames /\ x \in ToSet(L.vg[v].devs)
  BY DEF VgsUsing, VgsOf
<1>2. v # Primordial
  BY <1>1, ScanAssumption
<1>3. \A n : IsMd(Md(n))
  BY DEF IsMd, Md
<1>4. ASSUME v \in DOMAIN G.pool PROVE Composite(v) \in DOMAIN G.ext
  <2>1. HasComposite(G, L, v)
    BY <1>2, <1>4 DEF PoolsComposed
  <2> QED
    BY <1>1, <1>3, <2>1 DEF HasComposite
<1> QED
  BY <1>1, <1>4

\* What leaves the pools alone leaves them composed.
LEMMA StaysComposed ==
    ASSUME NEW G, NEW L, PoolsComposed(G, L), NEW H, DOMAIN G.ext \subseteq DOMAIN H.ext,
           DOMAIN H.pool \subseteq DOMAIN G.pool
    PROVE  PoolsComposed(H, L)
  BY DEF PoolsComposed, HasComposite

\* A group is processed on a device that has just got its extent.
LEMMA GroupLinked ==
    ASSUME NEW G, NEW L, ScanOK(L), PoolsComposed(G, L), NEW x, VgsUsing(L, x) # {},
           IsDevice(x), IsMd(x) => x \notin DOMAIN G.ext,
           NEW new, Linked(new, L), new.pool = G.pool, DOMAIN new.ext = DOMAIN G.ext \cup {x},
           Height(L, x) < 4, NEW cap, CapOK(cap), NEW v, v = (CHOOSE w \in VgsUsing(L, x) : TRUE),
           NEW H, H = ProcessContainer(new, L, x, cap, v)
    PROVE  Scanning(H, L) /\ DOMAIN G.ext \subseteq DOMAIN H.ext
<1>1. /\ v \in VgNames /\ x \in ToSet(L.vg[v].devs)
      /\ v \in DOMAIN G.pool => Composite(v) \in DOMAIN G.ext
  BY GroupIsOpen
<1>2. v \in DOMAIN new.pool => Composite(v) \in DOMAIN new.ext
  BY <1>1
<1>3. x \in DOMAIN new.ext
  OBVIOUS
<1>4. /\ Linked(H, L) /\ DOMAIN H.pool = DOMAIN new.pool \cup {v} /\ DOMAIN new.ext \subseteq DOMAIN H.ext
      /\ HasComposite(H, L, v)
  <2>1. ASSUME NEW w \in VgNames, x \in ToSet(L.vg[w].devs),
               w \in DOMAIN new.pool => Composite(w) \in DOMAIN new.ext,
               NEW K, K = ProcessContainer(new, L, x, cap, w)
        PROVE  /\ Linked(K, L) /\ DOMAIN K.pool = DOMAIN new.pool \cup {w}
               /\ DOMAIN new.ext \subseteq DOMAIN K.ext /\ HasComposite(K, L, w)
    BY <1>3, <2>1, ContainerLinked
  <2> QED
    BY <1>1, <1>2, <2>1
<1>5. PoolsComposed(H, L)
  BY <1>4 DEF PoolsComposed, HasComposite
<1> QED
  BY <1>4, <1>5 DEF Scanning

\* The extent of a RAID device, and one more of its members.
LEMMA RegionLinked ==
    ASSUME NEW G, NEW L, Scanning(G, L), NEW child \in DOMAIN G.ext, NEW n,
           Height(L, child) < Height(L, Md(n)), NEW bytes
    PROVE  /\ LET new == NewRegion(G, L, child, n, bytes)
              IN  /\ Scanning(new, L) /\ new.pool = G.pool /\ DOMAIN new.ext = DOMAIN G.ext \cup {Md(n)}
           /\ RegionFound(G, n) =>
                  LET more == NextMember(G, child, n)
                  IN  Scanning(more, L) /\ more.pool = G.pool /\ more.ext = G.ext
<1> DEFINE new == NewRegion(G, L, child, n, bytes)
           more == NextMember(G, child, n)
           size == Max({bytes, L.md[n].size})
           H(c) == ExtentCreateBasedOnAssociation(ExtentAlloc(G, Md(n), size, NULL, c), Md(n), child, 1)
<1>1. Linked(G, L) /\ Height(L, Md(n)) \in 1..3 /\ Height(L, Md(n)) \in 0..5
  <2>1. Height(L, Md(n)) = 2 \/ Height(L, Md(n)) = 3
    BY Heights
  <2> QED
    BY <2>1 DEF Scanning
<1> HIDE DEF size
<1>2. ASSUME NEW c
      PROVE  Linked(H(c), L) /\ H(c).pool = G.pool /\ DOMAIN H(c).ext = DOMAIN G.ext \cup {Md(n)}
  <2>1. NULL \in DOMAIN G.pool \cup {NULL}
    OBVIOUS
  <2> DEFINE x == Md(n)
             p == NULL
  <2>2. /\ Height(L, x) \in 0..5 /\ Height(L, child) < Height(L, x) /\ p \in DOMAIN G.pool \cup {NULL}
        /\ p = NULL => Height(L, x) \in 1..3
    BY <1>1
  <2> HIDE DEF x, p
  <2>3. LET K == ExtentCreateBasedOnAssociation(ExtentAlloc(G, x, size, p, c), x, child, 1)
        IN  Linked(K, L) /\ K.pool = G.pool /\ DOMAIN K.ext = DOMAIN G.ext \cup {x}
    BY <1>1, <2>2, NewExtentLinked
  <2> QED
    BY <2>3 DEF x, p
<1>3. new = H(TRUE)
  BY DEF NewRegion, size
<1> HIDE DEF H
<1>4. Linked(new, L) /\ new.pool = G.pool /\ DOMAIN new.ext = DOMAIN G.ext \cup {Md(n)}
  BY <1>2, <1>3
<1>5. RegionFound(G, n) => Linked(more, L) /\ more.pool = G.pool /\ more.ext = G.ext
  BY <1>1, NextBasedOnLinked DEF RegionFound, NextMember
<1> HIDE DEF new, more
<1>6. PoolsComposed(new, L) /\ (RegionFound(G, n) => PoolsComposed(more, L))
  BY <1>4, <1>5, StaysComposed DEF Scanning
<1> QED
  BY <1>4, <1>5, <1>6 DEF Scanning, new, more

LEMMA TakeMoreScanning ==
    ASSUME NEW G, NEW L, Scanning(G, L), NEW child, NEW p, NEW bytes
    PROVE  Scanning(TakeMore(G, child, p, bytes), L) /\ TakeMore(G, child, p, bytes).ext = G.ext
<1> DEFINE H == TakeMore(G, child, p, bytes)
<1>1. Linked(H, L) /\ DOMAIN H.pool = DOMAIN G.pool /\ H.ext = G.ext
  BY TakeMoreLinked DEF Scanning
<1> HIDE DEF H
<1>2. PoolsComposed(H, L)
  BY <1>1, StaysComposed DEF Scanning
<1> QED
  BY <1>1, <1>2 DEF Scanning, H

LEMMA Raid0Linked ==
    ASSUME NEW G, NEW L, ScanOK(L), Scanning(G, L), NEW child \in DOMAIN G.ext, NEW n \in MdsOf(L),
           Height(L, child) < Height(L, Md(n)), NEW H, H = ProcessMDRaid0Region(G, L, child, n)
    PROVE  Scanning(H, L) /\ DOMAIN G.ext \subseteq DOMAIN H.ext
<1> DEFINE stripes  == Len(L.md[n].devs)
           mirrored == G.ext[child].composite
           cap  == IF mirrored THEN Cap(2, 1, stripes, 0, TRUE) ELSE Cap(1, 0, stripes, 0, FALSE)
           new  == NewRegion(G, L, child, n, stripes * G.ext[child].size)
           more == NextMember(G, child, n)
           taken == TakeMore(more, child, ExtentGetPool(more, OnlyDependent(more, Md(n))),
                             more.ext[Md(n)].size)
           held == ProcessContainer(new, L, Md(n), cap, GroupOn(L, n))
<1>1. \/ ~RegionFound(G, n) /\ HasGroup(L, n) /\ H = held
      \/ ~RegionFound(G, n) /\ H = new
      \/ RegionFound(G, n) /\ H \in {taken, more}
  BY DEF ProcessMDRaid0Region
<1>2. CapOK(cap)
  <2>1. CapOK(Cap(2, 1, stripes, 0, TRUE)) /\ CapOK(Cap(1, 0, stripes, 0, FALSE))
    BY CapsOK
  <2>2. CASE mirrored
    BY <2>1, <2>2
  <2>3. CASE ~mirrored
    BY <2>1, <2>3
  <2> QED
    BY <2>2, <2>3
<1>3. /\ Scanning(new, L) /\ new.pool = G.pool /\ DOMAIN new.ext = DOMAIN G.ext \cup {Md(n)}
      /\ RegionFound(G, n) => Scanning(more, L) /\ more.pool = G.pool /\ more.ext = G.ext
  BY RegionLinked
<1>4. n \in MdNums /\ Height(L, Md(n)) < 4
  BY Heights DEF MdsOf
<1> HIDE DEF cap, new, more
<1>5. RegionFound(G, n) => Scanning(taken, L) /\ taken.ext = G.ext
  BY <1>3, TakeMoreScanning
<1>6. ASSUME ~RegionFound(G, n), HasGroup(L, n)
      PROVE  Scanning(held, L) /\ DOMAIN G.ext \subseteq DOMAIN held.ext
  <2>1. /\ VgsUsing(L, Md(n)) # {} /\ Md(n) \notin DOMAIN G.ext /\ IsDevice(Md(n))
        /\ GroupOn(L, n) = CHOOSE w \in VgsUsing(L, Md(n)) : TRUE
    BY <1>4, <1>6 DEF HasGroup, RegionFound, GroupOn, IsDevice
  <2>2. PoolsComposed(G, L) /\ Linked(new, L)
    BY <1>3 DEF Scanning
  <2> QED
    BY <1>2, <1>3, <1>4, <2>1, <2>2, GroupLinked
<1> HIDE DEF held, taken
<1> QED
  BY <1>1, <1>3, <1>5, <1>6

LEMMA Raid5Linked ==
    ASSUME NEW G, NEW L, ScanOK(L), Scanning(G, L), NEW child \in DOMAIN G.ext, NEW n \in MdsOf(L),
           Height(L, child) < Height(L, Md(n)), NEW H, H = ProcessMDRaid5Region(G, L, child, n)
    PROVE  Scanning(H, L) /\ DOMAIN G.ext \subseteq DOMAIN H.ext
<1> DEFINE devs == Len(L.md[n].devs)
           cap  == Cap(1, 1, devs, 2, TRUE)
           new  == NewRegion(G, L, child, n, (devs - 1) * G.ext[child].size)
           more == NextMember(G, child, n)
           held == ProcessContainer(new, L, Md(n), cap, GroupOn(L, n))
           taken == TakeMore(held, child, GroupOn(L, n), G.ext[child].size)
<1>1. \/ RegionFound(G, n) /\ H = more
      \/ ~RegionFound(G, n) /\ HasGroup(L, n) /\ H = taken
      \/ ~RegionFound(G, n) /\ H = new
  BY DEF ProcessMDRaid5Region
<1>2. CapOK(cap)
  BY CapsOK
<1>3. /\ Scanning(new, L) /\ new.pool = G.pool /\ DOMAIN new.ext = DOMAIN G.ext \cup {Md(n)}
      /\ RegionFound(G, n) => Scanning(more, L) /\ more.pool = G.pool /\ more.ext = G.ext
  BY RegionLinked
<1>4. n \in MdNums /\ Height(L, Md(n)) < 4
  BY Heights DEF MdsOf
<1> HIDE DEF cap, new, more
<1>5. ASSUME ~RegionFound(G, n), HasGroup(L, n)
      PROVE  Scanning(held, L) /\ DOMAIN G.ext \subseteq DOMAIN held.ext
  <2>1. /\ VgsUsing(L, Md(n)) # {} /\ Md(n) \notin DOMAIN G.ext /\ IsDevice(Md(n))
        /\ GroupOn(L, n) = CHOOSE w \in VgsUsing(L, Md(n)) : TRUE
    BY <1>4, <1>5 DEF HasGroup, RegionFound, GroupOn, IsDevice
  <2>2. PoolsComposed(G, L) /\ Linked(new, L)
    BY <1>3 DEF Scanning
  <2> QED
    BY <1>2, <1>3, <1>4, <2>1, <2>2, GroupLinked
<1> HIDE DEF held
<1>6. ~RegionFound(G, n) /\ HasGroup(L, n) => Scanning(taken, L) /\ taken.ext = held.ext
  BY <1>5, TakeMoreScanning
<1> HIDE DEF taken
<1> QED
  BY <1>1, <1>3, <1>5, <1>6

LEMMA ManyMirrorsLinked ==
    ASSUME NEW G, NEW L, Scanning(G, L), NEW n \in MdNums, Md(n) \in DOMAIN G.ext,
           NEW H, H = ManyMirrors(G, n)
    PROVE  Scanning(H, L) /\ H.ext = G.ext
<1> DEFINE x == Md(n)
           members == Cardinality(Antecedents(G, x))
           p == IF G.ext[x].pool # NULL THEN G.ext[x].pool
                ELSE IF DependentExtents(G, x) = {} THEN NULL
                ELSE G.ext[OnlyDependent(G, x)].pool
           c(q) == IF q = p THEN [G.pool[q].cap EXCEPT !.dr = members, !.drMax = members] ELSE G.pool[q].cap
           r(q) == IF q = p THEN [G.pool[q] EXCEPT !.cap = c(q)] ELSE G.pool[q]
           undefined == [G EXCEPT !.defined = FALSE]
           changed == [G EXCEPT !.pool[p].cap.dr = members, !.pool[p].cap.drMax = members]
<1>1. H \in {G, undefined, changed}
  BY DEF ManyMirrors
<1>2. Linked(G, L) /\ Record(G, {"defined", "ext", "pool", "vol", "based", "alloc"}) /\ PoolsOK(G)
  BY DEF Scanning, Linked
<1>3. /\ Record(undefined, {"defined", "ext", "pool", "vol", "based", "alloc"})
      /\ undefined.ext = G.ext /\ undefined.based = G.based /\ undefined.vol = G.vol
      /\ undefined.alloc = G.alloc /\ undefined.pool = G.pool
  BY <1>2 DEF Record
<1>4. PoolsOK(undefined)
  BY <1>2, <1>3 DEF PoolsOK
<1> HIDE DEF undefined, members, p
<1>5. /\ Record(changed, {"defined", "ext", "pool", "vol", "based", "alloc"})
      /\ changed.ext = G.ext /\ changed.based = G.based /\ changed.vol = G.vol /\ changed.alloc = G.alloc
      /\ changed.pool = [q \in DOMAIN G.pool |-> r(q)]
  <2>1. changed = [G EXCEPT !.pool = [q \in DOMAIN G.pool |-> r(q)]]
    <3> DEFINE once == [G EXCEPT !.pool[p].cap.dr = members]
               r1(q) == IF q = p THEN [G.pool[q] EXCEPT !.cap.dr = members] ELSE G.pool[q]
    <3>1. once = [G EXCEPT !.pool = [q \in DOMAIN G.pool |-> r1(q)]]
      OBVIOUS
    <3>2. changed = [once EXCEPT !.pool[p].cap.drMax = members]
      OBVIOUS
    <3> HIDE DEF r1
    <3>3. once.pool = [q \in DOMAIN G.pool |-> r1(q)]
      BY <1>2, <3>1 DEF Record
    <3> DEFINE r2(q) == IF q = p THEN [r1(q) EXCEPT !.cap.drMax = members] ELSE r1(q)
    <3>4. [once.pool EXCEPT ![p].cap.drMax = members] = [q \in DOMAIN G.pool |-> r2(q)]
      <4> HIDE DEF once
      <4> QED
        BY <3>3
    <3>5. \A q \in DOMAIN G.pool : r2(q) = r(q)
      <4> SUFFICES ASSUME NEW q \in DOMAIN G.pool, q = p PROVE r2(q) = r(q)
        BY DEF r1
      <4> DEFINE P == G.pool[q]
                 k == [P.cap EXCEPT !.dr = members]
      <4>1. Record(P, {"total", "remaining", "cap"})
        BY <1>2 DEF PoolsOK
      <4> HIDE DEF P
      <4>2. r1(q) = [P EXCEPT !.cap = k] /\ r(q) = [P EXCEPT !.cap = [P.cap EXCEPT !.dr = members, !.drMax = members]]
        BY DEF r1, P
      <4>3. [P.cap EXCEPT !.dr = members, !.drMax = members] = [k EXCEPT !.drMax = members]
        OBVIOUS
      <4> HIDE DEF k
      <4>4. r1(q).cap = k
        BY <4>1, <4>2 DEF Record
      <4>5. r2(q) = [r1(q) EXCEPT !.cap = [k EXCEPT !.drMax = members]]
        BY <4>4
      <4> DEFINE e == [k EXCEPT !.drMax = members]
      <4>6. r(q) = [P EXCEPT !.cap = e] /\ r2(q) = [r1(q) EXCEPT !.cap = e]
        BY <4>2, <4>3, <4>5
      <4> HIDE DEF e, r, r2
      <4> QED
        BY <4>1, <4>2, <4>6 DEF Record
    <3>6. changed = [once EXCEPT !.pool = [q \in DOMAIN G.pool |-> r(q)]]
      <4>1. changed = [once EXCEPT !.pool = [once.pool EXCEPT ![p].cap.drMax = members]]
        OBVIOUS
      <4>2. [q \in DOMAIN G.pool |-> r2(q)] = [q \in DOMAIN G.pool |-> r(q)]
        <5> HIDE DEF r2, r
        <5> QED
          BY <3>5
      <4> HIDE DEF changed, once, r2, r
      <4> QED
        BY <3>4, <4>1, <4>2
    <3> QED
      BY <1>2, <3>1, <3>6 DEF Record
  <2> HIDE DEF changed, r
  <2> QED
    BY <1>2, <2>1 DEF Record
<1> HIDE DEF changed
<1>6. \A q \in DOMAIN G.pool : CapOK(c(q))
  <2> SUFFICES ASSUME NEW q \in DOMAIN G.pool PROVE CapOK(c(q))
    OBVIOUS
  <2> DEFINE d == G.pool[q].cap
  <2>1. CapOK(d)
    BY <1>2 DEF PoolsOK
  <2>2. CapOK([d EXCEPT !.dr = members, !.drMax = members])
    <3> HIDE DEF d
    <3> QED
      BY <2>1 DEF CapOK, Record
  <2> QED
    BY <2>1, <2>2
<1> HIDE DEF c
<1>7. \A q \in DOMAIN G.pool : Record(r(q), {"total", "remaining", "cap"}) /\ r(q).cap = c(q)
  <2> SUFFICES ASSUME NEW q \in DOMAIN G.pool
               PROVE  Record(r(q), {"total", "remaining", "cap"}) /\ r(q).cap = c(q)
    OBVIOUS
  <2>1. Record(G.pool[q], {"total", "remaining", "cap"})
    BY <1>2 DEF PoolsOK
  <2>2. q # p => c(q) = G.pool[q].cap
    BY DEF c
  <2> QED
    BY <2>1, <2>2 DEF Record
<1> HIDE DEF c, r
<1>8. PoolsOK(changed) /\ DOMAIN changed.pool = DOMAIN G.pool
  BY <1>2, <1>5, <1>6, <1>7 DEF PoolsOK, Record
<1>9. Linked(undefined, L) /\ Linked(changed, L)
  BY <1>2, <1>3, <1>4, <1>5, <1>8, PoolsChanged
<1>10. PoolsComposed(undefined, L) /\ PoolsComposed(changed, L)
  BY <1>3, <1>5, <1>8, StaysComposed DEF Scanning
<1> QED
  BY SMTT(40), <1>1, <1>3, <1>5, <1>9, <1>10 DEF Scanning

LEMMA Raid1Linked ==
    ASSUME NEW G, NEW L, ScanOK(L), Scanning(G, L), NEW child \in DOMAIN G.ext, NEW n \in MdsOf(L),
           L.md[n].level = 1, Height(L, child) < Height(L, Md(n)),
           NEW H, H = ProcessMDRaid1Region(G, L, child, n)
    PROVE  Scanning(H, L) /\ DOMAIN G.ext \subseteq DOMAIN H.ext
<1> DEFINE x == Md(n)
           cap  == Cap(2, 1, 1, 0, TRUE)
           new  == NewRegion(G, L, child, n, G.ext[child].size)
           more == NextMember(G, child, n)
           p    == IF more.ext[x].pool # NULL THEN more.ext[x].pool
                   ELSE IF NumDependents(more, x) = 1 THEN ExtentGetPool(more, OnlyDependent(more, x))
                   ELSE NULL
           taken == TakeMore(more, child, p, G.ext[child].size)
           many1 == ManyMirrors(taken, n)
           many2 == ManyMirrors(more, n)
           held == ProcessContainer(new, L, x, cap, GroupOn(L, n))
           m == CHOOSE k \in MdsUsing(L, x) : TRUE
           stripe == ProcessMDRaid0Region(new, L, x, m)
<1>1. \/ RegionFound(G, n) /\ H \in {many1, many2}
      \/ ~RegionFound(G, n) /\ HasGroup(L, n) /\ H = held
      \/ MdsUsing(L, x) # {} /\ H = stripe
      \/ H = new
  BY DEF ProcessMDRaid1Region
<1>2. CapOK(cap)
  BY CapsOK
<1>3. /\ Scanning(new, L) /\ new.pool = G.pool /\ DOMAIN new.ext = DOMAIN G.ext \cup {Md(n)}
      /\ RegionFound(G, n) => Scanning(more, L) /\ more.pool = G.pool /\ more.ext = G.ext
  BY RegionLinked
<1>4. n \in MdNums /\ Height(L, Md(n)) = 2 /\ \A k : Height(L, Md(k)) = (IF L.md[k].level = 1 THEN 2 ELSE 3)
  BY Heights DEF MdsOf
<1> HIDE DEF cap, new, more, p
<1>5. RegionFound(G, n) => Scanning(taken, L) /\ taken.ext = G.ext
  BY <1>3, TakeMoreScanning
<1> HIDE DEF taken
<1>6. ASSUME RegionFound(G, n)
      PROVE  Scanning(many1, L) /\ many1.ext = G.ext /\ Scanning(many2, L) /\ many2.ext = G.ext
  <2>1. Md(n) \in DOMAIN G.ext
    BY <1>6 DEF RegionFound
  <2> QED
    BY <1>3, <1>4, <1>5, <1>6, <2>1, ManyMirrorsLinked
<1>7. ASSUME ~RegionFound(G, n), HasGroup(L, n)
      PROVE  Scanning(held, L) /\ DOMAIN G.ext \subseteq DOMAIN held.ext
  <2>1. /\ VgsUsing(L, Md(n)) # {} /\ Md(n) \notin DOMAIN G.ext /\ IsDevice(Md(n)) /\ Height(L, Md(n)) < 4
        /\ GroupOn(L, n) = CHOOSE w \in VgsUsing(L, Md(n)) : TRUE
    BY <1>4, <1>7 DEF HasGroup, RegionFound, GroupOn, IsDevice
  <2>2. PoolsComposed(G, L) /\ Linked(new, L)
    BY <1>3 DEF Scanning
  <2> QED
    BY <1>2, <1>3, <2>1, <2>2, GroupLinked
<1>8. ASSUME MdsUsing(L, x) # {}
      PROVE  Scanning(stripe, L) /\ DOMAIN G.ext \subseteq DOMAIN stripe.ext
  <2>1. m \in MdsOf(L) /\ Md(n) \in ToSet(L.md[m].devs)
    BY <1>8 DEF MdsUsing
  <2>2. Height(L, Md(m)) = 3
    BY <1>4, <2>1 DEF ScanOK, LayoutOK
  <2> HIDE DEF m
  <2>3. Height(L, Md(n)) < Height(L, Md(m)) /\ Md(n) \in DOMAIN new.ext
    BY <1>3, <1>4, <2>2
  <2> QED
    BY <1>3, <2>1, <2>3, Raid0Linked
<1> HIDE DEF many1, many2, held, stripe
<1> QED
  BY <1>1, <1>3, <1>6, <1>7, <1>8

LEMMA ProcessRegionLinked ==
    ASSUME NEW G, NEW L, ScanOK(L), Scanning(G, L), NEW child \in DOMAIN G.ext, NEW n \in MdsOf(L),
           Height(L, child) < Height(L, Md(n)), NEW H, H = ProcessRegion(G, L, child, n)
    PROVE  Scanning(H, L) /\ DOMAIN G.ext \subseteq DOMAIN H.ext
<1>1. L.md[n].level \in {0, 1, 5}
  BY DEF ScanOK, LevelsOK, MdsOf
<1> QED
  BY <1>1, Raid0Linked, Raid1Linked, Raid5Linked DEF ProcessRegion

\* A partition,
LEMMA ProcessPartitionLinked ==
    ASSUME NEW G, NEW L, ScanOK(L), Scanning(G, L), NEW disk \in ToSet(Disks), NEW p,
           NEW H, H = ProcessPartition(G, L, disk, p)
    PROVE  Scanning(H, L)
<1> DEFINE x == Part(p)
           bytes == p.size
           h(c) == ExtentCreateBasedOnAssociation(ExtentAlloc(G, x, bytes, NULL, c), x, Disk(disk), 1)
           g1 == h(FALSE)
           cap == G.pool[Primordial].cap
           v == CHOOSE w \in VgsUsing(L, x) : TRUE
           n == CHOOSE m \in MdsUsing(L, x) : TRUE
           group == ProcessContainer(g1, L, x, cap, v)
           region == ProcessRegion(g1, L, x, n)
           free == Take(G, Primordial, bytes)
           g3 == IF InUse(L, x) THEN IF VgsUsing(L, x) # {} THEN group ELSE region ELSE free
           g4 == Shrunk(g3, Freespace(disk), bytes)
<1>1. H = IF x \in DOMAIN G.ext THEN G ELSE g4
  BY DEF ProcessPartition, Shrunk
<1>2. Linked(G, L) /\ PoolsComposed(G, L) /\ CapOK(cap) /\ Disk(disk) \in DOMAIN G.ext
  BY DEF Scanning, Linked, PoolsOK
<1>3. Height(L, x) = 1 /\ Height(L, Disk(disk)) = 0 /\ ~IsMd(x)
      /\ \A k : Height(L, Md(k)) = (IF L.md[k].level = 1 THEN 2 ELSE 3)
  BY Heights DEF IsMd, Part
<1> HIDE DEF x, bytes, cap
<1>4. ASSUME NEW c
      PROVE  Linked(h(c), L) /\ h(c).pool = G.pool /\ DOMAIN h(c).ext = DOMAIN G.ext \cup {x}
  <2>1. ASSUME NEW ant \in DOMAIN G.ext, NEW q \in DOMAIN G.pool \cup {NULL}, Height(L, ant) < Height(L, x)
        PROVE  LET K == ExtentCreateBasedOnAssociation(ExtentAlloc(G, x, bytes, q, c), x, ant, 1)
               IN  Linked(K, L) /\ K.pool = G.pool /\ DOMAIN K.ext = DOMAIN G.ext \cup {x}
    <3>1. Height(L, x) \in 0..5 /\ (q = NULL => Height(L, x) \in 1..3)
      BY <1>3
    <3> QED
      BY <1>2, <2>1, <3>1, NewExtentLinked
  <2> QED
    BY <1>2, <1>3, <2>1
<1> HIDE DEF h
<1>5. Linked(g1, L) /\ g1.pool = G.pool /\ DOMAIN g1.ext = DOMAIN G.ext \cup {x}
  BY <1>4
<1> HIDE DEF g1
<1>6. PoolsComposed(g1, L)
  BY <1>2, <1>5, StaysComposed
<1>7. ASSUME VgsUsing(L, x) # {}
      PROVE  Scanning(group, L)
  <2>1. IsDevice(x) /\ Height(L, x) < 4 /\ v = (CHOOSE w \in VgsUsing(L, x) : TRUE)
    BY <1>3 DEF IsDevice
  <2> HIDE DEF v
  <2> QED
    BY <1>2, <1>3, <1>5, <1>7, <2>1, GroupLinked
<1>8. ASSUME MdsUsing(L, x) # {}
      PROVE  Scanning(region, L)
  <2>1. n \in MdsOf(L) /\ Height(L, x) < Height(L, Md(n)) /\ x \in DOMAIN g1.ext /\ Scanning(g1, L)
    BY <1>3, <1>5, <1>6, <1>8 DEF MdsUsing, Scanning
  <2> HIDE DEF n
  <2> QED
    BY <2>1, ProcessRegionLinked
<1>9. Scanning(free, L)
  <2>1. Linked(free, L) /\ DOMAIN free.pool = DOMAIN G.pool /\ free.ext = G.ext
    BY <1>2, TakeLinked
  <2> HIDE DEF free
  <2> QED
    BY <1>2, <2>1, StaysComposed DEF Scanning
<1> HIDE DEF group, region, free
<1>10. Scanning(g3, L)
  BY <1>7, <1>8, <1>9 DEF InUse
<1> HIDE DEF g3
<1>11. Linked(g4, L) /\ g4.pool = g3.pool /\ DOMAIN g4.ext = DOMAIN g3.ext
  BY <1>10, ShrinkLinked DEF Scanning
<1> HIDE DEF g4
<1>12. Scanning(g4, L)
  BY <1>10, <1>11, StaysComposed DEF Scanning
<1> QED
  BY <1>1, <1>12

\* the partitions of a disk, one after the other,
LEMMA ScanPartitionsLinked ==
    ASSUME NEW G, NEW L, ScanOK(L), Scanning(G, L), NEW disk \in ToSet(Disks)
    PROVE  Scanning(ScanPartitions(G, L, disk), L)
<1> DEFINE F(x, i) == ProcessPartition(x, L, disk, PartitionAt(L, disk, i))
           N == Cardinality(PartsOn(L, disk))
           a == CHOOSE g : g = [i \in 0..N |-> IF i = 0 THEN G ELSE F(g[i - 1], i)]
           T == {n \in 0..N : ~Scanning(a[n], L)}
<1>1. N \in Nat
  <2>1. PartsOn(L, disk) \subseteq L.part
    BY DEF PartsOn
  <2> QED
    BY <2>1, FS_Subset, FS_CardinalityType DEF ScanOK
<1>2. ScanPartitions(G, L, disk) = a[N]
  BY DEF ScanPartitions, Through
<1> HIDE DEF N
<1>3. a = [i \in 0..N |-> IF i = 0 THEN G ELSE F(a[i - 1], i)]
  BY <1>1, PartitionsRecursion
<1>4. \A x, i : Scanning(x, L) => Scanning(F(x, i), L)
  BY ProcessPartitionLinked
<1> HIDE DEF F, a
<1>5. T = {}
  <2>1. SUFFICES ASSUME T # {} PROVE FALSE
    OBVIOUS
  <2>2. PICK n \in T : \A m \in T : n <= m
    <3>1. T \in SUBSET Nat
      BY <1>1
    <3> HIDE DEF T
    <3> QED
      BY <2>1, <3>1, LeastNumber
  <2>3. n # 0
    BY <1>1, <1>3, <2>2
  <2>4. n - 1 \in 0..N /\ ~(n <= n - 1)
    BY <1>1, <2>2, <2>3
  <2>5. Scanning(a[n - 1], L) /\ a[n] = F(a[n - 1], n)
    BY <1>1, <1>3, <2>2, <2>3, <2>4
  <2> QED
    BY <1>4, <2>2, <2>5
<1> QED
  BY <1>1, <1>2, <1>5

\* a disk, whose bytes are added to the primordial pool's,
Grown(G, p, bytes) == [G EXCEPT !.pool[p].total = @ + bytes, !.pool[p].remaining = @ + bytes]

LEMMA GrowLinked ==
    ASSUME NEW G, NEW L, Linked(G, L), NEW p, NEW bytes
    PROVE  /\ Linked(Grown(G, p, bytes), L)
           /\ DOMAIN Grown(G, p, bytes).pool = DOMAIN G.pool /\ Grown(G, p, bytes).ext = G.ext
<1> DEFINE H == [G EXCEPT !.pool[p].total = @ + bytes, !.pool[p].remaining = @ + bytes]
           once == [G.pool EXCEPT ![p].total = @ + bytes]
           twice == [once EXCEPT ![p].remaining = @ + bytes]
<1>1. /\ Record(G, {"defined", "ext", "pool", "vol", "based", "alloc"}) /\ PoolsOK(G)
      /\ \A q \in DOMAIN G.pool : Record(G.pool[q], {"total", "remaining", "cap"})
  BY DEF Linked, PoolsOK
<1>2. H = [G EXCEPT !.pool = twice]
  <2> DEFINE K == [G EXCEPT !.pool[p].total = @ + bytes]
  <2>1. K = [G EXCEPT !.pool = once] /\ H = [K EXCEPT !.pool = [K.pool EXCEPT ![p].remaining = @ + bytes]]
    OBVIOUS
  <2> HIDE DEF K, H, once
  <2>2. Record(K, {"defined", "ext", "pool", "vol", "based", "alloc"}) /\ K.pool = once
        /\ K.ext = G.ext /\ K.based = G.based /\ K.vol = G.vol /\ K.alloc = G.alloc /\ K.defined = G.defined
    BY <1>1, <2>1 DEF Record
  <2> DEFINE new == [K.pool EXCEPT ![p].remaining = @ + bytes]
  <2>3. new = twice /\ H = [K EXCEPT !.pool = new]
    BY <2>1, <2>2
  <2> HIDE DEF new, twice
  <2> QED
    BY <1>1, <2>2, <2>3 DEF Record
<1> HIDE DEF H
<1>3. DOMAIN once = DOMAIN G.pool /\ DOMAIN twice = DOMAIN once
  OBVIOUS
<1>4. \A q \in DOMAIN G.pool : Record(once[q], {"total", "remaining", "cap"}) /\ once[q].cap = G.pool[q].cap
  BY <1>1 DEF Record
<1> HIDE DEF once
<1>5. \A q \in DOMAIN G.pool : Record(twice[q], {"total", "remaining", "cap"}) /\ twice[q].cap = G.pool[q].cap
  BY <1>3, <1>4 DEF Record
<1>6. Record(twice, DOMAIN twice)
  BY DEF Record
<1> HIDE DEF twice
<1>7. /\ Record(H, {"defined", "ext", "pool", "vol", "based", "alloc"})
      /\ H.ext = G.ext /\ H.based = G.based /\ H.vol = G.vol /\ H.alloc = G.alloc /\ H.pool = twice
  BY <1>1, <1>2 DEF Record
<1>8. PoolsOK(H)
  BY <1>1, <1>3, <1>5, <1>6, <1>7 DEF PoolsOK
<1>9. Linked(H, L) /\ DOMAIN H.pool = DOMAIN G.pool
  BY <1>3, <1>7, <1>8, PoolsChanged
<1> QED
  BY <1>7, <1>9 DEF H, Grown

LEMMA ScanDiskLinked ==
    ASSUME NEW G, NEW L, ScanOK(L), Scanning(G, L), NEW disk \in ToSet(Disks),
           NEW H, H = ScanDisk(G, L, disk)
    PROVE  Scanning(H, L)
<1> DEFINE d == Disk(disk)
           f == Freespace(disk)
           cap == G.pool[Primordial].cap
           h1 == [G EXCEPT !.ext[d].size = DiskSize]
           g1 == Grown(h1, Primordial, DiskSize)
           k(c) == ExtentCreateBasedOnAssociation(ExtentAlloc(g1, f, DiskSize, Primordial, c), f, d, 1)
           g2 == k(FALSE)
           v == CHOOSE w \in VgsUsing(L, d) : TRUE
           group == ProcessContainer(g1, L, d, cap, v)
           parts == ScanPartitions(g2, L, disk)
<1>1. H = IF VgsUsing(L, d) # {} THEN group ELSE parts
  BY DEF ScanDisk, Grown
<1>2. /\ Linked(G, L) /\ PoolsComposed(G, L) /\ CapOK(cap) /\ d \in DOMAIN G.ext
      /\ Primordial \in DOMAIN G.pool /\ Primordial # NULL
  BY ScanAssumption DEF Scanning, Linked, PoolsOK
<1>3. Height(L, d) = 0 /\ Height(L, f) = 5 /\ ~IsMd(d)
  BY Heights DEF IsMd, Disk
<1> HIDE DEF d, f, cap
<1>4. Linked(h1, L) /\ h1.pool = G.pool /\ DOMAIN h1.ext = DOMAIN G.ext
  BY <1>2, ResizeLinked
<1> HIDE DEF h1
<1>5. Linked(g1, L) /\ DOMAIN g1.pool = DOMAIN h1.pool /\ g1.ext = h1.ext
  BY <1>4, GrowLinked
<1> HIDE DEF g1
<1>6. PoolsComposed(g1, L)
  BY <1>2, <1>4, <1>5, StaysComposed
<1>7. ASSUME VgsUsing(L, d) # {}
      PROVE  Scanning(group, L)
  <2>1. /\ IsDevice(d) /\ Height(L, d) < 4 /\ v = (CHOOSE w \in VgsUsing(L, d) : TRUE)
        /\ DOMAIN g1.ext = DOMAIN g1.ext \cup {d}
    BY <1>2, <1>3, <1>4, <1>5 DEF IsDevice
  <2> DEFINE new == g1
  <2>2. Linked(new, L) /\ new.pool = g1.pool /\ DOMAIN new.ext = DOMAIN g1.ext \cup {d}
    BY <1>5, <2>1
  <2>3. group = ProcessContainer(new, L, d, cap, v)
    OBVIOUS
  <2> HIDE DEF v, new, group
  <2> QED
    BY <1>2, <1>3, <1>6, <1>7, <2>1, <2>2, <2>3, GroupLinked
<1>8. ASSUME NEW c
      PROVE  Linked(k(c), L) /\ k(c).pool = g1.pool /\ DOMAIN k(c).ext = DOMAIN g1.ext \cup {f}
  <2>1. ASSUME NEW ant \in DOMAIN g1.ext, NEW q \in DOMAIN g1.pool \cup {NULL}, q # NULL,
               Height(L, ant) < Height(L, f)
        PROVE  LET K == ExtentCreateBasedOnAssociation(ExtentAlloc(g1, f, DiskSize, q, c), f, ant, 1)
               IN  Linked(K, L) /\ K.pool = g1.pool /\ DOMAIN K.ext = DOMAIN g1.ext \cup {f}
    <3>1. Height(L, f) \in 0..5
      BY <1>3
    <3> QED
      BY <1>5, <2>1, <3>1, NewExtentLinked
  <2> QED
    BY <1>2, <1>3, <1>4, <1>5, <2>1
<1> HIDE DEF k
<1>9. Linked(g2, L) /\ g2.pool = g1.pool /\ DOMAIN g2.ext = DOMAIN g1.ext \cup {f}
  BY <1>8
<1> HIDE DEF g2
<1>10. Scanning(g2, L)
  BY <1>6, <1>9, StaysComposed DEF Scanning
<1>11. Scanning(parts, L)
  BY <1>10, ScanPartitionsLinked
<1> HIDE DEF group, parts
<1> QED
  BY <1>1, <1>7, <1>11

LEMMA NothingScannedIsLinked ==
    ASSUME NEW L
    PROVE  Scanning(LoadPersistentStorageObjects, L)
<1> DEFINE G == LoadPersistentStorageObjects
           S == {Disk(d) : d \in ToSet(Disks)}
           none == [v \in {} |-> NULL]
           e == [size |-> 0, pool |-> Primordial, composite |-> FALSE]
           r == [total |-> 0, remaining |-> 0, cap |-> PrimordialCap]
<1>1. /\ G = [defined |-> TRUE, ext |-> [x \in S |-> e], pool |-> [p \in {Primordial} |-> r],
              vol |-> none, based |-> {}, alloc |-> {}]
  BY DEF LoadPersistentStorageObjects
<1>2. CapOK(PrimordialCap) /\ Primordial # NULL
  BY ScanAssumption DEF CapOK, Record
<1>3. Record(r, {"total", "remaining", "cap"}) /\ r.cap = PrimordialCap /\ "pool" \in DOMAIN e /\ e.pool = Primordial
  BY DEF Record
<1>4. DOMAIN none = {}
  OBVIOUS
<1>5. \A x \in S : Height(L, x) = 0
  BY Heights
<1>6. \A d \in ToSet(Disks) : Disk(d) \in S
  OBVIOUS
<1> HIDE DEF G, S, none, e, r
<1>7. /\ Record(G, {"defined", "ext", "pool", "vol", "based", "alloc"})
      /\ G.ext = [x \in S |-> e] /\ G.pool = [p \in {Primordial} |-> r] /\ G.vol = none
      /\ G.based = {} /\ G.alloc = {}
  BY <1>1 DEF Record
<1>8. PoolsOK(G) /\ DOMAIN G.pool = {Primordial}
  BY <1>2, <1>3, <1>7 DEF PoolsOK, Record
<1>9. ExtentsOK(G, L)
  BY <1>2, <1>3, <1>5, <1>7, <1>8 DEF ExtentsOK
<1>10. Linked(G, L)
  BY <1>4, <1>6, <1>7, <1>8, <1>9 DEF Linked, AllocOK, VolsOK, BasedOK
<1>11. PoolsComposed(G, L)
  BY <1>8 DEF PoolsComposed
<1> QED
  BY <1>10, <1>11 DEF Scanning, G

\* and the disks, one after the other.
LEMMA ScanDisksLinked ==
    ASSUME NEW L, ScanOK(L)
    PROVE  Scanning(ScanDisks(L), L)
<1> DEFINE N == Len(Disks)
           F(x, i) == ScanDisk(x, L, Disks[i])
           G == LoadPersistentStorageObjects
           a == CHOOSE g : g = [i \in 0..N |-> IF i = 0 THEN G ELSE F(g[i - 1], i)]
           T == {n \in 0..N : ~Scanning(a[n], L)}
<1>1. N \in Nat
  BY DiskAssumption
<1>2. ScanDisks(L) = a[N]
  BY DEF ScanDisks, Through
<1> HIDE DEF G
<1>3. a = [i \in 0..N |-> IF i = 0 THEN G ELSE F(a[i - 1], i)]
  <2> HIDE DEF N
  <2> QED
    BY SMTT(40), <1>1, DisksRecursion DEF G
<1>4. \A k \in 1..N : \A x : Scanning(x, L) => Scanning(F(x, k), L)
  <2>1. \A k \in 1..N : Disks[k] \in ToSet(Disks)
    BY DiskAssumption DEF ToSet
  <2> QED
    BY <2>1, ScanDiskLinked
<1> HIDE DEF F, a, N
<1>5. T = {}
  <2>1. SUFFICES ASSUME T # {} PROVE FALSE
    OBVIOUS
  <2>2. PICK n \in T : \A m \in T : n <= m
    <3>1. T \in SUBSET Nat
      BY <1>1
    <3> HIDE DEF T
    <3> QED
      BY <2>1, <3>1, LeastNumber
  <2>3. n # 0
    BY <1>1, <1>3, <2>2, NothingScannedIsLinked DEF G
  <2>4. n \in 1..N /\ n - 1 \in 0..N /\ ~(n <= n - 1)
    BY <1>1, <2>2, <2>3
  <2>5. Scanning(a[n - 1], L) /\ a[n] = F(a[n - 1], n)
    BY <1>1, <1>3, <2>2, <2>3, <2>4
  <2> QED
    BY <1>4, <2>2, <2>4, <2>5
<1> QED
  BY <1>1, <1>2, <1>5 DEF N

\* What a scan makes hangs together: every extent leads to a pool, what is
\* based or allocated is so on something that is there, and no pool or extent
\* is its own antecedent.
LEMMA LinkedAfterScan ==
    ASSUME NEW L, ScanOK(L)
    PROVE  Linked(SCSScanStorage(L), L)
<1> DEFINE G == ScanDisks(L)
           p == G.pool[Primordial]
           n == Len(Disks)
           c == [p.cap EXCEPT !.nspf = n > 1 \/ p.cap.parity = 2, !.drMax = n, !.prMax = n - 1]
           q == [p EXCEPT !.remaining = IF @ \in 0..p.total THEN @ ELSE 0,
                          !.cap.nspf = n > 1 \/ p.cap.parity = 2,
                          !.cap.drMax = n, !.cap.prMax = n - 1]
           left == IF p.remaining \in 0..p.total THEN p.remaining ELSE 0
           H == [G EXCEPT !.pool[Primordial] = q]
<1>1. SCSScanStorage(L) = H
  BY DEF SCSScanStorage, Fixup
<1>2. /\ Linked(G, L) /\ Record(G, {"defined", "ext", "pool", "vol", "based", "alloc"}) /\ PoolsOK(G)
      /\ Primordial \in DOMAIN G.pool
  BY ScanDisksLinked DEF Scanning, Linked, PoolsOK
<1> HIDE DEF G
<1>3. Record(p, {"total", "remaining", "cap"}) /\ CapOK(p.cap)
  BY <1>2 DEF PoolsOK
<1> HIDE DEF p
<1>4. CapOK(c)
  <2> DEFINE d == p.cap
             b == (n > 1 \/ d.parity = 2)
             k == [d EXCEPT !.nspf = b, !.drMax = n, !.prMax = n - 1]
  <2>1. CapOK(d) /\ b \in BOOLEAN /\ (d.parity = 2 => b)
    BY <1>3
  <2> HIDE DEF d, b, n
  <2>2. CapOK(k)
    BY <2>1 DEF CapOK, Record
  <2> QED
    BY <2>2 DEF d, b
<1>5. q = [p EXCEPT !.remaining = left, !.cap = c]
  OBVIOUS
<1> HIDE DEF c, left, q
<1>6. Record(q, {"total", "remaining", "cap"}) /\ CapOK(q.cap)
  BY <1>3, <1>4, <1>5 DEF Record
<1>7. /\ Record(H, {"defined", "ext", "pool", "vol", "based", "alloc"})
      /\ H.ext = G.ext /\ H.based = G.based /\ H.vol = G.vol /\ H.alloc = G.alloc
      /\ H.pool = [G.pool EXCEPT ![Primordial] = q]
  BY <1>2 DEF Record
<1> HIDE DEF H
<1>8. PoolsOK(H) /\ DOMAIN H.pool = DOMAIN G.pool
  BY <1>2, <1>6, <1>7 DEF PoolsOK, Record
<1>9. Linked(H, L)
  BY <1>2, <1>7, <1>8, PoolsChanged
<1> QED
  BY <1>1, <1>9

-----------------------------------------------------------------------------
(***************************************************************************)
(* What a scan sees of a layout: the extents are those of devices and      *)
(* groups there are, everything is based on devices it is built on, and    *)
(* no group that has a device is missing.                                  *)
(***************************************************************************)

\* The devices of a layout exist, each is built on by one RAID device or group
\* at most, and the partitions of a disk have numbers of their own.
MdsHold(L) ==
    \A n \in MdsOf(L) : ToSet(L.md[n].devs) # {} /\ \A x \in ToSet(L.md[n].devs) : DeviceExists(L, x)
VgsHold(L) == \A v \in VgsOf(L) : \A x \in ToSet(L.vg[v].devs) : DeviceExists(L, x)
OneUser(L) ==
    /\ \A n, m \in MdsOf(L) : ToSet(L.md[n].devs) \cap ToSet(L.md[m].devs) # {} => n = m
    /\ \A v, w \in VgsOf(L) : ToSet(L.vg[v].devs) \cap ToSet(L.vg[w].devs) # {} => v = w
    /\ \A n \in MdsOf(L), v \in VgsOf(L) : ToSet(L.md[n].devs) \cap ToSet(L.vg[v].devs) = {}
NumsOK(L) ==
    /\ \A p \in L.part : p.num \in Nat
    /\ \A p, q \in L.part : p.disk = q.disk /\ p.num = q.num => p = q
DevicesOK(L) == MdsHold(L) /\ VgsHold(L) /\ OneUser(L) /\ NumsOK(L)

\* A group that is all on one RAID device has no composite extent of its own.
OnOneMd(L, v) == Len(L.vg[v].devs) = 1 /\ IsMd(L.vg[v].devs[1])

\* The record e of an extent x, when P is the set of pools.
SeenAs(x, e, L, P) ==
    /\ DOMAIN e = {"size", "pool", "composite"}
    /\ x[1] \in {"disk", "part", "md", "Composite", "Freespace"}
    /\ x[1] = "disk" => e.pool = Primordial
    /\ x[1] = "part" => e.pool = NULL /\ e.composite = FALSE
    /\ x[1] = "md" => /\ x = Md(x[3]) /\ x[3] \in MdsOf(L) /\ e.composite = TRUE
                      /\ e.pool # NULL => e.pool \in VgNames /\ ToSet(L.vg[e.pool].devs) = {x}
    /\ x[1] = "Composite" => e.pool \in VgNames \cap P /\ x = Composite(e.pool) /\ ~OnOneMd(L, e.pool)

\* Who is based on whom.
EdgeSeen(b, L) ==
    /\ b.dep[1] = "part" => b.ant[1] = "disk"
    /\ b.dep[1] = "md" => b.ant \in ToSet(L.md[b.dep[3]].devs)
    /\ b.dep[1] = "Composite" => b.ant \in ToSet(L.vg[b.dep[2]].devs)

\* The order indices of the antecedents of an extent are 1 to their number.
Numbered(A) ==
    /\ IsFiniteSet(A)
    /\ \A b \in A : b.order \in 1..Cardinality(A)
    /\ \A b, c \in A : b.order = c.order => b = c
    /\ \A i \in 1..Cardinality(A) : \E b \in A : b.order = i

Sees(G, L) ==
    /\ DOMAIN G = {"defined", "ext", "pool", "vol", "based", "alloc"}
    /\ DOMAIN G.pool \subseteq VgNames \cup {Primordial}
    /\ \A x \in DOMAIN G.ext : /\ SeenAs(x, G.ext[x], L, DOMAIN G.pool)
                               /\ x[1] # "disk" => Antecedents(G, x) # {}
                               /\ x[1] \in {"md", "Composite"} => Numbered(Antecedents(G, x))
    /\ \A b \in G.based : b.dep \in DOMAIN G.ext /\ EdgeSeen(b, L)

\* A pool has an extent that is not free space: see CompositeOf in RaidPool.
Held(G, v) == \E x \in DOMAIN G.ext : G.ext[x].pool = v /\ ~ExtentIsFreespace(x)
PoolsHeld(G) == \A v \in DOMAIN G.pool \ {Primordial} : Held(G, v)

\* The group or the RAID device on x has been found; for every extent of a
\* device, except those in S.
Settled(G, L, x) ==
    /\ VgsUsing(L, x) \subseteq DOMAIN G.pool
    /\ \A n \in MdsUsing(L, x) : Md(n) \in DOMAIN G.ext
Closed(G, L, S) == \A x \in DOMAIN G.ext \ S : x[1] \in {"part", "md"} => Settled(G, L, x)

\* From G to H extents and pools are only added, and a pool's extent stays so.
Grows(G, H) ==
    /\ DOMAIN G.ext \subseteq DOMAIN H.ext /\ DOMAIN G.pool \subseteq DOMAIN H.pool
    /\ \A x \in DOMAIN G.ext : G.ext[x].pool # NULL /\ ~ExtentIsFreespace(x) => H.ext[x].pool = G.ext[x].pool

LEMMA GrowsTransitive ==
    ASSUME NEW G, NEW H, NEW K, Grows(G, H), Grows(H, K)
    PROVE  Grows(G, K)
<1>1. \A x \in DOMAIN G.ext : G.ext[x].pool # NULL /\ ~ExtentIsFreespace(x) =>
          x \in DOMAIN H.ext /\ H.ext[x].pool = G.ext[x].pool
  BY DEF Grows
<1> QED
  BY <1>1 DEF Grows

LEMMA StaysHeld ==
    ASSUME NEW G, NEW H, Grows(G, H), DOMAIN G.pool \subseteq VgNames \cup {Primordial}
    PROVE  \A v \in DOMAIN G.pool : Held(G, v) => Held(H, v)
<1>1. NULL \notin DOMAIN G.pool
  BY DiskAssumption, ScanAssumption
<1> QED
  BY <1>1 DEF Grows, Held

LEMMA StaysSettled ==
    ASSUME NEW G, NEW H, Grows(G, H), NEW L, NEW x, Settled(G, L, x)
    PROVE  Settled(H, L, x)
  BY DEF Grows, Settled

\* What is new is to be settled, or is no device.
LEMMA StaysClosed ==
    ASSUME NEW G, NEW H, Grows(G, H), NEW L, NEW S, Closed(G, L, S),
           \A x \in DOMAIN H.ext \ DOMAIN G.ext : x[1] \in {"part", "md"} => x \in S
    PROVE  Closed(H, L, S)
<1> SUFFICES ASSUME NEW x \in DOMAIN H.ext \ S, x[1] \in {"part", "md"} PROVE Settled(H, L, x)
  BY DEF Closed
<1>1. Settled(G, L, x)
  BY DEF Closed
<1> QED
  BY <1>1, StaysSettled

\* Numbers in order.
LEMMA NumberedOne ==
    ASSUME NEW b, b.order = 1
    PROVE  Numbered({b})
<1>1. IsFiniteSet({b}) /\ Cardinality({b}) = 1
  BY FS_Singleton
<1> QED
  BY <1>1 DEF Numbered

LEMMA NumberedMore ==
    ASSUME NEW A, Numbered(A), NEW b, b.order = Cardinality(A) + 1
    PROVE  Numbered(A \cup {b})
<1>1. IsFiniteSet(A) /\ Cardinality(A) \in Nat /\ b \notin A
  BY FS_CardinalityType DEF Numbered
<1>2. IsFiniteSet(A \cup {b}) /\ Cardinality(A \cup {b}) = Cardinality(A) + 1
  BY <1>1, FS_AddElement
<1> DEFINE n == Cardinality(A)
           B == A \cup {b}
<1>3. \A i \in 1..n + 1 : i \in 1..n \/ i = n + 1
  BY <1>1
<1>4. /\ IsFiniteSet(B) /\ Cardinality(B) = n + 1 /\ n \in Nat /\ b.order = n + 1
      /\ \A c \in A : c.order \in 1..n
      /\ \A c, d \in A : c.order = d.order => c = d
      /\ \A i \in 1..n : \E c \in A : c.order = i
  BY <1>1, <1>2 DEF Numbered
<1> HIDE DEF n
<1>5. \A c \in B : c.order \in 1..n + 1
  BY <1>4
<1>6. \A c, d \in B : c.order = d.order => c = d
  BY <1>4
<1>7. \A i \in 1..n + 1 : \E c \in B : c.order = i
  BY <1>3, <1>4
<1> HIDE DEF B
<1>8. Numbered(B)
  BY <1>4, <1>5, <1>6, <1>7 DEF Numbered
<1> QED
  BY <1>8 DEF B

\* What changes sizes, capabilities, volumes or allocations only.
IsShaped(G) ==
    /\ DOMAIN G = {"defined", "ext", "pool", "vol", "based", "alloc"}
    /\ \A x \in DOMAIN G.ext : DOMAIN G.ext[x] = {"size", "pool", "composite"}
SameExtents(G, H) ==
    /\ DOMAIN H = DOMAIN G /\ H.based = G.based /\ DOMAIN H.ext = DOMAIN G.ext
    /\ \A x \in DOMAIN G.ext : /\ DOMAIN H.ext[x] = DOMAIN G.ext[x]
                               /\ H.ext[x].pool = G.ext[x].pool
                               /\ H.ext[x].composite = G.ext[x].composite
Alike(G, H) == SameExtents(G, H) /\ DOMAIN H.pool = DOMAIN G.pool /\ H.vol = G.vol

LEMMA SameExtentsSees ==
    ASSUME NEW G, NEW L, Sees(G, L), NEW H, SameExtents(G, H), DOMAIN G.pool \subseteq DOMAIN H.pool,
           DOMAIN H.pool \subseteq VgNames \cup {Primordial}
    PROVE  Sees(H, L) /\ Grows(G, H)
<1>1. \A x \in DOMAIN G.ext : SeenAs(x, H.ext[x], L, DOMAIN H.pool)
  BY DEF Sees, SeenAs, SameExtents
<1>2. \A x : Antecedents(H, x) = Antecedents(G, x)
  BY DEF Antecedents, SameExtents
<1> QED
  BY <1>1, <1>2 DEF Sees, Grows, SameExtents

LEMMA AlikeSees ==
    ASSUME NEW G, NEW L, Sees(G, L), NEW H, Alike(G, H)
    PROVE  Sees(H, L) /\ Grows(G, H)
  BY SameExtentsSees DEF Alike, Sees

LEMMA AlikeTransitive ==
    ASSUME NEW G, NEW H, NEW K, Alike(G, H), Alike(H, K)
    PROVE  Alike(G, K)
  BY DEF Alike, SameExtents

LEMMA SeesIsShaped ==
    ASSUME NEW G, NEW L, Sees(G, L)
    PROVE  IsShaped(G)
  BY DEF Sees, SeenAs, IsShaped

LEMMA AlikeIsShaped ==
    ASSUME NEW G, IsShaped(G), NEW H, Alike(G, H)
    PROVE  IsShaped(H)
  BY DEF IsShaped, Alike, SameExtents

\* An extent that is new, or free space, on its first antecedent.
LEMMA NewExtentSees ==
    ASSUME NEW G, NEW L, Sees(G, L), NEW x, x \notin DOMAIN G.ext \/ x[1] = "Freespace",
           x[1] # "disk", NEW bytes, NEW p, NEW comp, NEW ant,
           \A e : DOMAIN e = {"size", "pool", "composite"} /\ e.pool = p /\ e.composite = comp =>
                     SeenAs(x, e, L, DOMAIN G.pool),
           \A b : b.dep = x /\ b.ant = ant => EdgeSeen(b, L),
           NEW H, H = ExtentCreateBasedOnAssociation(ExtentAlloc(G, x, bytes, p, comp), x, ant, 1)
    PROVE  /\ Sees(H, L) /\ Grows(G, H) /\ H.pool = G.pool /\ H.vol = G.vol /\ DOMAIN H.ext = DOMAIN G.ext \cup {x}
           /\ H.ext[x].pool = p /\ H.ext[x].composite = comp
           /\ \A y \in DOMAIN G.ext : y # x => H.ext[y] = G.ext[y]
<1> DEFINE e == [size |-> bytes, pool |-> p, composite |-> comp]
           b == [dep |-> x, ant |-> ant, order |-> 1]
<1>1. DOMAIN G = {"defined", "ext", "pool", "vol", "based", "alloc"}
  BY DEF Sees
<1>2. /\ DOMAIN H = DOMAIN G /\ H.pool = G.pool /\ H.vol = G.vol
      /\ H.ext = Added(G.ext, x, e) /\ H.based = G.based \cup {b}
  BY <1>1 DEF ExtentCreateBasedOnAssociation, ExtentAlloc
<1>3. e.pool = p /\ e.composite = comp /\ b.dep = x /\ b.order = 1 /\ b.ant = ant /\ SeenAs(x, e, L, DOMAIN G.pool) /\ EdgeSeen(b, L)
  <2>1. /\ DOMAIN e = {"size", "pool", "composite"} /\ e.pool = p /\ e.composite = comp
        /\ b.dep = x /\ b.order = 1 /\ b.ant = ant
    OBVIOUS
  <2> HIDE DEF e, b
  <2> QED
    BY <2>1
<1> HIDE DEF e, b
<1>4. H.ext = [y \in DOMAIN G.ext \cup {x} |-> IF y = x THEN e ELSE G.ext[y]]
  BY <1>2 DEF Added
<1>5. ASSUME NEW y \in DOMAIN H.ext
      PROVE  /\ SeenAs(y, H.ext[y], L, DOMAIN H.pool)
             /\ y[1] # "disk" => Antecedents(H, y) # {}
             /\ y[1] \in {"md", "Composite"} => Numbered(Antecedents(H, y))
  <2>1. CASE y # x
    <3>1. Antecedents(H, y) = Antecedents(G, y)
      BY <1>2, <1>3, <2>1 DEF Antecedents
    <3> QED
      BY <1>2, <1>4, <2>1, <3>1 DEF Sees
  <2>2. CASE y = x
    <3>1. SeenAs(y, H.ext[y], L, DOMAIN H.pool)
      BY <1>2, <1>3, <1>4, <2>2
    <3>2. ASSUME x \notin DOMAIN G.ext
          PROVE  Antecedents(H, x) = {b}
      BY <1>2, <1>3, <3>2 DEF Antecedents, Sees
    <3>3. b \in Antecedents(H, x)
      BY <1>2, <1>3 DEF Antecedents
    <3> QED
      BY <1>3, <2>2, <3>1, <3>2, <3>3, NumberedOne
  <2> QED
    BY <2>1, <2>2
<1>6. \A c \in H.based : c.dep \in DOMAIN H.ext /\ EdgeSeen(c, L)
  BY <1>2, <1>3, <1>4 DEF Sees
<1>7. Sees(H, L)
  BY <1>1, <1>2, <1>5, <1>6 DEF Sees
<1>8. Grows(G, H)
  BY <1>2, <1>4 DEF Grows, ExtentIsFreespace
<1> QED
  BY <1>2, <1>3, <1>4, <1>7, <1>8

\* One more antecedent,
LEMMA NextEdgeSees ==
    ASSUME NEW G, NEW L, Sees(G, L), NEW x \in DOMAIN G.ext, x[1] \in {"md", "Composite"}, NEW ant,
           \A b : b.dep = x /\ b.ant = ant => EdgeSeen(b, L),
           NEW H, H = ExtentCreateBasedOnAssociation(G, x, ant, NextOrder(G, x))
    PROVE  Sees(H, L) /\ Grows(G, H) /\ H.pool = G.pool /\ H.ext = G.ext /\ H.vol = G.vol
<1> DEFINE b == [dep |-> x, ant |-> ant, order |-> NextOrder(G, x)]
<1>1. DOMAIN G = {"defined", "ext", "pool", "vol", "based", "alloc"}
  BY DEF Sees
<1>2. DOMAIN H = DOMAIN G /\ H.pool = G.pool /\ H.ext = G.ext /\ H.based = G.based \cup {b} /\ H.vol = G.vol
  BY <1>1 DEF ExtentCreateBasedOnAssociation
<1>3. b.dep = x /\ b.order = Cardinality(Antecedents(G, x)) + 1 /\ EdgeSeen(b, L)
  <2>1. b.dep = x /\ b.ant = ant /\ b.order = Cardinality(Antecedents(G, x)) + 1
    BY DEF NextOrder
  <2> HIDE DEF b
  <2> QED
    BY <2>1
<1> HIDE DEF b
<1>4. Antecedents(H, x) = Antecedents(G, x) \cup {b}
  BY <1>2, <1>3 DEF Antecedents
<1>5. \A y : y # x => Antecedents(H, y) = Antecedents(G, y)
  BY <1>2, <1>3 DEF Antecedents
<1>6. Numbered(Antecedents(H, x))
  BY <1>3, <1>4, NumberedMore DEF Sees
<1>7. ASSUME NEW y \in DOMAIN H.ext
      PROVE  /\ SeenAs(y, H.ext[y], L, DOMAIN H.pool)
             /\ y[1] # "disk" => Antecedents(H, y) # {}
             /\ y[1] \in {"md", "Composite"} => Numbered(Antecedents(H, y))
  BY <1>2, <1>4, <1>5, <1>6 DEF Sees
<1>8. \A c \in H.based : c.dep \in DOMAIN H.ext /\ EdgeSeen(c, L)
  BY <1>2, <1>3 DEF Sees
<1>9. Sees(H, L)
  BY <1>1, <1>2, <1>7, <1>8 DEF Sees
<1> QED
  BY <1>2, <1>9 DEF Grows

\* a RAID device that becomes the extent of the group it is all of,
LEMMA AdoptSees ==
    ASSUME NEW G, NEW L, Sees(G, L), NEW x \in DOMAIN G.ext, IsMd(x), G.ext[x].pool = NULL,
           NEW v \in VgNames, ToSet(L.vg[v].devs) = {x}
    PROVE  LET H == [G EXCEPT !.ext[x].pool = v]
           IN  /\ Sees(H, L) /\ Grows(G, H) /\ H.pool = G.pool /\ H.vol = G.vol /\ DOMAIN H.ext = DOMAIN G.ext
               /\ H.ext[x].pool = v /\ \A y \in DOMAIN G.ext : y # x => H.ext[y] = G.ext[y]
<1> DEFINE H == [G EXCEPT !.ext[x].pool = v]
<1>1. DOMAIN G = {"defined", "ext", "pool", "vol", "based", "alloc"} /\ DOMAIN G.ext[x] = {"size", "pool", "composite"}
  BY DEF Sees, SeenAs
<1>2. /\ DOMAIN H = DOMAIN G /\ H.pool = G.pool /\ H.vol = G.vol /\ H.based = G.based
      /\ H.ext = [G.ext EXCEPT ![x].pool = v]
  BY <1>1
<1> HIDE DEF H
<1>3. /\ DOMAIN H.ext = DOMAIN G.ext /\ \A y \in DOMAIN G.ext : y # x => H.ext[y] = G.ext[y]
      /\ DOMAIN H.ext[x] = DOMAIN G.ext[x] /\ H.ext[x].pool = v /\ H.ext[x].composite = G.ext[x].composite
  BY <1>1, <1>2
<1>4. SeenAs(x, H.ext[x], L, DOMAIN H.pool)
  <2>1. SeenAs(x, G.ext[x], L, DOMAIN G.pool)
    BY DEF Sees
  <2> QED
    BY <1>1, <1>2, <1>3, <2>1 DEF SeenAs, IsMd
<1>5. \A y : Antecedents(H, y) = Antecedents(G, y)
  BY <1>2 DEF Antecedents
<1>6. Sees(H, L)
  BY <1>1, <1>2, <1>3, <1>4, <1>5 DEF Sees
<1>7. Grows(G, H)
  BY <1>2, <1>3 DEF Grows
<1> QED
  BY <1>2, <1>3, <1>6, <1>7 DEF H

\* and the composite extent of a group that has more than one device.
LEMMA MarkSees ==
    ASSUME NEW G, NEW L, Sees(G, L), NEW x \in DOMAIN G.ext, x[1] = "Composite"
    PROVE  LET H == [G EXCEPT !.ext[x].composite = TRUE]
           IN  /\ Sees(H, L) /\ Grows(G, H) /\ H.pool = G.pool /\ H.vol = G.vol /\ DOMAIN H.ext = DOMAIN G.ext
               /\ \A y \in DOMAIN G.ext : H.ext[y].pool = G.ext[y].pool
<1> DEFINE H == [G EXCEPT !.ext[x].composite = TRUE]
<1>1. DOMAIN G = {"defined", "ext", "pool", "vol", "based", "alloc"} /\ DOMAIN G.ext[x] = {"size", "pool", "composite"}
  BY DEF Sees, SeenAs
<1>2. /\ DOMAIN H = DOMAIN G /\ H.pool = G.pool /\ H.vol = G.vol /\ H.based = G.based
      /\ H.ext = [G.ext EXCEPT ![x].composite = TRUE]
  BY <1>1
<1> HIDE DEF H
<1>3. /\ DOMAIN H.ext = DOMAIN G.ext /\ \A y \in DOMAIN G.ext : y # x => H.ext[y] = G.ext[y]
      /\ DOMAIN H.ext[x] = DOMAIN G.ext[x] /\ H.ext[x].pool = G.ext[x].pool
  BY <1>1, <1>2
<1>4. SeenAs(x, H.ext[x], L, DOMAIN H.pool)
  <2>1. SeenAs(x, G.ext[x], L, DOMAIN G.pool)
    BY DEF Sees
  <2> QED
    BY <1>1, <1>2, <1>3, <2>1 DEF SeenAs
<1>5. \A y : Antecedents(H, y) = Antecedents(G, y)
  BY <1>2 DEF Antecedents
<1>6. Sees(H, L)
  BY <1>1, <1>2, <1>3, <1>4, <1>5 DEF Sees
<1>7. Grows(G, H)
  BY <1>2, <1>3 DEF Grows
<1>8. \A y \in DOMAIN G.ext : H.ext[y].pool = G.ext[y].pool
  BY <1>3
<1> QED
  BY <1>2, <1>3, <1>6, <1>7, <1>8 DEF H

\* Pools and allocations,
LEMMA PoolsAlike ==
    ASSUME NEW G, IsShaped(G), NEW p, NEW q, NEW bytes
    PROVE  /\ Alike(G, PoolCreateAllocFromAssociation(G, p, q, bytes))
           /\ Alike(G, PoolModifyAllocFromAssociation(G, p, q, bytes))
           /\ Alike(G, Take(G, p, bytes))
           /\ PoolCreateAllocFromAssociation(G, p, q, bytes).ext = G.ext
           /\ PoolModifyAllocFromAssociation(G, p, q, bytes).ext = G.ext
           /\ Take(G, p, bytes).ext = G.ext
  BY DEF IsShaped, Alike, SameExtents, PoolCreateAllocFromAssociation, PoolModifyAllocFromAssociation, Take

LEMMA TakeMoreAlike ==
    ASSUME NEW G, IsShaped(G), NEW child, NEW p, NEW bytes
    PROVE  Alike(G, TakeMore(G, child, p, bytes))
<1> DEFINE from == ExtentGetPool(G, child)
           H == Take(G, from, bytes)
<1>1. Alike(G, H)
  BY PoolsAlike
<1> HIDE DEF H, from
<1>2. Alike(H, PoolModifyAllocFromAssociation(H, from, p, bytes))
  BY <1>1, AlikeIsShaped, PoolsAlike
<1>3. Alike(G, PoolModifyAllocFromAssociation(H, from, p, bytes))
  BY <1>1, <1>2, AlikeTransitive
<1> QED
  BY <1>3 DEF TakeMore, H, from

\* capabilities
LEMMA ManyMirrorsAlike ==
    ASSUME NEW G, IsShaped(G), NEW n
    PROVE  Alike(G, ManyMirrors(G, n))
<1> DEFINE members == Cardinality(Antecedents(G, Md(n)))
           p == IF G.ext[Md(n)].pool # NULL THEN G.ext[Md(n)].pool
                ELSE IF DependentExtents(G, Md(n)) = {} THEN NULL
                ELSE G.ext[OnlyDependent(G, Md(n))].pool
           H == ManyMirrors(G, n)
<1>1. \/ H = G \/ H = [G EXCEPT !.defined = FALSE]
      \/ H = [G EXCEPT !.pool[p].cap.dr = members, !.pool[p].cap.drMax = members]
  BY DEF ManyMirrors
<1> HIDE DEF members, p, H
<1>2. /\ DOMAIN H = DOMAIN G /\ H.ext = G.ext /\ H.based = G.based /\ DOMAIN H.pool = DOMAIN G.pool
      /\ H.vol = G.vol
  BY <1>1 DEF IsShaped
<1> QED
  BY <1>2 DEF Alike, SameExtents, H

\* and sizes.
LEMMA SizesAlike ==
    ASSUME NEW G, IsShaped(G), NEW x, NEW bytes, NEW p
    PROVE  /\ Alike(G, Shrunk(G, x, bytes))
           /\ Alike(G, [G EXCEPT !.ext[x].size = bytes])
           /\ Alike(G, Grown(G, p, bytes))
<1>1. Alike(G, Shrunk(G, x, bytes))
  <2> DEFINE H == Shrunk(G, x, bytes)
  <2>1. /\ DOMAIN H = DOMAIN G /\ H.based = G.based /\ H.pool = G.pool /\ H.vol = G.vol
        /\ H.ext = [G.ext EXCEPT ![x].size = @ - bytes]
    BY DEF Shrunk, IsShaped
  <2> HIDE DEF H
  <2>2. /\ DOMAIN H.ext = DOMAIN G.ext
        /\ \A y \in DOMAIN G.ext : /\ DOMAIN H.ext[y] = DOMAIN G.ext[y] /\ H.ext[y].pool = G.ext[y].pool
                                   /\ H.ext[y].composite = G.ext[y].composite
    BY <2>1
  <2> QED
    BY <2>1, <2>2 DEF Alike, SameExtents, H
<1>2. Alike(G, [G EXCEPT !.ext[x].size = bytes])
  <2> DEFINE H == [G EXCEPT !.ext[x].size = bytes]
  <2>1. /\ DOMAIN H = DOMAIN G /\ H.based = G.based /\ H.pool = G.pool /\ H.vol = G.vol
        /\ H.ext = [G.ext EXCEPT ![x].size = bytes]
    BY DEF IsShaped
  <2> HIDE DEF H
  <2>2. /\ DOMAIN H.ext = DOMAIN G.ext
        /\ \A y \in DOMAIN G.ext : /\ DOMAIN H.ext[y] = DOMAIN G.ext[y] /\ H.ext[y].pool = G.ext[y].pool
                                   /\ H.ext[y].composite = G.ext[y].composite
    BY <2>1
  <2> QED
    BY <2>1, <2>2 DEF Alike, SameExtents, H
<1>3. Alike(G, Grown(G, p, bytes))
  <2> DEFINE H == Grown(G, p, bytes)
  <2>1. /\ DOMAIN H = DOMAIN G /\ H.based = G.based /\ H.ext = G.ext /\ DOMAIN H.pool = DOMAIN G.pool
        /\ H.vol = G.vol
    BY DEF Grown, IsShaped
  <2> HIDE DEF H
  <2> QED
    BY <2>1 DEF Alike, SameExtents, H
<1> QED
  BY <1>1, <1>2, <1>3

\* The volumes are on the extents that groups are shown with.
Carries(G, x) == x \in DOMAIN G.ext /\ x[1] \in {"md", "Composite"} /\ G.ext[x].pool # NULL
VolsCarried(G) == \A l \in DOMAIN G.vol : Carries(G, G.vol[l].on)

LEMMA StaysCarrying ==
    ASSUME NEW G, NEW H, Grows(G, H), NEW x, Carries(G, x)
    PROVE  Carries(H, x)
  BY DEF Carries, Grows, ExtentIsFreespace

Seeing(G, L) == Sees(G, L) /\ PoolsHeld(G) /\ VolsCarried(G)

\* The extent of a pool is its composite extent, or the RAID device it is on.
HeldByMd(G, L, v) == \E x \in DOMAIN G.ext : x[1] = "md" /\ G.ext[x].pool = v /\ ToSet(L.vg[v].devs) = {x}

LEMMA HolderIs ==
    ASSUME NEW G, NEW L, Sees(G, L), NEW v \in VgNames, Held(G, v)
    PROVE  Composite(v) \in DOMAIN G.ext \/ HeldByMd(G, L, v)
<1>1. v # Primordial /\ v # NULL
  BY ScanAssumption, DiskAssumption
<1>2. PICK x \in DOMAIN G.ext : G.ext[x].pool = v /\ ~ExtentIsFreespace(x)
  BY DEF Held
<1>3. SeenAs(x, G.ext[x], L, DOMAIN G.pool)
  BY <1>2 DEF Sees
<1> QED
  BY <1>1, <1>2, <1>3 DEF SeenAs, ExtentIsFreespace, HeldByMd

LEMMA CompositeCarries ==
    ASSUME NEW G, NEW L, Sees(G, L), NEW v \in VgNames, Composite(v) \in DOMAIN G.ext
    PROVE  Carries(G, Composite(v)) /\ G.ext[Composite(v)].pool = v
<1> DEFINE x == Composite(v)
<1>1. x[1] = "Composite" /\ x[2] = v /\ \A w : Composite(w) = x => w = v
  BY DEF Composite
<1> HIDE DEF x
<1>2. SeenAs(x, G.ext[x], L, DOMAIN G.pool) /\ x \in DOMAIN G.ext
  BY DEF Sees, x
<1>3. G.ext[x].pool = v
  BY <1>1, <1>2 DEF SeenAs
<1> QED
  BY <1>1, <1>2, <1>3, DiskAssumption DEF Carries, x

\* The volumes of a group are put on such an extent.
LEMMA VolumesSee ==
    ASSUME NEW G, NEW L, Seeing(G, L), NEW v, NEW x, Carries(G, x), NEW H, H = ProcessVolumes(G, L, v, x)
    PROVE  Seeing(H, L) /\ Grows(G, H) /\ DOMAIN H.ext = DOMAIN G.ext /\ DOMAIN H.pool = DOMAIN G.pool
<1> DEFINE new(l) == VolumeCreateBasedOnAssociation(
                         VolumeCreateAllocFromAssociation(VolumeAlloc(l, L.vg[v].lvs[l]), v), x)
<1>1. Sees(G, L) /\ IsShaped(G) /\ DOMAIN G.pool \subseteq VgNames \cup {Primordial}
  BY SeesIsShaped DEF Seeing, Sees
<1>2. H = [G EXCEPT !.vol = AddedIfNew(@, LvsIn(L, v), new)]
  BY DEF ProcessVolumes
<1>3. \A l : new(l).on = x
  BY DEF VolumeCreateBasedOnAssociation, VolumeCreateAllocFromAssociation, VolumeAlloc
<1> HIDE DEF new
<1>4. /\ DOMAIN H = DOMAIN G /\ H.ext = G.ext /\ H.based = G.based /\ H.pool = G.pool
      /\ H.vol = [l \in DOMAIN G.vol \cup LvsIn(L, v) |-> IF l \in DOMAIN G.vol THEN G.vol[l] ELSE new(l)]
  BY <1>1, <1>2 DEF IsShaped, AddedIfNew
<1>5. SameExtents(G, H)
  BY <1>4 DEF SameExtents
<1>6. Sees(H, L) /\ Grows(G, H)
  BY <1>1, <1>4, <1>5, SameExtentsSees
<1>7. VolsCarried(H)
  BY <1>3, <1>4 DEF VolsCarried, Carries, Seeing
<1>8. PoolsHeld(H)
  BY <1>4 DEF PoolsHeld, Held, Seeing
<1> QED
  BY <1>4, <1>6, <1>7, <1>8 DEF Seeing

\* Nothing but extents of groups is new.
GroupsOnly(G, H) == \A x \in DOMAIN H.ext \ DOMAIN G.ext : x[1] \notin {"part", "md"}

\* The first device of a group: its pool gets an extent of its own,
LEMMA FirstOfContainerSees ==
    ASSUME NEW G, NEW L, Seeing(G, L), NEW child \in DOMAIN G.ext, child[1] \in {"part", "md"},
           G.ext[child].pool = NULL, NEW v \in VgNames, v \notin DOMAIN G.pool,
           child \in ToSet(L.vg[v].devs), L.vg[v].devs \in Seq(ToSet(L.vg[v].devs)), NEW cap,
           NEW H, H = FirstOfContainer(G, L, child, cap, v)
    PROVE  Seeing(H, L) /\ Grows(G, H) /\ DOMAIN H.pool = DOMAIN G.pool \cup {v} /\ GroupsOnly(G, H)
<1> DEFINE total == SizeOfAll(L, L.vg[v].devs) \div OneKB
           free  == PeFree(L, v) \div OneKB
           one   == IsMd(child) /\ Len(L.vg[v].devs) = 1
           comp  == IF one THEN child ELSE Composite(v)
           mine  == IF IsJBOD(cap) THEN Cap(1, 0, 1, 0, FALSE) ELSE cap
           bytes == G.ext[child].size
           g1 == PoolAlloc(G, v, total, free, mine)
           ga == [g1 EXCEPT !.ext[child].pool = v]
           kb(c) == ExtentCreateBasedOnAssociation(ExtentAlloc(g1, comp, bytes, v, c), comp, child, 1)
           gb == kb(FALSE)
           g2 == IF one THEN ga ELSE gb
           g3 == PoolCreateAllocFromAssociation(g2, ExtentGetPool(G, child), v, bytes)
           k4(c) == ExtentCreateBasedOnAssociation(ExtentAlloc(g3, Freespace(v), free, v, c), Freespace(v), comp, 1)
           g4 == k4(FALSE)
<1>0. H = g4
  BY DEF FirstOfContainer
<1>1. Sees(G, L) /\ DOMAIN G.pool \subseteq VgNames \cup {Primordial}
  BY DEF Seeing, Sees
<1>2. Sees(g1, L) /\ Grows(G, g1) /\ DOMAIN g1.pool = DOMAIN G.pool \cup {v} /\ g1.ext = G.ext /\ g1.vol = G.vol
  <2> HIDE DEF total, free, mine
  <2>1. /\ SameExtents(G, g1) /\ DOMAIN g1.pool = DOMAIN G.pool \cup {v} /\ g1.ext = G.ext /\ g1.vol = G.vol
    BY <1>1 DEF Sees, SameExtents, PoolAlloc, Added
  <2> HIDE DEF g1
  <2> QED
    BY <1>1, <2>1, SameExtentsSees
<1> HIDE DEF g1, total, free, mine, bytes
<1>3. ASSUME Len(L.vg[v].devs) = 1
      PROVE  ToSet(L.vg[v].devs) = {child} /\ L.vg[v].devs[1] = child
  <2> DEFINE s == L.vg[v].devs
             S == ToSet(s)
  <2>1. DOMAIN s = {1}
    <3> HIDE DEF S
    <3>1. s \in Seq(S) /\ Len(s) = 1
      BY <1>3 DEF S
    <3> HIDE DEF s
    <3> QED
      BY <3>1
  <2>2. S = {s[1]}
    BY <2>1 DEF ToSet
  <2> QED
    BY <2>2
<1>4. ASSUME one
      PROVE  /\ Sees(ga, L) /\ Grows(g1, ga) /\ ga.pool = g1.pool /\ ga.vol = g1.vol /\ DOMAIN ga.ext = DOMAIN g1.ext
             /\ ga.ext[child].pool = v /\ ~ExtentIsFreespace(child)
  <2>1. IsMd(child) /\ ToSet(L.vg[v].devs) = {child} /\ child \in DOMAIN g1.ext /\ g1.ext[child].pool = NULL
    BY <1>2, <1>3, <1>4
  <2>2. ~ExtentIsFreespace(child)
    BY <2>1 DEF IsMd, ExtentIsFreespace
  <2> QED
    BY SMTT(40), <1>2, <2>1, <2>2, AdoptSees
<1>5. ASSUME ~one
      PROVE  /\ Sees(gb, L) /\ Grows(g1, gb) /\ gb.pool = g1.pool /\ gb.vol = g1.vol
             /\ DOMAIN gb.ext = DOMAIN g1.ext \cup {Composite(v)}
             /\ gb.ext[Composite(v)].pool = v /\ ~ExtentIsFreespace(Composite(v))
  <2> DEFINE x == Composite(v)
  <2>1. x[1] = "Composite" /\ x[2] = v /\ ~ExtentIsFreespace(x)
    BY DEF Composite, ExtentIsFreespace
  <2>2. \A w : Composite(w) = x => w = v
    BY DEF Composite
  <2>3. x \notin DOMAIN g1.ext
    BY <1>1, <1>2, <2>1, <2>2 DEF Sees, SeenAs
  <2>4. \A e : DOMAIN e = {"size", "pool", "composite"} /\ e.pool = v => SeenAs(x, e, L, DOMAIN g1.pool)
    <3>1. ~OnOneMd(L, v)
      BY <1>3, <1>5 DEF OnOneMd
    <3> QED
      BY <1>2, <2>1, <3>1 DEF SeenAs
  <2> HIDE DEF x
  <2>5. \A b : b.dep = x /\ b.ant = child => EdgeSeen(b, L)
    BY <2>1 DEF EdgeSeen
  <2>6. ASSUME NEW c
        PROVE  /\ Sees(kb(c), L) /\ Grows(g1, kb(c)) /\ kb(c).pool = g1.pool /\ kb(c).vol = g1.vol
               /\ DOMAIN kb(c).ext = DOMAIN g1.ext \cup {x} /\ kb(c).ext[x].pool = v
    <3>1. kb(c) = ExtentCreateBasedOnAssociation(ExtentAlloc(g1, x, bytes, v, c), x, child, 1)
      BY <1>5 DEF x
    <3>2. Sees(g1, L)
      BY <1>2
    <3> HIDE DEF kb, gb, one, comp
    <3> QED
      BY <2>1, <2>3, <2>4, <2>5, <3>1, <3>2, NewExtentSees
  <2> HIDE DEF kb
  <2> QED
    BY <2>1, <2>6 DEF x
<1>6. /\ Sees(g2, L) /\ Grows(g1, g2) /\ g2.pool = g1.pool /\ g2.vol = g1.vol /\ DOMAIN g2.ext \subseteq DOMAIN g1.ext \cup {Composite(v)}
      /\ Held(g2, v)
  <2>1. CASE one
    BY <1>2, <1>4, <2>1 DEF Held
  <2>2. CASE ~one
    BY <1>5, <2>2 DEF Held
  <2> QED
    BY <2>1, <2>2
<1> HIDE DEF one, g2, comp
<1>7. /\ Sees(g3, L) /\ Grows(g2, g3) /\ DOMAIN g3.pool = DOMAIN g2.pool /\ DOMAIN g3.ext = DOMAIN g2.ext
      /\ g3.vol = g2.vol
  <2>1. Alike(g2, g3)
    BY <1>6, SeesIsShaped, PoolsAlike
  <2> HIDE DEF g3
  <2> QED
    BY <1>6, <2>1, AlikeSees DEF Alike, SameExtents
<1> HIDE DEF g3
<1>8. /\ Sees(g4, L) /\ Grows(g3, g4) /\ g4.pool = g3.pool /\ g4.vol = g3.vol
      /\ DOMAIN g4.ext = DOMAIN g3.ext \cup {Freespace(v)}
  <2> DEFINE x == Freespace(v)
  <2>1. x[1] = "Freespace"
    BY DEF Freespace
  <2> HIDE DEF x
  <2>2. \A e : DOMAIN e = {"size", "pool", "composite"} /\ e.pool = v => SeenAs(x, e, L, DOMAIN g3.pool)
    BY <2>1 DEF SeenAs
  <2>3. \A b : b.dep = x /\ b.ant = comp => EdgeSeen(b, L)
    BY <2>1 DEF EdgeSeen
  <2>4. ASSUME NEW c
        PROVE  /\ Sees(k4(c), L) /\ Grows(g3, k4(c)) /\ k4(c).pool = g3.pool /\ k4(c).vol = g3.vol
               /\ DOMAIN k4(c).ext = DOMAIN g3.ext \cup {x}
    <3>1. k4(c) = ExtentCreateBasedOnAssociation(ExtentAlloc(g3, x, free, v, c), x, comp, 1)
      BY DEF x
    <3> HIDE DEF k4
    <3> QED
      BY <1>7, <2>1, <2>2, <2>3, <3>1, NewExtentSees
  <2> HIDE DEF k4
  <2> QED
    BY <2>4 DEF x
<1> HIDE DEF g4
<1>9. Grows(g2, g4)
  BY <1>7, <1>8, GrowsTransitive
<1>10. Grows(G, g4)
  BY <1>2, <1>6, <1>9, GrowsTransitive
<1>11. DOMAIN g4.pool = DOMAIN G.pool \cup {v}
  BY <1>2, <1>6, <1>7, <1>8
<1>12. PoolsHeld(g4)
  <2>1. \A w \in DOMAIN g2.pool : Held(g2, w) => Held(g4, w)
    BY <1>6, <1>9, StaysHeld DEF Sees
  <2>2. \A w \in DOMAIN G.pool : Held(G, w) => Held(g4, w)
    BY <1>1, <1>10, StaysHeld
  <2> QED
    BY <1>2, <1>6, <1>11, <2>1, <2>2 DEF PoolsHeld, Seeing
<1>13. VolsCarried(g4)
  BY <1>2, <1>6, <1>7, <1>8, <1>10, StaysCarrying DEF VolsCarried, Seeing
<1>14. GroupsOnly(G, g4)
  BY <1>2, <1>6, <1>7, <1>8 DEF GroupsOnly, Composite, Freespace
<1> QED
  BY <1>0, <1>8, <1>10, <1>11, <1>12, <1>13, <1>14 DEF Seeing

\* and every further one finds the composite extent there.
LEMMA NextOfContainerSees ==
    ASSUME NEW G, NEW L, Seeing(G, L), NEW child \in DOMAIN G.ext, child[1] \in {"part", "md"},
           G.ext[child].pool = NULL, NEW v \in VgNames, v \in DOMAIN G.pool,
           child \in ToSet(L.vg[v].devs), NEW H, H = NextOfContainer(G, child, v)
    PROVE  Seeing(H, L) /\ Grows(G, H) /\ DOMAIN H.pool = DOMAIN G.pool /\ DOMAIN H.ext = DOMAIN G.ext
<1> DEFINE comp == Composite(v)
           g == PoolModifyAllocFromAssociation(G, ExtentGetPool(G, child), v, G.ext[child].size)
           h == ExtentCreateBasedOnAssociation(g, comp, child, NextOrder(g, comp))
           k == [h EXCEPT !.ext[comp].composite = TRUE]
<1>1. Sees(G, L) /\ DOMAIN G.pool \subseteq VgNames \cup {Primordial}
  BY DEF Seeing, Sees
<1>2. comp[1] = "Composite" /\ comp[2] = v /\ comp \in DOMAIN G.ext
  <2>1. v # Primordial /\ v # NULL
    BY ScanAssumption, DiskAssumption
  <2>2. PICK x \in DOMAIN G.ext : G.ext[x].pool = v /\ ~ExtentIsFreespace(x)
    BY <2>1 DEF Seeing, PoolsHeld, Held
  <2>3. SeenAs(x, G.ext[x], L, DOMAIN G.pool)
    BY <1>1 DEF Sees
  <2>4. x[1] # "md"
    BY <2>1, <2>2, <2>3 DEF SeenAs
  <2>5. x = comp
    BY <2>1, <2>2, <2>3, <2>4 DEF SeenAs, ExtentIsFreespace
  <2> QED
    BY <2>2, <2>5 DEF Composite
<1>3. Alike(G, g) /\ g.ext = G.ext /\ g.based = G.based /\ g.vol = G.vol
  <2>1. Alike(G, g) /\ g.ext = G.ext
    BY <1>1, SeesIsShaped, PoolsAlike
  <2> QED
    BY <2>1 DEF Alike, SameExtents
<1>0. H = k
  <2>1. NextOrder(g, comp) = NextOrder(G, comp)
    BY <1>3 DEF NextOrder, Antecedents
  <2> HIDE DEF g, comp
  <2> QED
    BY <2>1 DEF NextOfContainer, g, comp
<1> HIDE DEF g
<1>4. Sees(g, L) /\ Grows(G, g) /\ DOMAIN g.pool = DOMAIN G.pool
  BY <1>1, <1>3, AlikeSees DEF Alike
<1>5. Sees(h, L) /\ Grows(g, h) /\ h.pool = g.pool /\ h.ext = g.ext /\ h.vol = g.vol
  <2> HIDE DEF comp
  <2>1. \A b : b.dep = comp /\ b.ant = child => EdgeSeen(b, L)
    BY <1>2 DEF EdgeSeen
  <2> QED
    BY <1>2, <1>3, <1>4, <2>1, NextEdgeSees
<1> HIDE DEF h
<1>6. Sees(k, L) /\ Grows(h, k) /\ k.pool = h.pool /\ DOMAIN k.ext = DOMAIN h.ext /\ k.vol = h.vol
  <2> HIDE DEF comp
  <2> QED
    BY <1>2, <1>3, <1>5, MarkSees
<1> HIDE DEF k
<1>7. Grows(G, k)
  BY <1>4, <1>5, <1>6, GrowsTransitive
<1>8. PoolsHeld(k)
  <2>1. \A w \in DOMAIN G.pool : Held(G, w) => Held(k, w)
    BY <1>1, <1>7, StaysHeld
  <2> QED
    BY <1>4, <1>5, <1>6, <2>1 DEF PoolsHeld, Seeing
<1>9. VolsCarried(k)
  BY <1>3, <1>5, <1>6, <1>7, StaysCarrying DEF VolsCarried, Seeing
<1> QED
  BY <1>0, <1>3, <1>4, <1>5, <1>6, <1>7, <1>8, <1>9 DEF Seeing

LEMMA AlikeSeeing ==
    ASSUME NEW G, NEW L, Seeing(G, L), NEW H, Alike(G, H)
    PROVE  Seeing(H, L) /\ Grows(G, H) /\ DOMAIN H.ext = DOMAIN G.ext /\ DOMAIN H.pool = DOMAIN G.pool
<1>1. Sees(H, L) /\ Grows(G, H) /\ DOMAIN G.pool \subseteq VgNames \cup {Primordial}
  BY AlikeSees DEF Seeing, Sees
<1>2. \A w \in DOMAIN G.pool : Held(G, w) => Held(H, w)
  BY <1>1, StaysHeld
<1>3. VolsCarried(H)
  BY <1>1, StaysCarrying DEF VolsCarried, Seeing, Alike
<1> QED
  BY <1>1, <1>2, <1>3 DEF Seeing, PoolsHeld, Alike, SameExtents

LEMMA ContainerSees ==
    ASSUME NEW G, NEW L, Seeing(G, L), NEW child \in DOMAIN G.ext, child[1] \in {"part", "md"},
           G.ext[child].pool = NULL, NEW v \in VgNames,
           child \in ToSet(L.vg[v].devs), L.vg[v].devs \in Seq(ToSet(L.vg[v].devs)), NEW cap,
           NEW H, H = ProcessContainer(G, L, child, cap, v)
    PROVE  Seeing(H, L) /\ Grows(G, H) /\ v \in DOMAIN H.pool /\ GroupsOnly(G, H)
<1> DEFINE first == FirstOfContainer(G, L, child, cap, v)
           next == NextOfContainer(G, child, v)
           g == IF v \in DOMAIN G.pool THEN next ELSE first
           comp == IF Composite(v) \in DOMAIN g.ext THEN Composite(v) ELSE child
           h == Take(g, ExtentGetPool(G, child), G.ext[child].size)
           k == ProcessVolumes(h, L, v, comp)
<1>0. H = k
  BY DEF ProcessContainer
<1>1. Seeing(g, L) /\ Grows(G, g) /\ v \in DOMAIN g.pool /\ GroupsOnly(G, g)
  <2> HIDE DEF first, next
  <2>1. CASE v \in DOMAIN G.pool
    <3>1. Seeing(next, L) /\ Grows(G, next) /\ DOMAIN next.pool = DOMAIN G.pool /\ DOMAIN next.ext = DOMAIN G.ext
      BY <2>1, NextOfContainerSees DEF next
    <3> QED
      BY <2>1, <3>1 DEF GroupsOnly
  <2>2. CASE v \notin DOMAIN G.pool
    <3>1. Seeing(first, L) /\ Grows(G, first) /\ DOMAIN first.pool = DOMAIN G.pool \cup {v} /\ GroupsOnly(G, first)
      BY <2>2, FirstOfContainerSees DEF first
    <3> QED
      BY <2>2, <3>1
  <2> QED
    BY <2>1, <2>2
<1> HIDE DEF g
<1>2. Carries(g, comp)
  <2>1. v # NULL /\ Sees(g, L) /\ Held(g, v)
    BY <1>1, DiskAssumption, ScanAssumption DEF Seeing, PoolsHeld
  <2>2. CASE Composite(v) \in DOMAIN g.ext
    BY <2>1, <2>2, CompositeCarries
  <2>3. CASE Composite(v) \notin DOMAIN g.ext
    <3> HIDE DEF h, k, first, next
    <3> HIDE DEF comp
    <3>0. Composite(v) \in DOMAIN g.ext \/ HeldByMd(g, L, v)
      BY <2>1, HolderIs
    <3>1. PICK x \in DOMAIN g.ext : x[1] = "md" /\ g.ext[x].pool = v /\ ToSet(L.vg[v].devs) = {x}
      BY <2>3, <3>0 DEF HeldByMd
    <3>2. child = x
      BY <3>1
    <3>3. comp = child
      BY <2>3 DEF comp
    <3> QED
      BY <2>1, <3>1, <3>2, <3>3 DEF Carries
  <2> QED
    BY <2>2, <2>3
<1> HIDE DEF comp
<1>3. Seeing(h, L) /\ Grows(g, h) /\ DOMAIN h.ext = DOMAIN g.ext /\ DOMAIN h.pool = DOMAIN g.pool
  <2>1. Alike(g, h)
    BY <1>1, SeesIsShaped, PoolsAlike DEF Seeing
  <2> HIDE DEF h
  <2> QED
    BY <1>1, <2>1, AlikeSeeing
<1> HIDE DEF h
<1>4. Seeing(k, L) /\ Grows(h, k) /\ DOMAIN k.ext = DOMAIN h.ext /\ DOMAIN k.pool = DOMAIN h.pool
  BY <1>2, <1>3, StaysCarrying, VolumesSee
<1> HIDE DEF k
<1>5. Grows(G, k)
  BY <1>1, <1>3, <1>4, GrowsTransitive
<1> QED
  BY <1>0, <1>1, <1>3, <1>4, <1>5 DEF GroupsOnly

\* A step of the scan: what it adds has its user.
NewSettled(G, H, L) == \A x \in DOMAIN H.ext \ DOMAIN G.ext : x[1] \in {"part", "md"} => Settled(H, L, x)
Advances(G, H, L) == Seeing(H, L) /\ Grows(G, H) /\ NewSettled(G, H, L)

LEMMA AdvancesTransitive ==
    ASSUME NEW G, NEW H, NEW K, NEW L, Advances(G, H, L), Advances(H, K, L)
    PROVE  Advances(G, K, L)
<1>1. Grows(G, K) /\ Grows(H, K)
  BY GrowsTransitive DEF Advances
<1>2. ASSUME NEW x \in DOMAIN K.ext \ DOMAIN G.ext, x[1] \in {"part", "md"}
      PROVE  Settled(K, L, x)
  <2>1. CASE x \in DOMAIN H.ext
    BY <1>1, <1>2, <2>1, StaysSettled DEF Advances, NewSettled
  <2>2. CASE x \notin DOMAIN H.ext
    BY <1>2, <2>2 DEF Advances, NewSettled
  <2> QED
    BY <2>1, <2>2
<1> QED
  BY <1>1, <1>2 DEF Advances, NewSettled

LEMMA AdvancesItself ==
    ASSUME NEW G, NEW L, Seeing(G, L)
    PROVE  Advances(G, G, L)
  BY DEF Advances, Grows, NewSettled

LEMMA StaysSeeing ==
    ASSUME NEW G, NEW L, Seeing(G, L), NEW H, Sees(H, L), Grows(G, H), H.pool = G.pool, H.vol = G.vol
    PROVE  Seeing(H, L)
<1>1. \A w \in DOMAIN G.pool : Held(G, w) => Held(H, w)
  BY StaysHeld DEF Seeing, Sees
<1>2. VolsCarried(H)
  BY StaysCarrying DEF VolsCarried, Seeing
<1> QED
  BY <1>1, <1>2 DEF Seeing, PoolsHeld

LEMMA AlikeAdvances ==
    ASSUME NEW G, NEW L, Seeing(G, L), NEW H, Alike(G, H)
    PROVE  Advances(G, H, L) /\ DOMAIN H.ext = DOMAIN G.ext /\ DOMAIN H.pool = DOMAIN G.pool
<1>1. Seeing(H, L) /\ Grows(G, H) /\ DOMAIN H.ext = DOMAIN G.ext /\ DOMAIN H.pool = DOMAIN G.pool
  BY AlikeSeeing
<1> QED
  BY <1>1 DEF Advances, NewSettled

\* The device x of G is new, and from new to K it gets its user.
LEMMA NewDevice ==
    ASSUME NEW G, NEW L, NEW new, NEW x, NEW K, Grows(G, new), DOMAIN new.ext = DOMAIN G.ext \cup {x},
           Advances(new, K, L), Settled(K, L, x)
    PROVE  Advances(G, K, L) /\ x \in DOMAIN K.ext
<1>1. Grows(G, K) /\ x \in DOMAIN K.ext
  BY GrowsTransitive DEF Advances, Grows
<1> QED
  BY <1>1 DEF Advances, NewSettled

\* The group on a device,
LEMMA GroupSees ==
    ASSUME NEW G, NEW L, ScanOK(L), DevicesOK(L), Seeing(G, L), NEW x \in DOMAIN G.ext, x[1] \in {"part", "md"},
           G.ext[x].pool = NULL, VgsUsing(L, x) # {}, NEW cap,
           NEW v, v = (CHOOSE w \in VgsUsing(L, x) : TRUE),
           NEW H, H = ProcessContainer(G, L, x, cap, v)
    PROVE  Advances(G, H, L) /\ Settled(H, L, x)
<1>1. v \in VgsUsing(L, x) /\ v \in VgsOf(L) /\ v \in VgNames /\ x \in ToSet(L.vg[v].devs)
  BY DEF VgsUsing, VgsOf
<1>2. L.vg[v].devs \in Seq(ToSet(L.vg[v].devs))
  BY <1>1 DEF ScanOK
<1>3. Seeing(H, L) /\ Grows(G, H) /\ v \in DOMAIN H.pool /\ GroupsOnly(G, H)
  <2>1. ASSUME NEW w \in VgNames, x \in ToSet(L.vg[w].devs), L.vg[w].devs \in Seq(ToSet(L.vg[w].devs)),
               NEW K, K = ProcessContainer(G, L, x, cap, w)
        PROVE  Seeing(K, L) /\ Grows(G, K) /\ w \in DOMAIN K.pool /\ GroupsOnly(G, K)
    BY <2>1, ContainerSees
  <2> QED
    BY <1>1, <1>2, <2>1
<1>4. \A w \in VgsUsing(L, x) : w = v
  BY <1>1 DEF DevicesOK, OneUser, VgsUsing
<1>5. MdsUsing(L, x) = {}
  BY <1>1 DEF DevicesOK, OneUser, MdsUsing
<1> QED
  BY <1>3, <1>4, <1>5 DEF Advances, NewSettled, GroupsOnly, Settled

\* the extent of a RAID device, and one more of its members,
LEMMA RegionSees ==
    ASSUME NEW G, NEW L, Seeing(G, L), NEW n \in MdsOf(L), NEW child \in ToSet(L.md[n].devs), NEW bytes
    PROVE  /\ Md(n) \notin DOMAIN G.ext =>
                  LET new == NewRegion(G, L, child, n, bytes)
                  IN  /\ Seeing(new, L) /\ Grows(G, new) /\ DOMAIN new.ext = DOMAIN G.ext \cup {Md(n)}
                      /\ new.ext[Md(n)].pool = NULL
           /\ Md(n) \in DOMAIN G.ext =>
                  LET more == NextMember(G, child, n)
                  IN  Advances(G, more, L) /\ more.ext = G.ext
<1> DEFINE x == Md(n)
           size == Max({bytes, L.md[n].size})
           k(c) == ExtentCreateBasedOnAssociation(ExtentAlloc(G, x, size, NULL, c), x, child, 1)
           new == NewRegion(G, L, child, n, bytes)
           more == NextMember(G, child, n)
<1>1. x[1] = "md" /\ x[3] = n /\ x = Md(n)
  BY DEF Md
<1>2. \A b : b.dep = x /\ b.ant = child => EdgeSeen(b, L)
  BY <1>1 DEF EdgeSeen
<1>3. \A e : DOMAIN e = {"size", "pool", "composite"} /\ e.pool = NULL /\ e.composite = TRUE =>
          SeenAs(x, e, L, DOMAIN G.pool)
  BY <1>1 DEF SeenAs
<1>4. Sees(G, L)
  BY DEF Seeing
<1>5. new = k(TRUE)
  BY DEF NewRegion
<1> HIDE DEF x, size, new, more
<1>6. ASSUME x \notin DOMAIN G.ext
      PROVE  Seeing(new, L) /\ Grows(G, new) /\ DOMAIN new.ext = DOMAIN G.ext \cup {x} /\ new.ext[x].pool = NULL
  <2>1. ASSUME NEW c, c = TRUE
        PROVE  /\ Sees(k(c), L) /\ Grows(G, k(c)) /\ k(c).pool = G.pool /\ k(c).vol = G.vol
               /\ DOMAIN k(c).ext = DOMAIN G.ext \cup {x} /\ k(c).ext[x].pool = NULL
    <3>1. \A e : DOMAIN e = {"size", "pool", "composite"} /\ e.pool = NULL /\ e.composite = c =>
              SeenAs(x, e, L, DOMAIN G.pool)
      BY <1>3, <2>1
    <3>2. k(c) = ExtentCreateBasedOnAssociation(ExtentAlloc(G, x, size, NULL, c), x, child, 1)
      OBVIOUS
    <3> HIDE DEF k
    <3> QED
      BY <1>1, <1>2, <1>4, <1>6, <3>1, <3>2, NewExtentSees
  <2> HIDE DEF k
  <2>2. /\ Sees(new, L) /\ Grows(G, new) /\ new.pool = G.pool /\ new.vol = G.vol
        /\ DOMAIN new.ext = DOMAIN G.ext \cup {x} /\ new.ext[x].pool = NULL
    BY <1>5, <2>1
  <2> QED
    BY <2>2, StaysSeeing
<1>7. ASSUME x \in DOMAIN G.ext
      PROVE  Advances(G, more, L) /\ more.ext = G.ext
  <2>1. more = ExtentCreateBasedOnAssociation(G, x, child, NextOrder(G, x))
    BY DEF NextMember, more, x
  <2>2. Sees(more, L) /\ Grows(G, more) /\ more.pool = G.pool /\ more.ext = G.ext /\ more.vol = G.vol
    BY <1>1, <1>2, <1>4, <1>7, <2>1, NextEdgeSees
  <2>3. Seeing(more, L)
    BY <2>2, StaysSeeing
  <2> QED
    BY <2>2, <2>3 DEF Advances, NewSettled
<1> QED
  BY <1>6, <1>7 DEF x, new, more

LEMMA TakeMoreAdvances ==
    ASSUME NEW G, NEW L, Seeing(G, L), NEW child, NEW p, NEW bytes
    PROVE  Advances(G, TakeMore(G, child, p, bytes), L) /\ DOMAIN TakeMore(G, child, p, bytes).ext = DOMAIN G.ext
<1>1. Alike(G, TakeMore(G, child, p, bytes))
  BY SeesIsShaped, TakeMoreAlike DEF Seeing
<1> QED
  BY <1>1, AlikeAdvances

\* stripes,
LEMMA Raid0Sees ==
    ASSUME NEW G, NEW L, ScanOK(L), DevicesOK(L), Seeing(G, L), NEW n \in MdsOf(L), L.md[n].level # 1,
           NEW child \in ToSet(L.md[n].devs), NEW H, H = ProcessMDRaid0Region(G, L, child, n)
    PROVE  Advances(G, H, L) /\ Md(n) \in DOMAIN H.ext
<1> DEFINE x == Md(n)
           stripes == Len(L.md[n].devs)
           mirrored == G.ext[child].composite
           cap  == IF mirrored THEN Cap(2, 1, stripes, 0, TRUE) ELSE Cap(1, 0, stripes, 0, FALSE)
           bytes == stripes * G.ext[child].size
           new  == NewRegion(G, L, child, n, bytes)
           more == NextMember(G, child, n)
           taken == TakeMore(more, child, ExtentGetPool(more, OnlyDependent(more, Md(n))), more.ext[Md(n)].size)
           held == ProcessContainer(new, L, Md(n), cap, GroupOn(L, n))
<1>1. /\ RegionFound(G, n) => H = taken \/ H = more
      /\ ~RegionFound(G, n) => H = IF HasGroup(L, n) THEN held ELSE new
  BY DEF ProcessMDRaid0Region
<1> HIDE DEF bytes
<1>2. /\ x \notin DOMAIN G.ext => /\ Seeing(new, L) /\ Grows(G, new) /\ DOMAIN new.ext = DOMAIN G.ext \cup {x}
                                  /\ new.ext[x].pool = NULL
      /\ x \in DOMAIN G.ext => Advances(G, more, L) /\ more.ext = G.ext
  BY RegionSees
<1> HIDE DEF new, more, cap
<1>3. CASE x \in DOMAIN G.ext
  <2>1. Advances(more, taken, L) /\ DOMAIN taken.ext = DOMAIN more.ext
    BY <1>2, <1>3, TakeMoreAdvances DEF Advances
  <2> HIDE DEF taken
  <2> QED
    BY <1>1, <1>2, <1>3, <2>1, AdvancesTransitive DEF RegionFound
<1>4. CASE x \notin DOMAIN G.ext /\ HasGroup(L, n)
  <2>1. VgsUsing(L, x) # {} /\ GroupOn(L, n) = (CHOOSE v \in VgsUsing(L, x) : TRUE) /\ x[1] = "md" /\ x \in DOMAIN new.ext
    BY <1>2, <1>4 DEF HasGroup, GroupOn, Md
  <2> DEFINE v == GroupOn(L, n)
  <2> HIDE DEF x, v
  <2>2. held = ProcessContainer(new, L, x, cap, v)
    BY DEF x, v
  <2> HIDE DEF held
  <2>3. Advances(new, held, L) /\ Settled(held, L, x)
    BY <1>2, <1>4, <2>1, <2>2, GroupSees DEF v
  <2> QED
    BY <1>1, <1>2, <1>4, <2>3, NewDevice DEF RegionFound, x
<1>5. CASE x \notin DOMAIN G.ext /\ ~HasGroup(L, n)
  <2>1. Settled(new, L, x)
    BY <1>5 DEF HasGroup, Settled, MdsUsing, ScanOK, LayoutOK
  <2>2. Advances(new, new, L) /\ H = new
    BY <1>1, <1>2, <1>5, AdvancesItself DEF RegionFound
  <2> HIDE DEF x
  <2>3. Advances(G, new, L) /\ x \in DOMAIN new.ext
    BY <1>2, <1>5, <2>1, <2>2, NewDevice
  <2> QED
    BY <2>2, <2>3 DEF x
<1> QED
  BY <1>3, <1>4, <1>5

LEMMA Raid5Sees ==
    ASSUME NEW G, NEW L, ScanOK(L), DevicesOK(L), Seeing(G, L), NEW n \in MdsOf(L), L.md[n].level # 1,
           NEW child \in ToSet(L.md[n].devs), NEW H, H = ProcessMDRaid5Region(G, L, child, n)
    PROVE  Advances(G, H, L) /\ Md(n) \in DOMAIN H.ext
<1> DEFINE x == Md(n)
           devs == Len(L.md[n].devs)
           cap  == Cap(1, 1, devs, 2, TRUE)
           bytes == (devs - 1) * G.ext[child].size
           new  == NewRegion(G, L, child, n, bytes)
           held == ProcessContainer(new, L, Md(n), cap, GroupOn(L, n))
           more == NextMember(G, child, n)
           taken == TakeMore(held, child, GroupOn(L, n), G.ext[child].size)
<1>1. H = IF RegionFound(G, n) THEN more ELSE IF HasGroup(L, n) THEN taken ELSE new
  BY DEF ProcessMDRaid5Region
<1> HIDE DEF bytes
<1>2. /\ x \notin DOMAIN G.ext => /\ Seeing(new, L) /\ Grows(G, new) /\ DOMAIN new.ext = DOMAIN G.ext \cup {x}
                                  /\ new.ext[x].pool = NULL
      /\ x \in DOMAIN G.ext => Advances(G, more, L) /\ more.ext = G.ext
  BY RegionSees
<1> HIDE DEF new, more, cap, devs
<1>3. CASE x \in DOMAIN G.ext
  BY <1>1, <1>2, <1>3 DEF RegionFound
<1>4. CASE x \notin DOMAIN G.ext /\ HasGroup(L, n)
  <2>1. VgsUsing(L, x) # {} /\ GroupOn(L, n) = (CHOOSE v \in VgsUsing(L, x) : TRUE) /\ x[1] = "md" /\ x \in DOMAIN new.ext
    BY <1>2, <1>4 DEF HasGroup, GroupOn, Md
  <2> DEFINE v == GroupOn(L, n)
  <2> HIDE DEF x, v
  <2>2. held = ProcessContainer(new, L, x, cap, v) /\ taken = TakeMore(held, child, v, G.ext[child].size)
    BY DEF x, v
  <2> HIDE DEF held, taken
  <2>3. Advances(new, held, L) /\ Settled(held, L, x)
    BY <1>2, <1>4, <2>1, <2>2, GroupSees DEF v
  <2>4. Advances(held, taken, L)
    BY <2>2, <2>3, TakeMoreAdvances DEF Advances
  <2>5. Advances(G, held, L) /\ x \in DOMAIN held.ext
    BY <1>2, <1>4, <2>3, NewDevice
  <2>6. Advances(G, taken, L) /\ x \in DOMAIN taken.ext
    BY <2>4, <2>5, AdvancesTransitive DEF Advances, Grows
  <2> QED
    BY <1>1, <1>4, <2>6 DEF RegionFound, x
<1>5. CASE x \notin DOMAIN G.ext /\ ~HasGroup(L, n)
  <2>1. Settled(new, L, x)
    BY <1>5 DEF HasGroup, Settled, MdsUsing, ScanOK, LayoutOK
  <2>2. Advances(new, new, L) /\ H = new
    BY <1>1, <1>2, <1>5, AdvancesItself DEF RegionFound
  <2> HIDE DEF x
  <2>3. Advances(G, new, L) /\ x \in DOMAIN new.ext
    BY <1>2, <1>5, <2>1, <2>2, NewDevice
  <2> QED
    BY <2>2, <2>3 DEF x
<1> QED
  BY <1>3, <1>4, <1>5

\* mirrors, which a stripe can be on,
LEMMA Raid1Sees ==
    ASSUME NEW G, NEW L, ScanOK(L), DevicesOK(L), Seeing(G, L), NEW n \in MdsOf(L),
           NEW child \in ToSet(L.md[n].devs), NEW H, H = ProcessMDRaid1Region(G, L, child, n)
    PROVE  Advances(G, H, L) /\ Md(n) \in DOMAIN H.ext
<1> DEFINE x    == Md(n)
           new  == NewRegion(G, L, child, n, G.ext[child].size)
           more == NextMember(G, child, n)
           p    == IF more.ext[x].pool # NULL THEN more.ext[x].pool
                   ELSE IF NumDependents(more, x) = 1 THEN ExtentGetPool(more, OnlyDependent(more, x))
                   ELSE NULL
           taken == IF p # NULL THEN TakeMore(more, child, p, G.ext[child].size) ELSE more
           many == ManyMirrors(taken, n)
           cap  == Cap(2, 1, 1, 0, TRUE)
           held == ProcessContainer(new, L, x, cap, GroupOn(L, n))
           m    == CHOOSE k \in MdsUsing(L, x) : TRUE
           striped == ProcessMDRaid0Region(new, L, x, m)
<1>1. H = IF RegionFound(G, n) THEN many
          ELSE IF HasGroup(L, n) THEN held
          ELSE IF MdsUsing(L, x) # {} THEN striped ELSE new
  BY DEF ProcessMDRaid1Region
<1>2. /\ x \notin DOMAIN G.ext => /\ Seeing(new, L) /\ Grows(G, new) /\ DOMAIN new.ext = DOMAIN G.ext \cup {x}
                                  /\ new.ext[x].pool = NULL
      /\ x \in DOMAIN G.ext => Advances(G, more, L) /\ more.ext = G.ext
  BY RegionSees
<1> HIDE DEF new, more, cap, p
<1>3. CASE x \in DOMAIN G.ext
  <2> HIDE DEF x
  <2>1. Advances(more, taken, L) /\ DOMAIN taken.ext = DOMAIN more.ext
    BY <1>2, <1>3, TakeMoreAdvances, AdvancesItself DEF Advances
  <2> HIDE DEF taken
  <2>2. Advances(taken, many, L) /\ DOMAIN many.ext = DOMAIN taken.ext
    BY <2>1, SeesIsShaped, ManyMirrorsAlike, AlikeAdvances DEF Advances, Seeing
  <2> HIDE DEF many
  <2>3. Advances(G, many, L)
    BY <1>2, <1>3, <2>1, <2>2, AdvancesTransitive
  <2> QED
    BY <1>1, <1>2, <1>3, <2>1, <2>2, <2>3 DEF RegionFound, x
<1>4. CASE x \notin DOMAIN G.ext /\ HasGroup(L, n)
  <2>1. VgsUsing(L, x) # {} /\ GroupOn(L, n) = (CHOOSE v \in VgsUsing(L, x) : TRUE) /\ x[1] = "md" /\ x \in DOMAIN new.ext
    BY <1>2, <1>4 DEF HasGroup, GroupOn, Md
  <2> DEFINE v == GroupOn(L, n)
  <2> HIDE DEF x, v
  <2>2. held = ProcessContainer(new, L, x, cap, v)
    BY DEF v
  <2> HIDE DEF held
  <2>3. Advances(new, held, L) /\ Settled(held, L, x)
    BY <1>2, <1>4, <2>1, <2>2, GroupSees DEF v
  <2> QED
    BY <1>1, <1>2, <1>4, <2>3, NewDevice DEF RegionFound, x
<1>5. CASE x \notin DOMAIN G.ext /\ ~HasGroup(L, n) /\ MdsUsing(L, x) # {}
  <2>1. m \in MdsUsing(L, x)
    BY <1>5
  <2> HIDE DEF m
  <2>2. m \in MdsOf(L) /\ x \in ToSet(L.md[m].devs) /\ L.md[m].level = 0
    BY <2>1 DEF MdsUsing, ScanOK, LayoutOK
  <2>3. Advances(new, striped, L) /\ Md(m) \in DOMAIN striped.ext
    <3> HIDE DEF x
    <3> QED
      BY <1>2, <1>5, <2>2, Raid0Sees
  <2>4. \A k \in MdsUsing(L, x) : k = m
    BY <2>1 DEF DevicesOK, OneUser, MdsUsing
  <2>5. Settled(striped, L, x)
    BY <1>5, <2>3, <2>4 DEF HasGroup, Settled
  <2> HIDE DEF striped
  <2> QED
    BY <1>1, <1>2, <1>5, <2>3, <2>5, NewDevice DEF RegionFound
<1>6. CASE x \notin DOMAIN G.ext /\ ~HasGroup(L, n) /\ MdsUsing(L, x) = {}
  <2>1. Settled(new, L, x)
    BY <1>6 DEF HasGroup, Settled
  <2> QED
    BY <1>1, <1>2, <1>6, <2>1, NewDevice, AdvancesItself DEF RegionFound
<1> QED
  BY <1>3, <1>4, <1>5, <1>6

LEMMA ProcessRegionSees ==
    ASSUME NEW G, NEW L, ScanOK(L), DevicesOK(L), Seeing(G, L), NEW n \in MdsOf(L),
           NEW child \in ToSet(L.md[n].devs), NEW H, H = ProcessRegion(G, L, child, n)
    PROVE  Advances(G, H, L) /\ Md(n) \in DOMAIN H.ext
<1>1. L.md[n].level \in {0, 1, 5}
  BY DEF ScanOK, LevelsOK
<1> QED
  BY <1>1, Raid0Sees, Raid1Sees, Raid5Sees DEF ProcessRegion

\* a partition,
LEMMA ProcessPartitionSees ==
    ASSUME NEW G, NEW L, ScanOK(L), DevicesOK(L), Seeing(G, L), NEW disk, NEW p,
           NEW H, H = ProcessPartition(G, L, disk, p)
    PROVE  Advances(G, H, L) /\ (InUse(L, Part(p)) => Part(p) \in DOMAIN H.ext)
<1> DEFINE x == Part(p)
           d == Disk(disk)
           k(c) == ExtentCreateBasedOnAssociation(ExtentAlloc(G, x, p.size, NULL, c), x, d, 1)
           g1 == k(FALSE)
           cap == G.pool[Primordial].cap
           v == CHOOSE w \in VgsUsing(L, x) : TRUE
           n == CHOOSE m \in MdsUsing(L, x) : TRUE
           group == ProcessContainer(g1, L, x, cap, v)
           region == ProcessRegion(g1, L, x, n)
           g2 == IF VgsUsing(L, x) # {} THEN group ELSE region
           g3 == IF InUse(L, x) THEN g2 ELSE Take(G, Primordial, p.size)
           g4 == Shrunk(g3, Freespace(disk), p.size)
<1>1. H = IF x \in DOMAIN G.ext THEN G ELSE g4
  BY DEF ProcessPartition, Shrunk
<1>2. x[1] = "part" /\ d[1] = "disk"
  BY DEF Part, Disk
<1>3. Sees(G, L)
  BY DEF Seeing
<1> HIDE DEF x, d, cap
<1>4. CASE x \in DOMAIN G.ext
  BY <1>1, <1>4, AdvancesItself DEF x
<1>5. CASE x \notin DOMAIN G.ext
  <2>1. /\ Seeing(g1, L) /\ Grows(G, g1) /\ DOMAIN g1.ext = DOMAIN G.ext \cup {x}
        /\ g1.ext[x].pool = NULL
    <3>1. \A e : DOMAIN e = {"size", "pool", "composite"} /\ e.pool = NULL /\ e.composite = FALSE =>
              SeenAs(x, e, L, DOMAIN G.pool)
      BY <1>2 DEF SeenAs
    <3>2. \A b : b.dep = x /\ b.ant = d => EdgeSeen(b, L)
      BY <1>2 DEF EdgeSeen
    <3>3. ASSUME NEW c, c = FALSE
          PROVE  /\ Sees(k(c), L) /\ Grows(G, k(c)) /\ k(c).pool = G.pool /\ k(c).vol = G.vol
                 /\ DOMAIN k(c).ext = DOMAIN G.ext \cup {x} /\ k(c).ext[x].pool = NULL
      <4> DEFINE bytes == p.size
      <4>1. \A e : DOMAIN e = {"size", "pool", "composite"} /\ e.pool = NULL /\ e.composite = c =>
                SeenAs(x, e, L, DOMAIN G.pool)
        BY <3>1, <3>3
      <4>2. k(c) = ExtentCreateBasedOnAssociation(ExtentAlloc(G, x, bytes, NULL, c), x, d, 1)
        OBVIOUS
      <4> HIDE DEF k, bytes
      <4> QED
        BY <1>2, <1>3, <1>5, <3>2, <4>1, <4>2, NewExtentSees
    <3> HIDE DEF k
    <3>4. /\ Sees(g1, L) /\ Grows(G, g1) /\ g1.pool = G.pool /\ g1.vol = G.vol
          /\ DOMAIN g1.ext = DOMAIN G.ext \cup {x} /\ g1.ext[x].pool = NULL
      BY <3>3
    <3> HIDE DEF g1
    <3> QED
      BY <3>4, StaysSeeing
  <2> HIDE DEF g1
  <2>2. ASSUME VgsUsing(L, x) # {}
        PROVE  Advances(G, group, L) /\ x \in DOMAIN group.ext
    <3>1. Advances(g1, group, L) /\ Settled(group, L, x)
      <4>1. v = (CHOOSE w \in VgsUsing(L, x) : TRUE) /\ x \in DOMAIN g1.ext
        BY <2>1
      <4> HIDE DEF v
      <4> QED
        BY <1>2, <2>1, <2>2, <4>1, GroupSees
    <3> HIDE DEF group
    <3> QED
      BY <2>1, <3>1, NewDevice
  <2>3. ASSUME VgsUsing(L, x) = {}, MdsUsing(L, x) # {}
        PROVE  Advances(G, region, L) /\ x \in DOMAIN region.ext
    <3>1. n \in MdsUsing(L, x)
      BY <2>3
    <3> HIDE DEF n
    <3>2. n \in MdsOf(L) /\ x \in ToSet(L.md[n].devs)
      BY <3>1 DEF MdsUsing
    <3>3. Advances(g1, region, L) /\ Md(n) \in DOMAIN region.ext
      BY <2>1, <3>2, ProcessRegionSees
    <3>4. \A m \in MdsUsing(L, x) : m = n
      BY <3>1 DEF DevicesOK, OneUser, MdsUsing
    <3> HIDE DEF region
    <3>5. Settled(region, L, x)
      BY <2>3, <3>3, <3>4 DEF Settled
    <3> QED
      BY <2>1, <3>3, <3>5, NewDevice
  <2> HIDE DEF group, region
  <2>4. Advances(G, g3, L) /\ (InUse(L, x) => x \in DOMAIN g3.ext)
    <3>1. CASE InUse(L, x)
      BY <2>2, <2>3, <3>1 DEF InUse
    <3>2. CASE ~InUse(L, x)
      <4> DEFINE t == Take(G, Primordial, p.size)
      <4>1. Alike(G, t)
        BY <1>3, SeesIsShaped, PoolsAlike
      <4> HIDE DEF t
      <4>2. Advances(G, t, L)
        BY <4>1, AlikeAdvances
      <4> QED
        BY <3>2, <4>2 DEF t
    <3> QED
      BY <3>1, <3>2
  <2> HIDE DEF g3
  <2>5. Advances(g3, g4, L) /\ DOMAIN g4.ext = DOMAIN g3.ext
    <3>1. Alike(g3, g4)
      BY <2>4, SeesIsShaped, SizesAlike DEF Advances, Seeing
    <3> HIDE DEF g4
    <3> QED
      BY <2>4, <3>1, AlikeAdvances DEF Advances
  <2> HIDE DEF g4
  <2> QED
    BY <1>1, <1>5, <2>4, <2>5, AdvancesTransitive DEF x
<1> QED
  BY <1>4, <1>5

-----------------------------------------------------------------------------
(***************************************************************************)
(* The elements of a finite set in order: each has its place, by the       *)
(* number of those before it, and each place its element.                  *)
(***************************************************************************)
Orders(R, S) ==
    /\ \A x \in S : \A y \in S : x # y => <<x, y>> \in R \/ <<y, x>> \in R
    /\ \A x \in S : \A y \in S : x # y => ~(<<x, y>> \in R /\ <<y, x>> \in R)
    /\ \A x \in S : \A y \in S : \A z \in S : <<x, y>> \in R /\ <<y, z>> \in R => <<x, z>> \in R
BeforeIn(S, R, x) == {y \in S \ {x} : <<y, x>> \in R}

LEMMA PlacesAre ==
    ASSUME NEW S, IsFiniteSet(S), NEW R, Orders(R, S)
    PROVE  /\ \A x \in S : Cardinality(BeforeIn(S, R, x)) \in 0..Cardinality(S) - 1
           /\ \A x \in S : \A y \in S : Cardinality(BeforeIn(S, R, x)) = Cardinality(BeforeIn(S, R, y)) => x = y
<1>1. ASSUME NEW x \in S
      PROVE  /\ IsFiniteSet(BeforeIn(S, R, x)) /\ x \notin BeforeIn(S, R, x)
             /\ BeforeIn(S, R, x) \subseteq S /\ Cardinality(BeforeIn(S, R, x)) \in Nat
  <2>1. BeforeIn(S, R, x) \subseteq S /\ x \notin BeforeIn(S, R, x)
    BY DEF BeforeIn
  <2> QED
    BY <2>1, FS_Subset, FS_CardinalityType
<1>2. Cardinality(S) \in Nat
  BY FS_CardinalityType
<1>3. ASSUME NEW x \in S, NEW T, IsFiniteSet(T), BeforeIn(S, R, x) \cup {x} \subseteq T
      PROVE  Cardinality(BeforeIn(S, R, x)) < Cardinality(T)
  <2>1. Cardinality(BeforeIn(S, R, x) \cup {x}) = Cardinality(BeforeIn(S, R, x)) + 1
    BY <1>1, FS_AddElement
  <2>2. Cardinality(BeforeIn(S, R, x) \cup {x}) <= Cardinality(T) /\ Cardinality(T) \in Nat
    BY <1>3, FS_Subset, FS_CardinalityType
  <2> QED
    BY <1>1, <2>1, <2>2
<1>4. \A x \in S : Cardinality(BeforeIn(S, R, x)) < Cardinality(S)
  BY <1>1, <1>3
<1>5. ASSUME NEW x \in S, NEW y \in S, x # y, <<x, y>> \in R
      PROVE  Cardinality(BeforeIn(S, R, x)) < Cardinality(BeforeIn(S, R, y))
  <2>1. BeforeIn(S, R, x) \cup {x} \subseteq BeforeIn(S, R, y)
    BY <1>5 DEF BeforeIn, Orders
  <2> QED
    BY <1>1, <1>3, <2>1
<1>6. ASSUME NEW x \in S, NEW y \in S, Cardinality(BeforeIn(S, R, x)) = Cardinality(BeforeIn(S, R, y))
      PROVE  x = y
  <2>1. \A z \in S : Cardinality(BeforeIn(S, R, z)) \in Nat
    BY <1>1
  <2>2. SUFFICES ASSUME x # y PROVE FALSE
    OBVIOUS
  <2>3. <<x, y>> \in R \/ <<y, x>> \in R
    BY <2>2 DEF Orders
  <2>4. Cardinality(BeforeIn(S, R, x)) < Cardinality(BeforeIn(S, R, y))
        \/ Cardinality(BeforeIn(S, R, y)) < Cardinality(BeforeIn(S, R, x))
    BY <1>5, <2>2, <2>3
  <2> QED
    BY <1>6, <2>1, <2>4
<1> QED
  BY <1>1, <1>2, <1>4, <1>6

LEMMA PlacesAreTaken ==
    ASSUME NEW S, IsFiniteSet(S), NEW R, Orders(R, S), NEW k \in 1..Cardinality(S)
    PROVE  \E x \in S : Cardinality(BeforeIn(S, R, x)) = k - 1
<1> DEFINE N == Cardinality(S)
           f == [x \in S |-> Cardinality(BeforeIn(S, R, x)) + 1]
<1>1. N \in Nat
  BY FS_CardinalityType
<1>2. \A x \in S : Cardinality(BeforeIn(S, R, x)) \in 0..N - 1
  BY PlacesAre
<1>3. \A x \in S : \A y \in S : Cardinality(BeforeIn(S, R, x)) = Cardinality(BeforeIn(S, R, y)) => x = y
  BY PlacesAre
<1>4. f \in Injection(S, 1..N)
  <2>1. \A x \in S : f[x] \in 1..N
    BY <1>1, <1>2
  <2>2. ASSUME NEW x \in S, NEW y \in S, f[x] = f[y]
        PROVE  x = y
    <3>1. Cardinality(BeforeIn(S, R, x)) = Cardinality(BeforeIn(S, R, y))
      BY <1>1, <1>2, <2>2
    <3> QED
      BY <1>3, <3>1
  <2>3. f \in [S -> 1..N]
    BY <2>1
  <2> HIDE DEF f
  <2> QED
    BY <2>2, <2>3 DEF Injection, IsInjective
<1>5. IsFiniteSet(1..N) /\ Cardinality(1..N) = N
  BY <1>1, FS_Interval
<1> HIDE DEF f
<1>6. f \in Surjection(S, 1..N)
  BY <1>4, <1>5, FS_Injection DEF N
<1>7. PICK x \in S : f[x] = k
  BY <1>6 DEF Surjection, N
<1> QED
  BY <1>1, <1>2, <1>7 DEF f

\* The elements as a sequence.
InPlace(S, R) == [k \in 1..Cardinality(S) |-> CHOOSE x \in S : Cardinality(BeforeIn(S, R, x)) = k - 1]

LEMMA InPlaceIs ==
    ASSUME NEW S, IsFiniteSet(S), NEW R, Orders(R, S)
    PROVE  /\ Cardinality(S) \in Nat
           /\ \A k \in 1..Cardinality(S) : InPlace(S, R)[k] \in S
           /\ \A j \in 1..Cardinality(S) : \A k \in 1..Cardinality(S) : InPlace(S, R)[j] = InPlace(S, R)[k] => j = k
           /\ \A x \in S : \E k \in 1..Cardinality(S) : InPlace(S, R)[k] = x
<1> DEFINE N == Cardinality(S)
           at == InPlace(S, R)
<1>1. N \in Nat
  BY FS_CardinalityType
<1>2. ASSUME NEW k \in 1..N
      PROVE  at[k] \in S /\ Cardinality(BeforeIn(S, R, at[k])) = k - 1
  <2>1. at[k] = CHOOSE x \in S : Cardinality(BeforeIn(S, R, x)) = k - 1
    BY DEF InPlace
  <2> QED
    BY <2>1, PlacesAreTaken
<1>3. ASSUME NEW x \in S
      PROVE  \E k \in 1..N : at[k] = x
  <2>1. Cardinality(BeforeIn(S, R, x)) \in 0..N - 1
    BY PlacesAre
  <2> DEFINE k == Cardinality(BeforeIn(S, R, x)) + 1
  <2>2. k \in 1..N /\ k - 1 = Cardinality(BeforeIn(S, R, x))
    BY <1>1, <2>1
  <2> HIDE DEF k, N, at
  <2>3. at[k] \in S /\ Cardinality(BeforeIn(S, R, at[k])) = Cardinality(BeforeIn(S, R, x))
    BY <1>2, <2>2
  <2>4. at[k] = x
    BY <2>3, PlacesAre
  <2> QED
    BY <2>2, <2>4
<1> HIDE DEF at
<1> QED
  BY <1>1, <1>2, <1>3 DEF at

\* The partitions of a disk in the order of their numbers.
LEMMA PartitionsInPlace ==
    ASSUME NEW L, IsFiniteSet(L.part), NumsOK(L), NEW disk,
           NEW S, S = PartsOn(L, disk)
    PROVE  /\ IsFiniteSet(S) /\ Cardinality(S) \in Nat
           /\ \A k \in 1..Cardinality(S) : PartitionAt(L, disk, k) \in S
           /\ \A j \in 1..Cardinality(S) : \A k \in 1..Cardinality(S) :
                  PartitionAt(L, disk, j) = PartitionAt(L, disk, k) => j = k
           /\ \A p \in S : \E k \in 1..Cardinality(S) : PartitionAt(L, disk, k) = p
<1> DEFINE R == {e \in S \X S : e[1].num < e[2].num}
<1>1. S \subseteq L.part /\ IsFiniteSet(S)
  BY FS_Subset DEF PartsOn
<1>2. /\ \A r \in S : r.num \in Nat
      /\ \A r, s \in S : r.num = s.num => r = s
  BY <1>1 DEF NumsOK, PartsOn
<1>3. \A x \in S : \A y \in S : <<x, y>> \in R <=> x.num < y.num
  OBVIOUS
<1> HIDE DEF R
<1>4. Orders(R, S)
  <2>1. \A x \in S : \A y \in S : x # y => <<x, y>> \in R \/ <<y, x>> \in R
    <3>1. \A x \in S : \A y \in S : x # y => x.num < y.num \/ y.num < x.num
      BY <1>2
    <3> QED
      BY <1>3, <3>1
  <2>2. \A x \in S : \A y \in S : x # y => ~(<<x, y>> \in R /\ <<y, x>> \in R)
    BY <1>2, <1>3
  <2>3. \A x \in S : \A y \in S : \A z \in S : <<x, y>> \in R /\ <<y, z>> \in R => <<x, z>> \in R
    BY <1>2, <1>3
  <2> QED
    BY <2>1, <2>2, <2>3 DEF Orders
<1>5. ASSUME NEW x \in S
      PROVE  BeforeIn(S, R, x) = {q \in S : q.num < x.num}
  BY <1>2, <1>3 DEF BeforeIn
<1>6. \A k \in 1..Cardinality(S) : PartitionAt(L, disk, k) = InPlace(S, R)[k]
  <2> SUFFICES ASSUME NEW k \in 1..Cardinality(S) PROVE PartitionAt(L, disk, k) = InPlace(S, R)[k]
    OBVIOUS
  <2>1. PartitionAt(L, disk, k) = CHOOSE p \in S : Cardinality({q \in S : q.num < p.num}) = k - 1
    BY DEF PartitionAt
  <2>2. InPlace(S, R)[k] = CHOOSE p \in S : Cardinality(BeforeIn(S, R, p)) = k - 1
    BY DEF InPlace
  <2> QED
    BY <1>5, <2>1, <2>2
<1> QED
  BY <1>1, <1>4, <1>6, InPlaceIs

\* The partitions in use of a disk have their extents.
DiskSeen(G, L, disk) == \A p \in PartsOn(L, disk) : InUse(L, Part(p)) => Part(p) \in DOMAIN G.ext

LEMMA ScanPartitionsSees ==
    ASSUME NEW G, NEW L, ScanOK(L), DevicesOK(L), Seeing(G, L), NEW disk
    PROVE  Advances(G, ScanPartitions(G, L, disk), L) /\ DiskSeen(ScanPartitions(G, L, disk), L, disk)
<1> DEFINE At(i) == PartitionAt(L, disk, i)
           F(x, i) == ProcessPartition(x, L, disk, PartitionAt(L, disk, i))
           N == Cardinality(PartsOn(L, disk))
           seen(H, i) == InUse(L, Part(At(i))) => Part(At(i)) \in DOMAIN H.ext
           a == CHOOSE g : g = [i \in 0..N |-> IF i = 0 THEN G ELSE F(g[i - 1], i)]
           ok(n) == Advances(G, a[n], L) /\ \A i \in 1..n : seen(a[n], i)
           T == {n \in 0..N : ~ok(n)}
<1>1. N \in Nat
  <2>1. PartsOn(L, disk) \subseteq L.part
    BY DEF PartsOn
  <2> QED
    BY <2>1, FS_Subset, FS_CardinalityType DEF ScanOK
<1>2. ScanPartitions(G, L, disk) = a[N]
  BY DEF ScanPartitions, Through
<1>3. \A p \in PartsOn(L, disk) : \E i \in 1..N : At(i) = p
  BY PartitionsInPlace DEF ScanOK, DevicesOK
<1> HIDE DEF N
<1>4. a = [i \in 0..N |-> IF i = 0 THEN G ELSE F(a[i - 1], i)]
  BY <1>1, PartitionsRecursion
<1>5. \A x, i : Seeing(x, L) => Advances(x, F(x, i), L) /\ seen(F(x, i), i)
  BY ProcessPartitionSees
<1> HIDE DEF F, a, At
<1>6. T = {}
  <2>1. SUFFICES ASSUME T # {} PROVE FALSE
    OBVIOUS
  <2>2. PICK n \in T : \A m \in T : n <= m
    <3>1. T \in SUBSET Nat
      BY <1>1
    <3> HIDE DEF T
    <3> QED
      BY <2>1, <3>1, LeastNumber
  <2>3. n # 0
    BY <1>1, <1>4, <2>2, AdvancesItself
  <2>4. n - 1 \in 0..N /\ ~(n <= n - 1)
    BY <1>1, <2>2, <2>3
  <2>5. ok(n - 1) /\ a[n] = F(a[n - 1], n)
    BY <1>1, <1>4, <2>2, <2>3, <2>4
  <2>6. Advances(a[n - 1], a[n], L) /\ seen(a[n], n)
    BY <1>5, <2>5 DEF Advances
  <2>7. Advances(G, a[n], L)
    BY <2>5, <2>6, AdvancesTransitive
  <2>8. \A i \in 1..n : seen(a[n], i)
    <3>1. \A i \in 1..n : i = n \/ i \in 1..n - 1
      BY <1>1, <2>2
    <3> QED
      BY <2>5, <2>6, <3>1 DEF Advances, Grows
  <2> QED
    BY <2>2, <2>7, <2>8
<1>7. ok(N)
  BY <1>1, <1>6
<1> QED
  BY <1>2, <1>3, <1>7 DEF DiskSeen

\* A disk: no group is on it.
LEMMA ScanDiskSees ==
    ASSUME NEW G, NEW L, ScanOK(L), DevicesOK(L), Seeing(G, L), NEW disk, NEW H, H = ScanDisk(G, L, disk)
    PROVE  Advances(G, H, L) /\ DiskSeen(H, L, disk)
<1> DEFINE d == Disk(disk)
           f == Freespace(disk)
           h1 == [G EXCEPT !.ext[d].size = DiskSize]
           g1 == Grown(h1, Primordial, DiskSize)
           k(c) == ExtentCreateBasedOnAssociation(ExtentAlloc(g1, f, DiskSize, Primordial, c), f, d, 1)
           g2 == k(FALSE)
           parts == ScanPartitions(g2, L, disk)
<1>1. VgsUsing(L, d) = {}
  BY DEF DevicesOK, VgsHold, VgsUsing, DeviceExists, Part, Md, Disk
<1>2. H = parts
  BY <1>1 DEF ScanDisk, Grown
<1>3. f[1] = "Freespace"
  BY DEF Freespace
<1> HIDE DEF d, f, parts
<1>4. Advances(G, h1, L)
  <2>1. Alike(G, h1)
    BY SeesIsShaped, SizesAlike DEF Seeing
  <2> HIDE DEF h1
  <2> QED
    BY <2>1, AlikeAdvances
<1> HIDE DEF h1
<1>5. Advances(h1, g1, L)
  <2>1. Alike(h1, g1)
    BY <1>4, SeesIsShaped, SizesAlike DEF Advances, Seeing
  <2> HIDE DEF g1
  <2> QED
    BY <1>4, <2>1, AlikeAdvances DEF Advances
<1> HIDE DEF g1
<1>6. Advances(g1, g2, L)
  <2>1. \A e : DOMAIN e = {"size", "pool", "composite"} => SeenAs(f, e, L, DOMAIN g1.pool)
    BY <1>3 DEF SeenAs
  <2>2. \A b : b.dep = f /\ b.ant = d => EdgeSeen(b, L)
    BY <1>3 DEF EdgeSeen
  <2>3. Sees(g1, L)
    BY <1>5 DEF Advances, Seeing
  <2>4. ASSUME NEW c
        PROVE  /\ Sees(k(c), L) /\ Grows(g1, k(c)) /\ k(c).pool = g1.pool /\ k(c).vol = g1.vol
               /\ DOMAIN k(c).ext = DOMAIN g1.ext \cup {f}
    <3>1. k(c) = ExtentCreateBasedOnAssociation(ExtentAlloc(g1, f, DiskSize, Primordial, c), f, d, 1)
      OBVIOUS
    <3> HIDE DEF k
    <3> QED
      BY <1>3, <2>1, <2>2, <2>3, <3>1, NewExtentSees
  <2> HIDE DEF k
  <2>5. /\ Sees(g2, L) /\ Grows(g1, g2) /\ g2.pool = g1.pool /\ g2.vol = g1.vol
        /\ DOMAIN g2.ext = DOMAIN g1.ext \cup {f}
    BY <2>4
  <2> HIDE DEF g2
  <2>6. Seeing(g2, L)
    BY <1>5, <2>5, StaysSeeing DEF Advances
  <2> QED
    BY <1>3, <2>5, <2>6 DEF Advances, NewSettled
<1> HIDE DEF g2
<1>7. Advances(g2, parts, L) /\ DiskSeen(parts, L, disk)
  BY <1>6, ScanPartitionsSees DEF Advances, parts
<1>8. Advances(G, g1, L)
  BY <1>4, <1>5, AdvancesTransitive
<1>9. Advances(G, parts, L)
  BY <1>6, <1>7, <1>8, AdvancesTransitive
<1> QED
  BY <1>2, <1>7, <1>9

LEMMA NothingScannedIsSeen ==
    ASSUME NEW L
    PROVE  Seeing(LoadPersistentStorageObjects, L)
<1> DEFINE G == LoadPersistentStorageObjects
           S == {Disk(d) : d \in ToSet(Disks)}
           e == [size |-> 0, pool |-> Primordial, composite |-> FALSE]
<1>1. /\ DOMAIN G = {"defined", "ext", "pool", "vol", "based", "alloc"}
      /\ DOMAIN G.pool = {Primordial} /\ G.ext = [x \in S |-> e] /\ G.based = {} /\ DOMAIN G.vol = {}
  BY DEF LoadPersistentStorageObjects
<1>2. \A x \in S : x[1] = "disk"
  BY DEF Disk
<1>3. DOMAIN e = {"size", "pool", "composite"} /\ e.pool = Primordial
  OBVIOUS
<1> HIDE DEF G, S, e
<1>4. \A x \in DOMAIN G.ext : G.ext[x] = e /\ x[1] = "disk"
  BY <1>1, <1>2
<1> QED
  BY <1>1, <1>3, <1>4 DEF Seeing, Sees, SeenAs, PoolsHeld, VolsCarried, G

\* All partitions in use, and with them all that is on them, are found.
PartsSeen(G, L) == \A p \in L.part : InUse(L, Part(p)) => Part(p) \in DOMAIN G.ext

LEMMA ScanDisksSees ==
    ASSUME NEW L, ScanOK(L), DevicesOK(L), \A p \in L.part : p.disk \in ToSet(Disks)
    PROVE  Advances(LoadPersistentStorageObjects, ScanDisks(L), L) /\ PartsSeen(ScanDisks(L), L)
<1> DEFINE N == Len(Disks)
           F(x, i) == ScanDisk(x, L, Disks[i])
           G == LoadPersistentStorageObjects
           a == CHOOSE g : g = [i \in 0..N |-> IF i = 0 THEN G ELSE F(g[i - 1], i)]
           ok(n) == Advances(G, a[n], L) /\ \A i \in 1..n : DiskSeen(a[n], L, Disks[i])
           T == {n \in 0..N : ~ok(n)}
<1>1. N \in Nat
  BY DiskAssumption
<1>2. ScanDisks(L) = a[N]
  BY DEF ScanDisks, Through
<1>3. Seeing(G, L)
  BY NothingScannedIsSeen
<1> HIDE DEF G
<1>4. a = [i \in 0..N |-> IF i = 0 THEN G ELSE F(a[i - 1], i)]
  <2> HIDE DEF N
  <2> QED
    BY SMTT(40), <1>1, DisksRecursion DEF G
<1>5. \A x, i : Seeing(x, L) => Advances(x, F(x, i), L) /\ DiskSeen(F(x, i), L, Disks[i])
  BY ScanDiskSees
<1>6. \A d \in ToSet(Disks) : \E i \in 1..N : d = Disks[i]
  BY DiskAssumption DEF ToSet
<1> HIDE DEF F, a, N
<1>7. T = {}
  <2>1. SUFFICES ASSUME T # {} PROVE FALSE
    OBVIOUS
  <2>2. PICK n \in T : \A m \in T : n <= m
    <3>1. T \in SUBSET Nat
      BY <1>1
    <3> HIDE DEF T
    <3> QED
      BY <2>1, <3>1, LeastNumber
  <2>3. n # 0
    BY <1>1, <1>3, <1>4, <2>2, AdvancesItself
  <2>4. n - 1 \in 0..N /\ ~(n <= n - 1)
    BY <1>1, <2>2, <2>3
  <2>5. ok(n - 1) /\ a[n] = F(a[n - 1], n)
    BY <1>1, <1>4, <2>2, <2>3, <2>4
  <2>6. Advances(a[n - 1], a[n], L) /\ DiskSeen(a[n], L, Disks[n])
    BY <1>5, <2>5 DEF Advances
  <2>7. Advances(G, a[n], L)
    BY <2>5, <2>6, AdvancesTransitive
  <2>8. \A i \in 1..n : DiskSeen(a[n], L, Disks[i])
    <3>1. \A i \in 1..n : i = n \/ i \in 1..n - 1
      BY <1>1, <2>2
    <3> QED
      BY <2>5, <2>6, <3>1 DEF Advances, Grows, DiskSeen
  <2> QED
    BY <2>2, <2>7, <2>8
<1>8. ok(N)
  BY <1>1, <1>7
<1> QED
  BY <1>2, <1>6, <1>8 DEF PartsSeen, DiskSeen, PartsOn, G

\* What a scan sees.
ShowsLayout(G, L) == Seeing(G, L) /\ Closed(G, L, {}) /\ PartsSeen(G, L)

LEMMA ShownAfterScan ==
    ASSUME NEW L, ScanOK(L), DevicesOK(L), \A p \in L.part : p.disk \in ToSet(Disks)
    PROVE  ShowsLayout(SCSScanStorage(L), L)
<1> DEFINE B == LoadPersistentStorageObjects
           G == ScanDisks(L)
           H == SCSScanStorage(L)
<1>1. Advances(B, G, L) /\ PartsSeen(G, L)
  BY ScanDisksSees
<1>2. \A x \in DOMAIN B.ext : x[1] = "disk"
  BY DEF LoadPersistentStorageObjects, Disk
<1> HIDE DEF B, G
<1>3. DOMAIN G = {"defined", "ext", "pool", "vol", "based", "alloc"}
  BY <1>1 DEF Advances, Seeing, Sees
<1>4. /\ DOMAIN H = DOMAIN G /\ H.ext = G.ext /\ H.based = G.based /\ DOMAIN H.pool = DOMAIN G.pool
      /\ H.vol = G.vol
  BY <1>3 DEF SCSScanStorage, Fixup, G
<1> HIDE DEF H
<1>5. Alike(G, H)
  BY <1>4 DEF Alike, SameExtents
<1>6. Advances(G, H, L)
  BY <1>1, <1>5, AlikeAdvances DEF Advances
<1>7. Advances(B, H, L)
  BY <1>1, <1>6, AdvancesTransitive
<1> QED
  BY <1>1, <1>2, <1>4, <1>7 DEF ShowsLayout, Advances, NewSettled, Closed, PartsSeen, H

\* Every group has its pool.
LEMMA GroupsAreShown ==
    ASSUME NEW L, ScanOK(L), DevicesOK(L), NEW G, ShowsLayout(G, L)
    PROVE  VgsOf(L) \subseteq DOMAIN G.pool
<1>1. \A p \in L.part : InUse(L, Part(p)) => Settled(G, L, Part(p))
  BY DEF ShowsLayout, Closed, PartsSeen, Part
<1>2. \A n \in MdsOf(L) : Md(n) \in DOMAIN G.ext => Settled(G, L, Md(n))
  BY DEF ShowsLayout, Closed, Md
<1>3. ASSUME NEW n \in MdsOf(L), NEW p \in L.part, Part(p) \in ToSet(L.md[n].devs)
      PROVE  Md(n) \in DOMAIN G.ext
  <2>1. n \in MdsUsing(L, Part(p))
    BY <1>3 DEF MdsUsing
  <2> QED
    BY <1>1, <2>1 DEF InUse, Settled
<1>4. ASSUME NEW n \in MdsOf(L)
      PROVE  Md(n) \in DOMAIN G.ext
  <2>1. PICK x \in ToSet(L.md[n].devs) : DeviceExists(L, x)
    BY DEF DevicesOK, MdsHold
  <2>2. CASE \E p \in L.part : Part(p) = x
    BY <1>3, <2>1, <2>2
  <2>3. CASE \E k \in MdsOf(L) : Md(k) = x
    <3>1. PICK k \in MdsOf(L) : Md(k) = x
      BY <2>3
    <3>2. L.md[k].level = 1
      BY <2>1, <3>1 DEF ScanOK, LayoutOK
    <3>3. PICK y \in ToSet(L.md[k].devs) : DeviceExists(L, y)
      BY DEF DevicesOK, MdsHold
    <3>4. PICK p \in L.part : Part(p) = y
      BY <3>2, <3>3 DEF ScanOK, LayoutOK, DeviceExists
    <3>5. Md(k) \in DOMAIN G.ext
      BY <1>3, <3>3, <3>4
    <3> QED
      BY <1>2, <2>1, <3>1, <3>5 DEF Settled, MdsUsing
  <2> QED
    BY <2>1, <2>2, <2>3 DEF DeviceExists
<1>5. ASSUME NEW v \in VgsOf(L)
      PROVE  v \in DOMAIN G.pool
  <2>1. v \in VgNames /\ L.vg[v].devs # <<>> /\ L.vg[v].devs \in Seq(ToSet(L.vg[v].devs))
    BY DEF VgsOf, ScanOK
  <2>2. PICK x : x \in ToSet(L.vg[v].devs)
    <3> DEFINE s == L.vg[v].devs
               S == ToSet(s)
    <3>1. s \in Seq(S) /\ s # <<>>
      BY <2>1
    <3> HIDE DEF S, s
    <3>2. s[1] \in S
      BY <3>1
    <3> QED
      BY <3>2 DEF S, s
  <2>3. DeviceExists(L, x) /\ v \in VgsUsing(L, x)
    BY <2>2 DEF DevicesOK, VgsHold, VgsUsing
  <2>4. CASE \E p \in L.part : Part(p) = x
    BY <1>1, <2>3, <2>4 DEF InUse, Settled
  <2>5. CASE \E k \in MdsOf(L) : Md(k) = x
    BY <1>2, <1>4, <2>3, <2>5 DEF Settled
  <2> QED
    BY <2>3, <2>4, <2>5 DEF DeviceExists
<1> QED
  BY <1>5

-----------------------------------------------------------------------------
(***************************************************************************)
(* Sums over a finite set: the function the fold stands for exists, it is  *)
(* the same for every set around, and any element can be taken first.      *)
(***************************************************************************)
AnyOf(s) == CHOOSE x \in s : TRUE
SumsUp(f, g, S) ==
    f = [s \in SUBSET S |-> IF s = {} THEN 0 ELSE g[AnyOf(s)] + f[s \ {AnyOf(s)}]]

LEMMA AnyOfIsIn ==
    ASSUME NEW s, s # {}
    PROVE  AnyOf(s) \in s
  BY DEF AnyOf

LEMMA SumAt ==
    ASSUME NEW S, NEW f, NEW g, SumsUp(f, g, S), NEW s \in SUBSET S
    PROVE  f[s] = IF s = {} THEN 0 ELSE g[AnyOf(s)] + f[s \ {AnyOf(s)}]
  BY DEF SumsUp

LEMMA SumIsSame ==
    ASSUME NEW S, IsFiniteSet(S), NEW T, NEW f, NEW g, NEW h, SumsUp(f, g, S), SumsUp(h, g, T),
           NEW s \in SUBSET S, s \subseteq T
    PROVE  f[s] = h[s]
<1> DEFINE U == {t \in SUBSET S : t \subseteq T /\ f[t] # h[t]}
<1>1. SUFFICES ASSUME U # {} PROVE FALSE
  OBVIOUS
<1>2. PICK t \in U : \A u \in U : u \subseteq t => u = t
  <2>1. U \in SUBSET SUBSET S
    OBVIOUS
  <2> HIDE DEF U
  <2> QED
    BY <1>1, <2>1, LeastSubset
<1>3. t # {}
  BY <1>2, SumAt
<1> DEFINE x == AnyOf(t)
<1>4. x \in t
  BY <1>3, AnyOfIsIn
<1>5. f[t] = g[x] + f[t \ {x}] /\ h[t] = g[x] + h[t \ {x}]
  BY <1>2, <1>3, SumAt
<1>6. t \ {x} \notin U
  <2> HIDE DEF x
  <2> QED
    BY <1>2, <1>4
<1>7. f[t \ {x}] = h[t \ {x}]
  BY <1>2, <1>6
<1> QED
  BY <1>2, <1>5, <1>7

LEMMA SumExists ==
    ASSUME NEW S, IsFiniteSet(S), NEW g
    PROVE  \E f : SumsUp(f, g, S)
<1> DEFINE U == {t \in SUBSET S : ~ \E f : SumsUp(f, g, t)}
<1>1. SUFFICES ASSUME U # {} PROVE FALSE
  OBVIOUS
<1>2. PICK t \in U : \A u \in U : u \subseteq t => u = t
  <2>1. U \in SUBSET SUBSET S
    OBVIOUS
  <2> HIDE DEF U
  <2> QED
    BY <1>1, <2>1, LeastSubset
<1> DEFINE of(u) == CHOOSE f : SumsUp(f, g, u)
           f == [s \in SUBSET t |-> IF s = t THEN IF t = {} THEN 0 ELSE g[AnyOf(t)] + of(t \ {AnyOf(t)})[t \ {AnyOf(t)}]
                                    ELSE of(s)[s]]
<1>3. ASSUME NEW u \in SUBSET t, u # t
      PROVE  SumsUp(of(u), g, u)
  BY <1>2, <1>3
<1>4. \A u \in SUBSET t : IsFiniteSet(u)
  BY <1>2, FS_Subset
<1> HIDE DEF of
<1>5. ASSUME NEW s \in SUBSET t
      PROVE  f[s] = IF s = {} THEN 0 ELSE g[AnyOf(s)] + f[s \ {AnyOf(s)}]
  <2>1. s # {} => AnyOf(s) \in s /\ s \ {AnyOf(s)} \in SUBSET t /\ s \ {AnyOf(s)} # t
    BY AnyOfIsIn
  <2>2. s # {} => f[s \ {AnyOf(s)}] = of(s \ {AnyOf(s)})[s \ {AnyOf(s)}]
    BY <2>1
  <2>3. CASE s = t
    BY <2>2, <2>3
  <2>4. CASE s # t
    <3>1. SumsUp(of(s), g, s) /\ f[s] = of(s)[s]
      BY <1>3, <2>4
    <3>2. s = {} => f[s] = 0
      BY <3>1, SumAt
    <3>3. ASSUME s # {}
          PROVE  f[s] = g[AnyOf(s)] + f[s \ {AnyOf(s)}]
      <4>1. of(s)[s] = g[AnyOf(s)] + of(s)[s \ {AnyOf(s)}]
        BY <3>1, <3>3, SumAt
      <4>2. SumsUp(of(s \ {AnyOf(s)}), g, s \ {AnyOf(s)})
        BY <1>3, <2>1, <3>3
      <4>3. of(s)[s \ {AnyOf(s)}] = of(s \ {AnyOf(s)})[s \ {AnyOf(s)}]
        <5>1. IsFiniteSet(s) /\ s \ {AnyOf(s)} \in SUBSET s
          BY <1>4
        <5> HIDE DEF f
        <5> QED
          BY <3>1, <4>2, <5>1, SumIsSame
      <4> QED
        BY <2>2, <3>1, <3>3, <4>1, <4>3
    <3> QED
      BY <3>2, <3>3
  <2> QED
    BY <2>3, <2>4
<1>6. f = [s \in SUBSET t |-> f[s]]
  OBVIOUS
<1>7. SumsUp(f, g, t)
  <2> HIDE DEF f
  <2> QED
    BY <1>5, <1>6 DEF SumsUp
<1> QED
  BY <1>2, <1>7

LEMMA SumIsNumber ==
    ASSUME NEW S, IsFiniteSet(S), NEW f, NEW g, SumsUp(f, g, S),
           NEW N, 0 \in N, \A a \in N, b \in N : a + b \in N, \A x \in S : g[x] \in N
    PROVE  \A s \in SUBSET S : f[s] \in N
<1> DEFINE U == {t \in SUBSET S : f[t] \notin N}
<1>1. SUFFICES ASSUME U # {} PROVE FALSE
  OBVIOUS
<1>2. PICK t \in U : \A u \in U : u \subseteq t => u = t
  <2>1. U \in SUBSET SUBSET S
    OBVIOUS
  <2> HIDE DEF U
  <2> QED
    BY <1>1, <2>1, LeastSubset
<1>3. t # {}
  BY SMTT(30), <1>2, SumAt
<1> DEFINE x == AnyOf(t)
<1>4. x \in t
  BY <1>3, AnyOfIsIn
<1>5. f[t] = g[x] + f[t \ {x}]
  BY <1>2, <1>3, SumAt
<1> HIDE DEF x
<1>6. f[t \ {x}] \in N
  BY <1>2, <1>4
<1> QED
  BY <1>2, <1>4, <1>5, <1>6

LEMMA SumFromAny ==
    ASSUME NEW S, IsFiniteSet(S), NEW f, NEW g, SumsUp(f, g, S), \A x \in S : g[x] \in Int
    PROVE  \A s \in SUBSET S : \A x \in s : f[s] = g[x] + f[s \ {x}]
<1> DEFINE U == {t \in SUBSET S : \E x \in t : f[t] # g[x] + f[t \ {x}]}
<1>1. SUFFICES ASSUME U # {} PROVE FALSE
  OBVIOUS
<1>2. PICK t \in U : \A u \in U : u \subseteq t => u = t
  <2>1. U \in SUBSET SUBSET S
    OBVIOUS
  <2> HIDE DEF U
  <2> QED
    BY <1>1, <2>1, LeastSubset
<1>3. PICK x \in t : f[t] # g[x] + f[t \ {x}]
  BY <1>2
<1> DEFINE c == AnyOf(t)
           u == t \ {x}
           v == t \ {c}
<1>4. c \in t /\ f[t] = g[c] + f[v]
  BY <1>2, <1>3, SumAt, AnyOfIsIn
<1> HIDE DEF c
<1>5. c # x
  BY <1>3, <1>4
<1>6. u \in SUBSET S /\ v \in SUBSET S /\ u \notin U /\ v \notin U /\ c \in u /\ x \in v
  BY <1>2, <1>3, <1>4, <1>5
<1>7. f[u] = g[c] + f[u \ {c}] /\ f[v] = g[x] + f[v \ {x}]
  BY <1>6
<1>8. u \ {c} = v \ {x} /\ u \ {c} \in SUBSET S
  BY <1>2
<1>9. f[u \ {c}] \in Int /\ g[c] \in Int /\ g[x] \in Int
  BY <1>2, <1>4, <1>8, SumIsNumber
<1> DEFINE w == u \ {c}
<1>10. f[t] = g[c] + (g[x] + f[w]) /\ f[u] = g[c] + f[w]
  BY <1>4, <1>7, <1>8
<1> HIDE DEF u, v, w
<1>11. f[t] = g[x] + f[u]
  <2>1. f[w] \in Int
    BY <1>9 DEF w
  <2> QED
    BY <1>9, <1>10, <2>1
<1> QED
  BY <1>3, <1>11 DEF u

\* The sum of g over S.
Total(g, S) == (CHOOSE f : SumsUp(f, g, S))[S]

LEMMA TotalIs ==
    ASSUME NEW S, IsFiniteSet(S), NEW g, NEW f, SumsUp(f, g, S), NEW T \in SUBSET S
    PROVE  f[T] = Total(g, T)
<1>1. IsFiniteSet(T)
  BY FS_Subset
<1> DEFINE h == CHOOSE k : SumsUp(k, g, T)
<1>2. SumsUp(h, g, T)
  BY <1>1, SumExists
<1> HIDE DEF h
<1>3. f[T] = h[T]
  BY <1>2, SumIsSame
<1> QED
  BY <1>3 DEF Total, h

LEMMA Totals ==
    ASSUME NEW S, IsFiniteSet(S), NEW g, \A x \in S : g[x] \in Int
    PROVE  /\ Total(g, {}) = 0
           /\ \A T \in SUBSET S : Total(g, T) \in Int
           /\ (\A x \in S : g[x] \in Nat) => \A T \in SUBSET S : Total(g, T) \in Nat
           /\ \A T \in SUBSET S : \A x \in T : Total(g, T) = g[x] + Total(g, T \ {x})
<1>1. PICK f : SumsUp(f, g, S)
  BY SumExists
<1>2. \A T \in SUBSET S : f[T] = Total(g, T)
  BY <1>1, TotalIs
<1>3. \A T \in SUBSET S : f[T] \in Int
  <2>1. 0 \in Int /\ \A a \in Int, b \in Int : a + b \in Int
    OBVIOUS
  <2> QED
    BY <1>1, <2>1, SumIsNumber
<1>4. (\A x \in S : g[x] \in Nat) => \A T \in SUBSET S : f[T] \in Nat
  <2>1. 0 \in Nat /\ \A a \in Nat, b \in Nat : a + b \in Nat
    OBVIOUS
  <2> QED
    BY <1>1, <2>1, SumIsNumber
<1>5. ASSUME NEW T \in SUBSET S, NEW x \in T
      PROVE  f[T] = g[x] + f[T \ {x}]
  BY <1>1, SumFromAny
<1>6. f[{}] = 0
  BY <1>1, SumAt
<1>7. \A T \in SUBSET S : \A x \in T : T \ {x} \in SUBSET S
  OBVIOUS
<1> QED
  BY <1>2, <1>3, <1>4, <1>5, <1>6, <1>7

\* What is left when some are taken out one by one.
LEMMA TotalWithout ==
    ASSUME NEW S, IsFiniteSet(S), NEW g, \A x \in S : g[x] \in Int, NEW T, NEW x \in S, x \notin T, T \subseteq S
    PROVE  Total(g, T \cup {x}) = g[x] + Total(g, T)
<1>1. T \cup {x} \in SUBSET S /\ (T \cup {x}) \ {x} = T
  OBVIOUS
<1> QED
  BY <1>1, Totals

\* The sum of the sizes of partitions.
LEMMA SizesTotal ==
    ASSUME NEW S, IsFiniteSet(S), NEW g, \A p \in S : g[p] = p.size
    PROVE  MapThenSumSet(LAMBDA p : p.size, S) = Total(g, S)
<1> DEFINE F(f) == [s \in SUBSET S |-> IF s = {} THEN 0
                                       ELSE (CHOOSE x \in s : TRUE).size + f[s \ {CHOOSE x \in s : TRUE}]]
           H(f) == [s \in SUBSET S |-> IF s = {} THEN 0 ELSE g[AnyOf(s)] + f[s \ {AnyOf(s)}]]
           h == CHOOSE f : f = F(f)
<1>1. MapThenSumSet(LAMBDA p : p.size, S) = h[S]
  BY DEF MapThenSumSet, MapThenFoldSet
<1>2. ASSUME NEW f
      PROVE  F(f) = H(f)
  <2>1. \A s \in SUBSET S : s # {} => AnyOf(s) \in S /\ g[AnyOf(s)] = (CHOOSE x \in s : TRUE).size
    BY AnyOfIsIn DEF AnyOf
  <2> QED
    BY <2>1 DEF AnyOf
<1>3. PICK f : SumsUp(f, g, S)
  BY SumExists
<1>4. f = F(f)
  BY <1>2, <1>3 DEF SumsUp
<1>5. h = F(h)
  <2> HIDE DEF F
  <2> QED
    BY <1>4
<1> HIDE DEF F
<1>6. h = H(h)
  BY <1>2, <1>5
<1> HIDE DEF h
<1>7. SumsUp(h, g, S)
  BY <1>6 DEF SumsUp
<1>8. h[S] = Total(g, S)
  BY <1>7, TotalIs
<1> QED
  BY <1>1, <1>8

-----------------------------------------------------------------------------
(***************************************************************************)
(* Space: the free space of a disk is what its partitions leave.           *)
(***************************************************************************)

\* Disks have different names, and no group has the name of a disk.
NamesDiffer ==
    /\ \A i, j \in DOMAIN Disks : Disks[i] = Disks[j] => i = j
    /\ VgNames \cap ToSet(Disks) = {}

\* What only the scan of a disk changes: partitions and the disks' free space.
OfDisks(x) == x[1] = "part" \/ \E d \in ToSet(Disks) : x = Freespace(d)

\* An extent of a group that is free, if it is not the group's free space.
Loose(G, x) == x \in DOMAIN G.ext /\ G.ext[x].pool \in VgNames /\ x # Freespace(G.ext[x].pool) /\ ~Based(G, x)

\* From G to H nothing happens to what is of the disks, and no extent of a
\* group gets loose, except those in S.
Spares(G, H, S) ==
    /\ IsShaped(H) /\ G.based \subseteq H.based
    /\ \A x : OfDisks(x) => /\ x \in DOMAIN H.ext <=> x \in DOMAIN G.ext
                            /\ x \in DOMAIN G.ext => H.ext[x].size = G.ext[x].size
    /\ \A x : Loose(H, x) => Loose(G, x) \/ x \in S

LEMMA SparesTransitive ==
    ASSUME NEW G, NEW H, NEW K, NEW S, Spares(G, H, S), Spares(H, K, S)
    PROVE  Spares(G, K, S)
  BY DEF Spares

LEMMA SparesItself ==
    ASSUME NEW G, IsShaped(G)
    PROVE  Spares(G, G, {})
  BY DEF Spares

LEMMA SparesMore ==
    ASSUME NEW G, NEW H, NEW S, Spares(G, H, {})
    PROVE  Spares(G, H, S)
  BY DEF Spares

LEMMA SparesIsShaped ==
    ASSUME NEW G, NEW H, NEW S, Spares(G, H, S)
    PROVE  IsShaped(H) /\ \A x : Based(G, x) => Based(H, x)
  BY DEF Spares, Based

\* Once they are based, they are not loose.
LEMMA SparesAll ==
    ASSUME NEW G, NEW H, NEW x, Spares(G, H, {x}), Based(H, x)
    PROVE  Spares(G, H, {})
  BY DEF Spares, Loose

\* What changes no more than pools, capabilities and volumes.
LEMMA SameExtentsSpare ==
    ASSUME NEW G, IsShaped(G), NEW H, DOMAIN H = DOMAIN G, H.ext = G.ext, H.based = G.based
    PROVE  Spares(G, H, {})
  BY DEF Spares, IsShaped, Loose, Based

LEMMA PoolsSpare ==
    ASSUME NEW G, IsShaped(G), NEW p, NEW q, NEW total, NEW remaining, NEW cap, NEW bytes
    PROVE  /\ Spares(G, PoolAlloc(G, p, total, remaining, cap), {})
           /\ Spares(G, PoolCreateAllocFromAssociation(G, p, q, bytes), {})
           /\ Spares(G, PoolModifyAllocFromAssociation(G, p, q, bytes), {})
           /\ Spares(G, Take(G, p, bytes), {})
<1>1. \A H \in {PoolAlloc(G, p, total, remaining, cap), PoolCreateAllocFromAssociation(G, p, q, bytes),
                PoolModifyAllocFromAssociation(G, p, q, bytes), Take(G, p, bytes)} :
          DOMAIN H = DOMAIN G /\ H.ext = G.ext /\ H.based = G.based
  BY DEF IsShaped, PoolAlloc, PoolCreateAllocFromAssociation, PoolModifyAllocFromAssociation, Take
<1> QED
  BY <1>1, SameExtentsSpare

LEMMA TakeMoreSpares ==
    ASSUME NEW G, IsShaped(G), NEW child, NEW p, NEW bytes
    PROVE  Spares(G, TakeMore(G, child, p, bytes), {})
<1> DEFINE from == ExtentGetPool(G, child)
           H == Take(G, from, bytes)
           K == PoolModifyAllocFromAssociation(H, from, p, bytes)
<1>0. TakeMore(G, child, p, bytes) = K
  BY DEF TakeMore
<1>1. Spares(G, H, {}) /\ IsShaped(H)
  BY PoolsSpare, SparesIsShaped
<1> HIDE DEF H, from
<1>2. Spares(H, K, {})
  BY <1>1, PoolsSpare
<1> HIDE DEF K
<1> QED
  BY <1>0, <1>1, <1>2, SparesTransitive

\* A new extent that is not of the disks.
LEMMA ExtentAllocSpares ==
    ASSUME NEW G, IsShaped(G), NEW x, ~OfDisks(x), NEW bytes, NEW p, NEW comp, NEW S,
           p \notin VgNames \/ x = Freespace(p) \/ x \in S
    PROVE  Spares(G, ExtentAlloc(G, x, bytes, p, comp), S)
<1> DEFINE e == [size |-> bytes, pool |-> p, composite |-> comp]
           H == ExtentAlloc(G, x, bytes, p, comp)
<1>1. H.ext = [y \in DOMAIN G.ext \cup {x} |-> IF y = x THEN e ELSE G.ext[y]]
  BY DEF ExtentAlloc, IsShaped, Added
<1>2. DOMAIN H = DOMAIN G /\ H.based = G.based
  BY DEF ExtentAlloc, IsShaped
<1> HIDE DEF H
<1>3. DOMAIN e = {"size", "pool", "composite"} /\ e.pool = p
  OBVIOUS
<1> HIDE DEF e
<1>4. IsShaped(H)
  BY <1>1, <1>2, <1>3 DEF IsShaped
<1>5. \A y : OfDisks(y) => y # x
  OBVIOUS
<1>6. \A y : Loose(H, y) => Loose(G, y) \/ y \in S
  BY <1>1, <1>2, <1>3 DEF Loose, Based
<1>7. Spares(G, H, S)
  BY <1>1, <1>2, <1>4, <1>5, <1>6 DEF Spares
<1> QED
  BY <1>7 DEF H

LEMMA BasedOnSpares ==
    ASSUME NEW G, IsShaped(G), NEW dep, NEW ant, NEW order,
           NEW H, H = ExtentCreateBasedOnAssociation(G, dep, ant, order)
    PROVE  Spares(G, H, {}) /\ Based(H, ant)
<1> DEFINE b == [dep |-> dep, ant |-> ant, order |-> order]
<1>1. DOMAIN H = DOMAIN G /\ H.based = G.based \cup {b} /\ H.ext = G.ext /\ b.ant = ant
  BY DEF ExtentCreateBasedOnAssociation, IsShaped
<1> HIDE DEF b
<1> QED
  BY <1>1 DEF Spares, IsShaped, Loose, Based

\* A RAID device becomes the extent of a group.
LEMMA AdoptSpares ==
    ASSUME NEW G, IsShaped(G), NEW x, NEW v
    PROVE  Spares(G, [G EXCEPT !.ext[x].pool = v], {x})
<1> DEFINE H == [G EXCEPT !.ext[x].pool = v]
<1>1. DOMAIN H = DOMAIN G /\ H.based = G.based /\ H.ext = [G.ext EXCEPT ![x].pool = v]
  BY DEF IsShaped
<1> HIDE DEF H
<1>2. DOMAIN H.ext = DOMAIN G.ext
  BY <1>1
<1>3. ASSUME NEW y \in DOMAIN H.ext
      PROVE  /\ DOMAIN H.ext[y] = DOMAIN G.ext[y] /\ H.ext[y].size = G.ext[y].size
             /\ y # x => H.ext[y] = G.ext[y]
  BY <1>1, <1>2 DEF IsShaped
<1> QED
  BY <1>1, <1>2, <1>3 DEF Spares, IsShaped, Loose, Based, H

LEMMA MarkSpares ==
    ASSUME NEW G, IsShaped(G), NEW x
    PROVE  Spares(G, [G EXCEPT !.ext[x].composite = TRUE], {})
<1> DEFINE H == [G EXCEPT !.ext[x].composite = TRUE]
<1>1. DOMAIN H = DOMAIN G /\ H.based = G.based /\ H.ext = [G.ext EXCEPT ![x].composite = TRUE]
  BY DEF IsShaped
<1> HIDE DEF H
<1>2. DOMAIN H.ext = DOMAIN G.ext
  BY <1>1
<1>3. ASSUME NEW y \in DOMAIN H.ext
      PROVE  DOMAIN H.ext[y] = DOMAIN G.ext[y] /\ H.ext[y].size = G.ext[y].size /\ H.ext[y].pool = G.ext[y].pool
  BY <1>1, <1>2 DEF IsShaped
<1> QED
  BY <1>1, <1>2, <1>3 DEF Spares, IsShaped, Loose, Based, H

\* Groups.
LEMMA GroupsAreNotOfDisks ==
    ASSUME NamesDiffer, NEW v \in VgNames
    PROVE  ~OfDisks(Composite(v)) /\ ~OfDisks(Freespace(v)) /\ \A n : ~OfDisks(Md(n))
  BY DEF NamesDiffer, OfDisks, Composite, Freespace, Md

LEMMA FirstOfContainerSpares ==
    ASSUME NamesDiffer, NEW G, IsShaped(G), NEW L, NEW child, NEW cap, NEW v \in VgNames
    PROVE  Spares(G, FirstOfContainer(G, L, child, cap, v), {})
<1> DEFINE total == SizeOfAll(L, L.vg[v].devs) \div OneKB
           free  == PeFree(L, v) \div OneKB
           one   == IsMd(child) /\ Len(L.vg[v].devs) = 1
           comp  == IF one THEN child ELSE Composite(v)
           mine  == IF IsJBOD(cap) THEN Cap(1, 0, 1, 0, FALSE) ELSE cap
           g1 == PoolAlloc(G, v, total, free, mine)
           h1 == ExtentAlloc(g1, comp, G.ext[child].size, v, FALSE)
           h2 == ExtentCreateBasedOnAssociation(h1, comp, child, 1)
           g2 == IF one THEN [g1 EXCEPT !.ext[child].pool = v] ELSE h2
           g3 == PoolCreateAllocFromAssociation(g2, ExtentGetPool(G, child), v, G.ext[child].size)
           h4 == ExtentAlloc(g3, Freespace(v), free, v, FALSE)
           g4 == ExtentCreateBasedOnAssociation(h4, Freespace(v), comp, 1)
<1>0. FirstOfContainer(G, L, child, cap, v) = g4
  BY DEF FirstOfContainer
<1>a. /\ ~OfDisks(Freespace(v)) /\ (one => comp = child) /\ (~one => ~OfDisks(comp))
  BY GroupsAreNotOfDisks
<1>1. Spares(G, g1, {}) /\ IsShaped(g1)
  BY PoolsSpare, SparesIsShaped
<1>2. one => Spares(g1, [g1 EXCEPT !.ext[child].pool = v], {comp})
  <2> HIDE DEF g1, one
  <2> QED
    BY <1>a, <1>1, AdoptSpares
<1> HIDE DEF g1, total, free, mine, comp
<1>3. ~one => Spares(g1, h1, {comp}) /\ IsShaped(h1)
  <2> SUFFICES ASSUME ~one PROVE Spares(g1, h1, {comp})
    BY SparesIsShaped
  <2> HIDE DEF one
  <2> QED
    BY <1>a, <1>1, ExtentAllocSpares
<1> HIDE DEF h1, one
<1>4. ~one => Spares(h1, h2, {comp})
  BY <1>3, BasedOnSpares, SparesMore
<1> HIDE DEF h2
<1>5. Spares(g1, g2, {comp}) /\ IsShaped(g2)
  <2>1. Spares(g1, g2, {comp})
    BY <1>2, <1>3, <1>4, SparesTransitive
  <2> QED
    BY <2>1, SparesIsShaped
<1> HIDE DEF g2
<1>6. Spares(g2, g3, {comp}) /\ IsShaped(g3)
  BY <1>5, PoolsSpare, SparesIsShaped, SparesMore
<1> HIDE DEF g3
<1>7. Spares(g3, h4, {comp}) /\ IsShaped(h4)
  <2>1. Spares(g3, h4, {comp})
    BY <1>a, <1>6, ExtentAllocSpares
  <2> QED
    BY <2>1, SparesIsShaped
<1> HIDE DEF h4
<1>8. Spares(h4, g4, {comp}) /\ Based(g4, comp)
  BY <1>7, BasedOnSpares, SparesMore
<1> HIDE DEF g4
<1>9. Spares(g2, g4, {comp})
  BY <1>6, <1>7, <1>8, SparesTransitive
<1>10. Spares(G, g4, {comp})
  BY <1>1, <1>5, <1>9, SparesTransitive, SparesMore
<1> QED
  BY <1>0, <1>8, <1>10, SparesAll

LEMMA NextOfContainerSpares ==
    ASSUME NEW G, IsShaped(G), NEW child, NEW v
    PROVE  Spares(G, NextOfContainer(G, child, v), {})
<1> DEFINE comp == Composite(v)
           g == PoolModifyAllocFromAssociation(G, ExtentGetPool(G, child), v, G.ext[child].size)
           h == ExtentCreateBasedOnAssociation(g, comp, child, NextOrder(G, comp))
           k == [h EXCEPT !.ext[comp].composite = TRUE]
<1>0. NextOfContainer(G, child, v) = k
  BY DEF NextOfContainer
<1>1. Spares(G, g, {}) /\ IsShaped(g)
  BY PoolsSpare, SparesIsShaped
<1> HIDE DEF g, comp
<1>2. Spares(g, h, {}) /\ IsShaped(h)
  BY <1>1, BasedOnSpares, SparesIsShaped
<1> HIDE DEF h
<1>3. Spares(h, k, {})
  BY <1>2, MarkSpares
<1> HIDE DEF k
<1> QED
  BY <1>0, <1>1, <1>2, <1>3, SparesTransitive

LEMMA ContainerSpares ==
    ASSUME NamesDiffer, NEW G, IsShaped(G), NEW L, NEW child, NEW cap, NEW v \in VgNames
    PROVE  Spares(G, ProcessContainer(G, L, child, cap, v), {})
<1> DEFINE g == IF v \in DOMAIN G.pool THEN NextOfContainer(G, child, v)
                ELSE FirstOfContainer(G, L, child, cap, v)
           comp == IF Composite(v) \in DOMAIN g.ext THEN Composite(v) ELSE child
           h == Take(g, ExtentGetPool(G, child), G.ext[child].size)
           k == ProcessVolumes(h, L, v, comp)
<1>0. ProcessContainer(G, L, child, cap, v) = k
  BY DEF ProcessContainer
<1>1. Spares(G, g, {}) /\ IsShaped(g)
  BY FirstOfContainerSpares, NextOfContainerSpares, SparesIsShaped
<1> HIDE DEF g, comp
<1>2. Spares(g, h, {}) /\ IsShaped(h)
  BY <1>1, PoolsSpare, SparesIsShaped
<1> HIDE DEF h
<1>3. DOMAIN k = DOMAIN h /\ k.ext = h.ext /\ k.based = h.based
  BY <1>2 DEF ProcessVolumes, IsShaped
<1> HIDE DEF k
<1>4. Spares(h, k, {})
  BY <1>2, <1>3, SameExtentsSpare
<1> QED
  BY <1>0, <1>1, <1>2, <1>4, SparesTransitive

\* RAID devices.
LEMMA RegionSpares ==
    ASSUME NEW G, IsShaped(G), NEW L, NEW child, NEW n, NEW bytes
    PROVE  /\ Spares(G, NewRegion(G, L, child, n, bytes), {})
           /\ Spares(G, NextMember(G, child, n), {})
<1> DEFINE h == ExtentAlloc(G, Md(n), Max({bytes, L.md[n].size}), NULL, TRUE)
<1>1. Spares(G, h, {}) /\ IsShaped(h)
  <2>1. ~OfDisks(Md(n)) /\ NULL \notin VgNames
    BY DiskAssumption DEF OfDisks, Md, Freespace
  <2>2. Spares(G, h, {})
    BY <2>1, ExtentAllocSpares
  <2> QED
    BY <2>2, SparesIsShaped
<1> HIDE DEF h
<1>2. Spares(h, ExtentCreateBasedOnAssociation(h, Md(n), child, 1), {})
  BY <1>1, BasedOnSpares
<1>3. Spares(G, NewRegion(G, L, child, n, bytes), {})
  BY <1>1, <1>2, SparesTransitive DEF NewRegion, h
<1> QED
  BY <1>3, BasedOnSpares DEF NextMember

LEMMA GroupIsNamed ==
    ASSUME NEW L, NEW x, VgsUsing(L, x) # {}
    PROVE  (CHOOSE v \in VgsUsing(L, x) : TRUE) \in VgNames
<1>1. VgsUsing(L, x) \subseteq VgNames
  BY DEF VgsUsing, VgsOf
<1>2. (CHOOSE v \in VgsUsing(L, x) : TRUE) \in VgsUsing(L, x)
  OBVIOUS
<1> QED
  BY <1>1, <1>2

LEMMA Raid0Spares ==
    ASSUME NamesDiffer, NEW G, IsShaped(G), NEW L, NEW child, NEW n
    PROVE  Spares(G, ProcessMDRaid0Region(G, L, child, n), {})
<1> DEFINE stripes  == Len(L.md[n].devs)
           mirrored == G.ext[child].composite
           cap  == IF mirrored THEN Cap(2, 1, stripes, 0, TRUE) ELSE Cap(1, 0, stripes, 0, FALSE)
           new  == NewRegion(G, L, child, n, stripes * G.ext[child].size)
           more == NextMember(G, child, n)
           taken == TakeMore(more, child, ExtentGetPool(more, OnlyDependent(more, Md(n))),
                             more.ext[Md(n)].size)
           held == ProcessContainer(new, L, Md(n), cap, GroupOn(L, n))
<1>1. \/ HasGroup(L, n) /\ ProcessMDRaid0Region(G, L, child, n) = held
      \/ ProcessMDRaid0Region(G, L, child, n) \in {new, taken, more}
  BY DEF ProcessMDRaid0Region
<1>2. Spares(G, new, {}) /\ Spares(G, more, {}) /\ IsShaped(new) /\ IsShaped(more)
  BY RegionSpares, SparesIsShaped
<1> HIDE DEF new, more, cap
<1>3. Spares(more, taken, {})
  BY <1>2, TakeMoreSpares
<1>4. HasGroup(L, n) => Spares(new, held, {})
  BY <1>2, ContainerSpares, GroupIsNamed DEF HasGroup, GroupOn
<1> HIDE DEF held, taken
<1>5. Spares(G, taken, {}) /\ (HasGroup(L, n) => Spares(G, held, {}))
  BY <1>2, <1>3, <1>4, SparesTransitive
<1> QED
  BY <1>1, <1>2, <1>5

LEMMA Raid5Spares ==
    ASSUME NamesDiffer, NEW G, IsShaped(G), NEW L, NEW child, NEW n
    PROVE  Spares(G, ProcessMDRaid5Region(G, L, child, n), {})
<1> DEFINE devs == Len(L.md[n].devs)
           new  == NewRegion(G, L, child, n, (devs - 1) * G.ext[child].size)
           held == ProcessContainer(new, L, Md(n), Cap(1, 1, devs, 2, TRUE), GroupOn(L, n))
           more == NextMember(G, child, n)
           taken == TakeMore(held, child, GroupOn(L, n), G.ext[child].size)
<1>1. ProcessMDRaid5Region(G, L, child, n)
        = IF RegionFound(G, n) THEN more ELSE IF HasGroup(L, n) THEN taken ELSE new
  BY DEF ProcessMDRaid5Region
<1>2. Spares(G, new, {}) /\ Spares(G, more, {}) /\ IsShaped(new)
  BY RegionSpares, SparesIsShaped
<1> HIDE DEF new, more, devs
<1>3. HasGroup(L, n) => Spares(new, held, {}) /\ IsShaped(held)
  BY <1>2, ContainerSpares, GroupIsNamed, SparesIsShaped DEF HasGroup, GroupOn
<1> HIDE DEF held
<1>4. HasGroup(L, n) => Spares(held, taken, {})
  BY <1>3, TakeMoreSpares
<1> HIDE DEF taken
<1>5. HasGroup(L, n) => Spares(G, taken, {})
  BY <1>2, <1>3, <1>4, SparesTransitive
<1> QED
  BY <1>1, <1>2, <1>5

LEMMA ManyMirrorsSpare ==
    ASSUME NEW G, IsShaped(G), NEW n
    PROVE  Spares(G, ManyMirrors(G, n), {})
<1>1. /\ DOMAIN ManyMirrors(G, n) = DOMAIN G
      /\ ManyMirrors(G, n).ext = G.ext /\ ManyMirrors(G, n).based = G.based
  BY DEF ManyMirrors, IsShaped
<1> QED
  BY <1>1, SameExtentsSpare

LEMMA Raid1Spares ==
    ASSUME NamesDiffer, NEW G, IsShaped(G), NEW L, NEW child, NEW n
    PROVE  Spares(G, ProcessMDRaid1Region(G, L, child, n), {})
<1> DEFINE x    == Md(n)
           new  == NewRegion(G, L, child, n, G.ext[child].size)
           more == NextMember(G, child, n)
           p    == IF more.ext[x].pool # NULL THEN more.ext[x].pool
                   ELSE IF NumDependents(more, x) = 1 THEN ExtentGetPool(more, OnlyDependent(more, x))
                   ELSE NULL
           taken == IF p # NULL THEN TakeMore(more, child, p, G.ext[child].size) ELSE more
           held == ProcessContainer(new, L, x, Cap(2, 1, 1, 0, TRUE), GroupOn(L, n))
           striped == ProcessMDRaid0Region(new, L, x, CHOOSE m \in MdsUsing(L, x) : TRUE)
<1>1. ProcessMDRaid1Region(G, L, child, n)
        = IF RegionFound(G, n) THEN ManyMirrors(taken, n)
          ELSE IF HasGroup(L, n) THEN held
          ELSE IF MdsUsing(L, x) # {} THEN striped ELSE new
  BY DEF ProcessMDRaid1Region
<1>2. Spares(G, new, {}) /\ Spares(G, more, {}) /\ IsShaped(new) /\ IsShaped(more)
  BY RegionSpares, SparesIsShaped
<1> HIDE DEF new, more, p, x
<1>3. Spares(G, taken, {}) /\ IsShaped(taken)
  BY <1>2, TakeMoreSpares, SparesIsShaped, SparesTransitive
<1> HIDE DEF taken
<1>4. Spares(G, ManyMirrors(taken, n), {})
  BY <1>3, ManyMirrorsSpare, SparesTransitive
<1>5. HasGroup(L, n) => Spares(new, held, {})
  BY <1>2, ContainerSpares, GroupIsNamed DEF HasGroup, GroupOn
<1>6. Spares(new, striped, {})
  BY <1>2, Raid0Spares
<1> HIDE DEF held, striped
<1>7. Spares(G, striped, {}) /\ (HasGroup(L, n) => Spares(G, held, {}))
  BY <1>2, <1>5, <1>6, SparesTransitive
<1> QED
  BY <1>1, <1>2, <1>4, <1>7

LEMMA ProcessRegionSpares ==
    ASSUME NamesDiffer, NEW G, IsShaped(G), NEW L, LevelsOK(L), NEW child, NEW n \in MdsOf(L)
    PROVE  Spares(G, ProcessRegion(G, L, child, n), {})
  BY Raid0Spares, Raid1Spares, Raid5Spares DEF ProcessRegion, LevelsOK

\* What the partitions of a disk take of it.
Taken(L, d) == MapThenSumSet(LAMBDA p : p.size, PartsOn(L, d))
SizesOK(L) == \A p \in L.part : p.start \in Nat /\ p.size \in Nat

\* An extent of a partition appears, and perhaps those of what is built on it.
LEMMA NewPartSpares ==
    ASSUME NamesDiffer, NEW G, IsShaped(G), NEW L, LevelsOK(L), NEW disk, NEW p,
           NEW H, H = LET x == Part(p)
                          g1 == ExtentCreateBasedOnAssociation(ExtentAlloc(G, x, p.size, NULL, FALSE), x, Disk(disk), 1)
                      IN  IF VgsUsing(L, x) # {}
                          THEN ProcessContainer(g1, L, x, G.pool[Primordial].cap, CHOOSE v \in VgsUsing(L, x) : TRUE)
                          ELSE ProcessRegion(g1, L, x, CHOOSE n \in MdsUsing(L, x) : TRUE),
           InUse(L, Part(p))
    PROVE  /\ IsShaped(H) /\ G.based \subseteq H.based
           /\ \A x : x[1] = "part" /\ x \in DOMAIN H.ext => x \in DOMAIN G.ext \/ x = Part(p)
           /\ \A d \in ToSet(Disks) :
                  /\ Freespace(d) \in DOMAIN H.ext <=> Freespace(d) \in DOMAIN G.ext
                  /\ Freespace(d) \in DOMAIN G.ext => H.ext[Freespace(d)].size = G.ext[Freespace(d)].size
           /\ \A x : Loose(H, x) => Loose(G, x)
<1> DEFINE x == Part(p)
           e == [size |-> p.size, pool |-> NULL, composite |-> FALSE]
           h == ExtentAlloc(G, x, p.size, NULL, FALSE)
           g1 == ExtentCreateBasedOnAssociation(h, x, Disk(disk), 1)
           group == ProcessContainer(g1, L, x, G.pool[Primordial].cap, CHOOSE v \in VgsUsing(L, x) : TRUE)
           region == ProcessRegion(g1, L, x, CHOOSE n \in MdsUsing(L, x) : TRUE)
<1>0. H = IF VgsUsing(L, x) # {} THEN group ELSE region
  OBVIOUS
<1>1. h.ext = [y \in DOMAIN G.ext \cup {x} |-> IF y = x THEN e ELSE G.ext[y]]
  BY DEF ExtentAlloc, IsShaped, Added
<1>2. DOMAIN h = DOMAIN G /\ h.based = G.based
  BY DEF ExtentAlloc, IsShaped
<1>3. /\ DOMAIN e = {"size", "pool", "composite"} /\ e.pool = NULL /\ NULL \notin VgNames
      /\ \A y : x # Freespace(y)
  BY DiskAssumption DEF Part, Freespace
<1>a. InUse(L, x)
  OBVIOUS
<1>b. H = IF VgsUsing(L, x) # {} THEN group ELSE region
  BY <1>0
<1> HIDE DEF h, e, x
<1>4. IsShaped(h) /\ \A y : Loose(h, y) => Loose(G, y)
  <2>1. IsShaped(h)
    BY <1>1, <1>2, <1>3 DEF IsShaped
  <2> QED
    BY <1>1, <1>2, <1>3, <2>1 DEF Loose, Based
<1>5. Spares(h, g1, {}) /\ IsShaped(g1)
  BY <1>4, BasedOnSpares, SparesIsShaped
<1> HIDE DEF g1
<1>6. VgsUsing(L, x) # {} => Spares(g1, group, {})
  BY <1>5, ContainerSpares, GroupIsNamed
<1>7. MdsUsing(L, x) # {} => Spares(g1, region, {})
  <2>1. MdsUsing(L, x) \subseteq MdsOf(L)
    BY DEF MdsUsing
  <2> QED
    BY <1>5, <2>1, ProcessRegionSpares
<1> HIDE DEF group, region
<1>8. Spares(g1, H, {})
  BY <1>a, <1>b, <1>6, <1>7 DEF InUse
<1>9. Spares(h, H, {})
  BY <1>5, <1>8, SparesTransitive
<1>10. \A y : y[1] = "part" => OfDisks(y)
  BY DEF OfDisks
<1>11. \A d \in ToSet(Disks) : OfDisks(Freespace(d))
  BY DEF OfDisks
<1>12. ASSUME NEW y, y[1] = "part", y \in DOMAIN H.ext
       PROVE  y \in DOMAIN G.ext \/ y = Part(p)
  BY <1>1, <1>9, <1>10, <1>12 DEF Spares, x
<1>13. ASSUME NEW d \in ToSet(Disks)
       PROVE  /\ Freespace(d) \in DOMAIN H.ext <=> Freespace(d) \in DOMAIN G.ext
              /\ Freespace(d) \in DOMAIN G.ext => H.ext[Freespace(d)].size = G.ext[Freespace(d)].size
  <2>1. Freespace(d) \in DOMAIN h.ext <=> Freespace(d) \in DOMAIN G.ext
    BY <1>1, <1>3
  <2>2. Freespace(d) \in DOMAIN G.ext => h.ext[Freespace(d)] = G.ext[Freespace(d)]
    BY <1>1, <1>3
  <2> QED
    BY <1>9, <1>11, <2>1, <2>2 DEF Spares
<1>14. \A y : Loose(H, y) => Loose(G, y)
  BY <1>4, <1>9 DEF Spares
<1>15. IsShaped(H) /\ G.based \subseteq H.based
  BY <1>2, <1>9 DEF Spares
<1> QED
  BY <1>12, <1>13, <1>14, <1>15

\* A partition leaves the free space of its disk by its size.
LEMMA ProcessPartitionSpares ==
    ASSUME NamesDiffer, NEW G, IsShaped(G), NEW L, LevelsOK(L), NEW disk, NEW p, Part(p) \notin DOMAIN G.ext,
           Freespace(disk) \in DOMAIN G.ext,
           NEW H, H = ProcessPartition(G, L, disk, p)
    PROVE  /\ IsShaped(H) /\ G.based \subseteq H.based
           /\ \A x : x[1] = "part" /\ x \in DOMAIN H.ext => x \in DOMAIN G.ext \/ x = Part(p)
           /\ \A d \in ToSet(Disks) :
                  /\ Freespace(d) \in DOMAIN H.ext <=> Freespace(d) \in DOMAIN G.ext
                  /\ d # disk /\ Freespace(d) \in DOMAIN G.ext =>
                         H.ext[Freespace(d)].size = G.ext[Freespace(d)].size
           /\ disk \in ToSet(Disks) => H.ext[Freespace(disk)].size = G.ext[Freespace(disk)].size - p.size
           /\ \A x : Loose(H, x) => Loose(G, x)
<1> DEFINE x == Part(p)
           g1 == ExtentCreateBasedOnAssociation(ExtentAlloc(G, x, p.size, NULL, FALSE), x, Disk(disk), 1)
           g2 == IF VgsUsing(L, x) # {}
                 THEN ProcessContainer(g1, L, x, G.pool[Primordial].cap, CHOOSE v \in VgsUsing(L, x) : TRUE)
                 ELSE ProcessRegion(g1, L, x, CHOOSE n \in MdsUsing(L, x) : TRUE)
           g3 == IF InUse(L, x) THEN g2 ELSE Take(G, Primordial, p.size)
           f == Freespace(disk)
           Near(K) == /\ IsShaped(K) /\ G.based \subseteq K.based
                      /\ \A y : y[1] = "part" /\ y \in DOMAIN K.ext => y \in DOMAIN G.ext \/ y = Part(p)
                      /\ \A d \in ToSet(Disks) :
                             /\ Freespace(d) \in DOMAIN K.ext <=> Freespace(d) \in DOMAIN G.ext
                             /\ Freespace(d) \in DOMAIN G.ext => K.ext[Freespace(d)].size = G.ext[Freespace(d)].size
                      /\ \A y : Loose(K, y) => Loose(G, y)
<1>0. H = [g3 EXCEPT !.ext[f].size = @ - p.size]
  BY DEF ProcessPartition
<1>1. InUse(L, x) => Near(g2)
  <2> SUFFICES ASSUME InUse(L, Part(p)) PROVE Near(g2)
    OBVIOUS
  <2> HIDE DEF Near
  <2>1. \A K : K = g2 => Near(K)
    BY NewPartSpares DEF Near
  <2> HIDE DEF g2
  <2> QED
    BY <2>1
<1>2. Near(Take(G, Primordial, p.size))
  <2> DEFINE K == Take(G, Primordial, p.size)
  <2>1. DOMAIN K = DOMAIN G /\ K.ext = G.ext /\ K.based = G.based
    BY DEF Take, IsShaped
  <2> HIDE DEF K
  <2>2. IsShaped(K) /\ \A y : Loose(K, y) => Loose(G, y)
    BY <2>1 DEF IsShaped, Loose, Based
  <2>3. Near(K)
    BY <2>1, <2>2
  <2> QED
    BY <2>3 DEF K
<1> HIDE DEF g2, Near
<1>3. Near(g3)
  BY <1>1, <1>2
<1> HIDE DEF g3, x
<1>4. /\ DOMAIN H = DOMAIN g3 /\ H.based = g3.based
      /\ H.ext = [g3.ext EXCEPT ![f].size = @ - p.size]
  BY <1>0, <1>3 DEF Near, IsShaped
<1>5. DOMAIN H.ext = DOMAIN g3.ext
  BY <1>4
<1>6. ASSUME NEW y \in DOMAIN H.ext
      PROVE  /\ DOMAIN H.ext[y] = DOMAIN g3.ext[y] /\ H.ext[y].pool = g3.ext[y].pool
             /\ y # f => H.ext[y] = g3.ext[y]
             /\ y = f => H.ext[y].size = g3.ext[y].size - p.size
  BY <1>3, <1>4, <1>5 DEF Near, IsShaped
<1>7. IsShaped(H)
  BY <1>3, <1>4, <1>5, <1>6 DEF Near, IsShaped
<1>8. \A y : Loose(H, y) => Loose(G, y)
  BY <1>3, <1>4, <1>5, <1>6 DEF Near, Loose, Based
<1>9. ASSUME NEW d \in ToSet(Disks)
      PROVE  /\ Freespace(d) \in DOMAIN H.ext <=> Freespace(d) \in DOMAIN G.ext
             /\ d # disk /\ Freespace(d) \in DOMAIN G.ext =>
                    H.ext[Freespace(d)].size = G.ext[Freespace(d)].size
  <2>1. d # disk => Freespace(d) # f
    BY DEF Freespace
  <2> HIDE DEF f
  <2> QED
    BY <1>3, <1>5, <1>6, <2>1 DEF Near
<1>10. disk \in ToSet(Disks) => H.ext[f].size = G.ext[f].size - p.size
  BY <1>3, <1>5, <1>6 DEF Near
<1>11. \A y : y[1] = "part" /\ y \in DOMAIN H.ext => y \in DOMAIN G.ext \/ y = Part(p)
  BY <1>3, <1>5 DEF Near
<1> QED
  BY <1>3, <1>4, <1>7, <1>8, <1>9, <1>10, <1>11 DEF Near

\* All of them leave what is free.
LEMMA ScanPartitionsSpares ==
    ASSUME NamesDiffer, NEW G, IsShaped(G), NEW L, LevelsOK(L), IsFiniteSet(L.part), NumsOK(L), SizesOK(L),
           NEW disk \in ToSet(Disks), Freespace(disk) \in DOMAIN G.ext,
           G.ext[Freespace(disk)].size = DiskSize,
           \A x \in DOMAIN G.ext : x[1] = "part" => x[2] # disk,
           NEW H, H = ScanPartitions(G, L, disk)
    PROVE  /\ IsShaped(H) /\ G.based \subseteq H.based
           /\ \A x : x[1] = "part" /\ x \in DOMAIN H.ext => x \in DOMAIN G.ext \/ x[2] = disk
           /\ \A d \in ToSet(Disks) :
                  /\ Freespace(d) \in DOMAIN H.ext <=> Freespace(d) \in DOMAIN G.ext
                  /\ d # disk /\ Freespace(d) \in DOMAIN G.ext =>
                         H.ext[Freespace(d)].size = G.ext[Freespace(d)].size
           /\ H.ext[Freespace(disk)].size = DiskSize - Taken(L, disk)
           /\ \A x : Loose(H, x) => Loose(G, x)
<1> DEFINE S == PartsOn(L, disk)
           N == Cardinality(S)
           F(x, i) == ProcessPartition(x, L, disk, PartitionAt(L, disk, i))
           a == CHOOSE g : g = [i \in 0..N |-> IF i = 0 THEN G ELSE F(g[i - 1], i)]
           size == [p \in S |-> p.size]
           P(k) == {PartitionAt(L, disk, i) : i \in 1..k}
           ok(k) == /\ IsShaped(a[k]) /\ G.based \subseteq a[k].based
                    /\ \A x : x[1] = "part" /\ x \in DOMAIN a[k].ext =>
                           x \in DOMAIN G.ext \/ \E p \in P(k) : x = Part(p)
                    /\ \A d \in ToSet(Disks) :
                           /\ Freespace(d) \in DOMAIN a[k].ext <=> Freespace(d) \in DOMAIN G.ext
                           /\ d # disk /\ Freespace(d) \in DOMAIN G.ext =>
                                  a[k].ext[Freespace(d)].size = G.ext[Freespace(d)].size
                    /\ a[k].ext[Freespace(disk)].size = DiskSize - Total(size, P(k))
                    /\ \A x : Loose(a[k], x) => Loose(G, x)
           T == {n \in 0..N : ~ok(n)}
<1>1. /\ IsFiniteSet(S) /\ N \in Nat
      /\ \A k \in 1..N : PartitionAt(L, disk, k) \in S
      /\ \A j \in 1..N : \A k \in 1..N : PartitionAt(L, disk, j) = PartitionAt(L, disk, k) => j = k
      /\ \A p \in S : \E k \in 1..N : PartitionAt(L, disk, k) = p
  BY PartitionsInPlace
<1>2. H = a[N]
  BY DEF ScanPartitions, Through
<1>3. S \subseteq L.part /\ \A p \in S : p.disk = disk /\ p.size \in Nat /\ size[p] = p.size
  BY DEF PartsOn, SizesOK
<1>4. \A p, q \in S : Part(p) = Part(q) => p = q
  BY <1>3 DEF NumsOK, Part
<1>5. Taken(L, disk) = Total(size, S)
  <2>1. \A p \in S : size[p] = p.size
    OBVIOUS
  <2> HIDE DEF S, size
  <2>2. MapThenSumSet(LAMBDA p : p.size, S) = Total(size, S)
    BY <1>1, <2>1, SizesTotal
  <2> QED
    BY <2>2 DEF Taken, S
<1>6. \A p \in S : Part(p)[1] = "part" /\ Part(p)[2] = disk
  BY <1>3 DEF Part
<1> HIDE DEF N, S, size
<1>a. N \in Nat
  BY <1>1
<1>7. a = [i \in 0..N |-> IF i = 0 THEN G ELSE F(a[i - 1], i)]
  BY <1>a, PartitionsRecursion
<1> HIDE DEF a
<1>8. ok(0)
  <2>1. a[0] = G /\ P(0) = {}
    BY <1>1, <1>7
  <2>2. Total(size, {}) = 0
    BY <1>1, <1>3, Totals
  <2>3. DiskSize - 0 = DiskSize
    BY DiskAssumption
  <2> QED
    BY <2>1, <2>2, <2>3
<1>9. ASSUME NEW k \in 1..N, ok(k - 1)
      PROVE  ok(k)
  <2> DEFINE p == PartitionAt(L, disk, k)
             g == a[k - 1]
             h == a[k]
             f == Freespace(disk)
  <2>1. p \in S /\ h = ProcessPartition(g, L, disk, p)
    BY <1>1, <1>7
  <2>2. P(k - 1) \subseteq S /\ p \notin P(k - 1) /\ P(k) = P(k - 1) \cup {p}
    <3>1. 1..k = 1..k - 1 \cup {k} /\ 1..k - 1 \subseteq 1..N /\ k \notin 1..k - 1
      BY <1>1
    <3> QED
      BY <1>1, <3>1
  <2> HIDE DEF P, p, h, F
  <2>3. /\ IsShaped(g) /\ G.based \subseteq g.based
        /\ \A x : x[1] = "part" /\ x \in DOMAIN g.ext => x \in DOMAIN G.ext \/ \E q \in P(k - 1) : x = Part(q)
        /\ \A d \in ToSet(Disks) :
               /\ Freespace(d) \in DOMAIN g.ext <=> Freespace(d) \in DOMAIN G.ext
               /\ d # disk /\ Freespace(d) \in DOMAIN G.ext =>
                      g.ext[Freespace(d)].size = G.ext[Freespace(d)].size
        /\ g.ext[f].size = DiskSize - Total(size, P(k - 1))
        /\ \A x : Loose(g, x) => Loose(G, x)
    BY <1>9
  <2> HIDE DEF g
  <2>4. Part(p) \notin DOMAIN g.ext /\ f \in DOMAIN g.ext
    BY <1>4, <1>6, <2>1, <2>2, <2>3
  <2> HIDE DEF f
  <2>5. /\ IsShaped(h) /\ g.based \subseteq h.based
        /\ \A x : x[1] = "part" /\ x \in DOMAIN h.ext => x \in DOMAIN g.ext \/ x = Part(p)
        /\ \A d \in ToSet(Disks) :
               /\ Freespace(d) \in DOMAIN h.ext <=> Freespace(d) \in DOMAIN g.ext
               /\ d # disk /\ Freespace(d) \in DOMAIN g.ext =>
                      h.ext[Freespace(d)].size = g.ext[Freespace(d)].size
        /\ h.ext[f].size = g.ext[f].size - p.size
        /\ \A x : Loose(h, x) => Loose(g, x)
    BY <2>1, <2>3, <2>4, ProcessPartitionSpares DEF f
  <2>6. Total(size, P(k)) = size[p] + Total(size, P(k - 1)) /\ Total(size, P(k - 1)) \in Int
    BY <1>1, <1>3, <2>1, <2>2, TotalWithout, Totals
  <2>7. h.ext[f].size = DiskSize - Total(size, P(k))
    <3>1. size[p] = p.size /\ p.size \in Int /\ DiskSize \in Int
      BY <1>3, <2>1, DiskAssumption
    <3> QED
      BY <2>3, <2>5, <2>6, <3>1
  <2>8. \A x : x[1] = "part" /\ x \in DOMAIN h.ext => x \in DOMAIN G.ext \/ \E q \in P(k) : x = Part(q)
    BY <2>2, <2>3, <2>5
  <2>9. \A d \in ToSet(Disks) :
               /\ Freespace(d) \in DOMAIN h.ext <=> Freespace(d) \in DOMAIN G.ext
               /\ d # disk /\ Freespace(d) \in DOMAIN G.ext =>
                      h.ext[Freespace(d)].size = G.ext[Freespace(d)].size
    BY <2>3, <2>5
  <2> QED
    BY <2>3, <2>5, <2>7, <2>8, <2>9 DEF f, h
<1>10. P(N) = S
  BY <1>1
<1> HIDE DEF ok
<1>11. T = {}
  <2>1. SUFFICES ASSUME T # {} PROVE FALSE
    OBVIOUS
  <2>2. PICK n \in T : \A m \in T : n <= m
    <3>1. T \in SUBSET Nat
      BY <1>1
    <3> HIDE DEF T
    <3> QED
      BY <2>1, <3>1, LeastNumber
  <2>3. n # 0
    BY <1>8, <2>2
  <2>4. n \in 1..N /\ n - 1 \in 0..N /\ ~(n <= n - 1)
    BY <1>1, <2>2, <2>3
  <2> QED
    BY <1>9, <2>2, <2>4
<1>12. ok(N)
  BY <1>1, <1>11
<1> HIDE DEF P
<1>13. \A x : (\E p \in S : x = Part(p)) => x[2] = disk
  BY <1>6
<1> QED
  BY <1>2, <1>5, <1>10, <1>12, <1>13 DEF ok

\* The first k disks are behind the scan, and their free space is known.
Accounted(G, L, k) ==
    /\ IsShaped(G)
    /\ \A d \in ToSet(Disks) : Freespace(d) \in DOMAIN G.ext =>
           (\E i \in 1..k : d = Disks[i]) /\ G.ext[Freespace(d)].size = DiskSize - Taken(L, d)
    /\ \A x \in DOMAIN G.ext : x[1] = "part" => \E i \in 1..k : x[2] = Disks[i]
    /\ \A x : ~Loose(G, x)

LEMMA NothingIsAccounted ==
    ASSUME NEW L
    PROVE  Accounted(LoadPersistentStorageObjects, L, 0)
<1> DEFINE G == LoadPersistentStorageObjects
           S == {Disk(d) : d \in ToSet(Disks)}
           e == [size |-> 0, pool |-> Primordial, composite |-> FALSE]
<1>1. G.ext = [x \in S |-> e] /\ DOMAIN G = {"defined", "ext", "pool", "vol", "based", "alloc"}
  BY DEF LoadPersistentStorageObjects
<1>2. \A x \in S : x[1] = "disk"
  BY DEF Disk
<1>3. DOMAIN e = {"size", "pool", "composite"} /\ e.pool = Primordial /\ Primordial \notin VgNames
  BY ScanAssumption
<1>4. \A d : Freespace(d)[1] = "Freespace"
  BY DEF Freespace
<1> HIDE DEF G, S, e
<1>5. IsShaped(G)
  BY <1>1, <1>3 DEF IsShaped
<1>6. \A x : ~Loose(G, x)
  BY <1>1, <1>3 DEF Loose
<1>7. \A d : Freespace(d) \notin DOMAIN G.ext
  BY <1>1, <1>2, <1>4
<1>8. Accounted(G, L, 0)
  BY <1>1, <1>2, <1>5, <1>6, <1>7 DEF Accounted
<1> QED
  BY <1>8 DEF G

LEMMA NextIsAccounted ==
    ASSUME NamesDiffer, NEW L, LevelsOK(L), IsFiniteSet(L.part), NumsOK(L), SizesOK(L),
           NEW G, NEW k \in 1..Len(Disks), Accounted(G, L, k - 1)
    PROVE  Accounted(ScanDisk(G, L, Disks[k]), L, k)
<1> DEFINE disk == Disks[k]
           d == Disk(disk)
           f == Freespace(disk)
           g1 == [G EXCEPT !.ext[d].size = DiskSize, !.pool[Primordial].total = @ + DiskSize,
                           !.pool[Primordial].remaining = @ + DiskSize]
           e == [size |-> DiskSize, pool |-> Primordial, composite |-> FALSE]
           h == ExtentAlloc(g1, f, DiskSize, Primordial, FALSE)
           g2 == ExtentCreateBasedOnAssociation(h, f, d, 1)
           v == CHOOSE u \in VgsUsing(L, d) : TRUE
           group == ProcessContainer(g1, L, d, G.pool[Primordial].cap, v)
           parts == ScanPartitions(g2, L, disk)
           H == ScanDisk(G, L, disk)
<1>0. k \in 1..Len(Disks) /\ Len(Disks) \in Nat /\ \A i \in 1..k : i = k \/ i \in 1..k - 1
  BY DiskAssumption
<1>a. k \in DOMAIN Disks /\ disk \in ToSet(Disks) /\ \A i \in 1..k - 1 : Disks[i] # disk
  <2>1. DOMAIN Disks = 1..Len(Disks)
    BY DiskAssumption
  <2>2. \A i \in 1..k - 1 : i \in DOMAIN Disks /\ i # k
    BY <1>0, <2>1
  <2> QED
    BY <1>0, <2>1, <2>2 DEF ToSet, NamesDiffer
<1>b. \A c : Freespace(c)[1] = "Freespace" /\ Freespace(c)[2] = c
  BY DEF Freespace
<1>c. d[1] = "disk"
  BY DEF Disk
<1>1. H = IF VgsUsing(L, d) # {} THEN group ELSE parts
  BY DEF ScanDisk
<1>2. /\ DOMAIN g1 = DOMAIN G /\ g1.based = G.based
      /\ g1.ext = [G.ext EXCEPT ![d].size = DiskSize]
  BY DEF Accounted, IsShaped
<1> HIDE DEF g1, d
<1>3. DOMAIN g1.ext = DOMAIN G.ext
      /\ \A x \in DOMAIN G.ext : /\ DOMAIN g1.ext[x] = DOMAIN G.ext[x] /\ g1.ext[x].pool = G.ext[x].pool
                                 /\ x # d => g1.ext[x] = G.ext[x]
  BY <1>2 DEF Accounted, IsShaped
<1>4. Accounted(g1, L, k - 1)
  <2>1. IsShaped(g1)
    BY <1>2, <1>3 DEF Accounted, IsShaped
  <2>2. \A x : ~Loose(g1, x)
    BY <1>2, <1>3 DEF Accounted, Loose, Based
  <2>3. \A c \in ToSet(Disks) : Freespace(c) # d
    BY <1>b, <1>c
  <2>4. \A c \in ToSet(Disks) : Freespace(c) \in DOMAIN g1.ext =>
           (\E i \in 1..k - 1 : c = Disks[i]) /\ g1.ext[Freespace(c)].size = DiskSize - Taken(L, c)
    BY <1>3, <2>3 DEF Accounted
  <2>5. \A x \in DOMAIN g1.ext : x[1] = "part" => \E i \in 1..k - 1 : x[2] = Disks[i]
    BY <1>3 DEF Accounted
  <2> QED
    BY <2>1, <2>2, <2>4, <2>5 DEF Accounted
<1>5. CASE VgsUsing(L, d) # {}
  <2>1. Spares(g1, H, {})
    <3>1. v \in VgNames
      BY <1>5, GroupIsNamed
    <3> HIDE DEF v
    <3> QED
      BY <1>1, <1>4, <1>5, <3>1, ContainerSpares DEF Accounted
  <2> HIDE DEF H
  <2>2. IsShaped(H) /\ \A x : ~Loose(H, x)
    BY <1>4, <2>1 DEF Spares, Accounted
  <2>3. \A c \in ToSet(Disks) : Freespace(c) \in DOMAIN H.ext =>
           (\E i \in 1..k : c = Disks[i]) /\ H.ext[Freespace(c)].size = DiskSize - Taken(L, c)
    <3>1. \A c \in ToSet(Disks) : OfDisks(Freespace(c))
      BY DEF OfDisks
    <3> QED
      BY <1>0, <1>4, <2>1, <3>1 DEF Spares, Accounted
  <2>4. \A x \in DOMAIN H.ext : x[1] = "part" => \E i \in 1..k : x[2] = Disks[i]
    <3>1. \A x : x[1] = "part" => OfDisks(x)
      BY DEF OfDisks
    <3> QED
      BY <1>0, <1>4, <2>1, <3>1 DEF Spares, Accounted
  <2> QED
    BY <2>2, <2>3, <2>4 DEF Accounted, H
<1>6. CASE VgsUsing(L, d) = {}
  <2>1. /\ h.ext = [y \in DOMAIN g1.ext \cup {f} |-> IF y = f THEN e ELSE g1.ext[y]]
        /\ DOMAIN h = DOMAIN g1 /\ h.based = g1.based
    BY <1>4 DEF ExtentAlloc, Accounted, IsShaped, Added
  <2>2. DOMAIN e = {"size", "pool", "composite"} /\ e.pool = Primordial /\ e.size = DiskSize
        /\ Primordial \notin VgNames
    BY ScanAssumption
  <2>a. g2.ext = h.ext /\ \A x : Based(h, x) => Based(g2, x)
    <3>1. IsShaped(h)
      <4> HIDE DEF e, h
      <4> QED
        BY <1>4, <2>1, <2>2 DEF Accounted, IsShaped
    <3> QED
      BY <3>1 DEF ExtentCreateBasedOnAssociation, Based, IsShaped
  <2> HIDE DEF e, h
  <2>3. IsShaped(h) /\ \A x : ~Loose(h, x)
    BY <1>4, <2>1, <2>2 DEF Accounted, IsShaped, Loose, Based
  <2>4. Spares(h, g2, {}) /\ IsShaped(g2)
    BY <2>3, BasedOnSpares, SparesIsShaped
  <2>5. H = parts
    BY <1>1, <1>6
  <2> HIDE DEF g2, f, disk, H
  <2>6. f \in DOMAIN g2.ext /\ g2.ext[f].size = DiskSize
    BY <2>1, <2>2, <2>a
  <2>7. \A x \in DOMAIN g2.ext : x[1] = "part" => x[2] # disk /\ x \in DOMAIN g1.ext
    <3>1. f[1] = "Freespace"
      BY <1>b DEF f
    <3> QED
      BY <1>4, <1>a, <2>1, <2>a, <3>1 DEF Accounted
  <2>8. /\ IsShaped(H) /\ g2.based \subseteq H.based
        /\ \A x : x[1] = "part" /\ x \in DOMAIN H.ext => x \in DOMAIN g2.ext \/ x[2] = disk
        /\ \A c \in ToSet(Disks) :
               /\ Freespace(c) \in DOMAIN H.ext <=> Freespace(c) \in DOMAIN g2.ext
               /\ c # disk /\ Freespace(c) \in DOMAIN g2.ext =>
                      H.ext[Freespace(c)].size = g2.ext[Freespace(c)].size
        /\ H.ext[Freespace(disk)].size = DiskSize - Taken(L, disk)
        /\ \A x : Loose(H, x) => Loose(g2, x)
    BY <1>a, <2>4, <2>5, <2>6, <2>7, ScanPartitionsSpares DEF f
  <2>9. \A x : ~Loose(H, x)
    BY <2>3, <2>4, <2>8 DEF Spares
  <2>10. \A c \in ToSet(Disks) : Freespace(c) \in DOMAIN H.ext =>
             (\E i \in 1..k : c = Disks[i]) /\ H.ext[Freespace(c)].size = DiskSize - Taken(L, c)
    <3> SUFFICES ASSUME NEW c \in ToSet(Disks), Freespace(c) \in DOMAIN H.ext
                 PROVE  (\E i \in 1..k : c = Disks[i]) /\ H.ext[Freespace(c)].size = DiskSize - Taken(L, c)
      OBVIOUS
    <3>1. CASE c = disk
      BY <1>0, <2>8, <3>1 DEF disk
    <3>2. CASE c # disk
      <4>1. Freespace(c) # f
        BY <1>b, <3>2 DEF f
      <4>2. Freespace(c) \in DOMAIN g1.ext /\ H.ext[Freespace(c)].size = g1.ext[Freespace(c)].size
        <5>1. Freespace(c) \in DOMAIN g2.ext /\ H.ext[Freespace(c)].size = g2.ext[Freespace(c)].size
          BY <2>8, <3>2
        <5>2. Freespace(c) \in DOMAIN h.ext /\ g2.ext = h.ext
          BY <2>a, <5>1
        <5>3. Freespace(c) \in DOMAIN g1.ext /\ h.ext[Freespace(c)] = g1.ext[Freespace(c)]
          BY <2>1, <4>1, <5>2
        <5> QED
          BY <5>1, <5>2, <5>3
      <4> QED
        BY <1>0, <1>4, <4>2 DEF Accounted
    <3> QED
      BY <3>1, <3>2
  <2>11. \A x \in DOMAIN H.ext : x[1] = "part" => \E i \in 1..k : x[2] = Disks[i]
    <3>1. k \in 1..k
      BY <1>0
    <3> QED
      BY <1>0, <1>4, <2>7, <2>8, <3>1 DEF Accounted, disk
  <2> QED
    BY <2>8, <2>9, <2>10, <2>11 DEF Accounted, H, disk
<1> QED
  BY <1>5, <1>6

\* After a scan the free space of a disk is what its partitions leave, and the
\* only free extent of a group is its free space.
THEOREM SpaceAfterScan ==
    ASSUME NamesDiffer, NEW L, LevelsOK(L), IsFiniteSet(L.part), NumsOK(L), SizesOK(L),
           NEW G, G = SCSScanStorage(L)
    PROVE  /\ \A d \in ToSet(Disks) : Freespace(d) \in DOMAIN G.ext =>
                  G.ext[Freespace(d)].size = DiskSize - Taken(L, d)
           /\ \A x \in DOMAIN G.ext : G.ext[x].pool \in VgNames =>
                  x = Freespace(G.ext[x].pool) \/ Based(G, x)
<1> DEFINE F(x, i) == ScanDisk(x, L, Disks[i])
           N == Len(Disks)
           B == LoadPersistentStorageObjects
           a == CHOOSE g : g = [i \in 0..N |-> IF i = 0 THEN B ELSE F(g[i - 1], i)]
           T == {n \in 0..N : ~Accounted(a[n], L, n)}
           H == ScanDisks(L)
<1>1. N \in Nat
  BY DiskAssumption
<1>2. H = a[N]
  BY DEF ScanDisks, Through
<1> HIDE DEF B, H
<1>3. a = [i \in 0..N |-> IF i = 0 THEN B ELSE F(a[i - 1], i)]
  <2> HIDE DEF N
  <2> QED
    BY SMTT(40), <1>1, DisksRecursion DEF B
<1>4. \A k \in 1..N : \A x : Accounted(x, L, k - 1) => Accounted(F(x, k), L, k)
  BY NextIsAccounted
<1> HIDE DEF F, a, N
<1>5. T = {}
  <2>1. SUFFICES ASSUME T # {} PROVE FALSE
    OBVIOUS
  <2>2. PICK n \in T : \A m \in T : n <= m
    <3>1. T \in SUBSET Nat
      BY <1>1
    <3> HIDE DEF T
    <3> QED
      BY <2>1, <3>1, LeastNumber
  <2>3. n # 0
    BY <1>1, <1>3, <2>2, NothingIsAccounted DEF B
  <2>4. n \in 1..N /\ n - 1 \in 0..N /\ ~(n <= n - 1)
    BY <1>1, <2>2, <2>3
  <2>5. Accounted(a[n - 1], L, n - 1) /\ a[n] = F(a[n - 1], n)
    BY <1>1, <1>3, <2>2, <2>3, <2>4
  <2> QED
    BY <1>4, <2>2, <2>4, <2>5
<1>6. Accounted(H, L, N)
  BY <1>1, <1>2, <1>5
<1>7. G.ext = H.ext /\ G.based = H.based
  BY <1>6 DEF SCSScanStorage, Fixup, Accounted, IsShaped, H
<1> QED
  BY <1>6, <1>7 DEF Accounted, Loose, Based
=============================================================================
