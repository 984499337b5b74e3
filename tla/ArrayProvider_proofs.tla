------------------------ MODULE ArrayProvider_proofs ------------------------
(***************************************************************************)
(* Proofs about ArrayProvider: the arrays a client navigates hang together *)
(* after every scan, settings included, and what is enumerated, what is    *)
(* got by name and what is found from the ends of an association agree.    *)
(* They lead from every volume down to the disks, and an extent that       *)
(* cannot be shown is a mirror under a stripe that is in no pool.          *)
(***************************************************************************)
EXTENDS ArrayProvider, RaidPool_proofs

-----------------------------------------------------------------------------
(***************************************************************************)
(* The inductive invariant                                                 *)
(***************************************************************************)

\* What a scan makes (see Linked), without the devices behind it.
Navigable(G) ==
    /\ Record(G, {"defined", "ext", "pool", "vol", "based", "alloc"})
    /\ PoolsOK(G) /\ AllocOK(G) /\ VolsOK(G)
    /\ \A x \in DOMAIN G.ext :
          "pool" \in DOMAIN G.ext[x] /\ G.ext[x].pool \in DOMAIN G.pool \cup {NULL} /\ x[1] # "volume"
    /\ \A b \in G.based : b.dep \in DOMAIN G.ext /\ b.ant \in DOMAIN G.ext /\ b.dep # b.ant

\* A setting has its capability; one of a volume has the volume's name, and
\* every volume has one.
SettingOK(G, s, setting) ==
    /\ Record(setting, {"cap", "vol", "goal"})
    /\ setting.cap \in DOMAIN G.pool
    /\ setting.vol # NULL =>
          /\ setting.vol \in DOMAIN G.vol /\ s = VolumeSetting(setting.vol)
          /\ G.vol[setting.vol].pool = setting.cap
Anchored(G, S) ==
    /\ \A s \in DOMAIN S : SettingOK(G, s, S[s])
    /\ \A v \in DOMAIN G.vol : VolumeSetting(v) \in DOMAIN S /\ S[VolumeSetting(v)].vol = v

NavInv == RaidInv /\ Navigable(graph) /\ Anchored(graph, settings)

-----------------------------------------------------------------------------
(***************************************************************************)
(* The arrays                                                              *)
(***************************************************************************)
LEMMA LinkedIsNavigable ==
    ASSUME NEW G, NEW L, Linked(G, L)
    PROVE  Navigable(G)
<1>1. ASSUME NEW x \in DOMAIN G.ext
      PROVE  "pool" \in DOMAIN G.ext[x] /\ G.ext[x].pool \in DOMAIN G.pool \cup {NULL} /\ x[1] # "volume"
  <2>1. Height(L, x) \in 0..5 /\ "pool" \in DOMAIN G.ext[x] /\ G.ext[x].pool \in DOMAIN G.pool \cup {NULL}
    BY DEF Linked, ExtentsOK
  <2>2. x[1] = "volume" => Height(L, x) = 6
    BY DEF Height
  <2> QED
    BY <2>1, <2>2
<1>2. ASSUME NEW b \in G.based
      PROVE  b.dep \in DOMAIN G.ext /\ b.ant \in DOMAIN G.ext /\ b.dep # b.ant
  <2>1. b.dep \in DOMAIN G.ext /\ b.ant \in DOMAIN G.ext /\ Height(L, b.ant) < Height(L, b.dep)
    BY DEF Linked, BasedOK
  <2>2. Height(L, b.dep) \in 0..5
    BY <2>1 DEF Linked, ExtentsOK
  <2> QED
    BY <2>1, <2>2
<1> QED
  BY <1>1, <1>2 DEF Navigable, Linked

LEMMA ScanIsNavigable ==
    ASSUME NEW L, LayoutInv(L)
    PROVE  Navigable(SCSScanStorage(L))
<1>1. ScanOK(L)
  BY LayoutIsOK DEF ScanOK, LayoutInv, GroupsOK, IsSeq
<1> QED
  BY <1>1, LinkedAfterScan, LinkedIsNavigable

LEMMA EmptyGraphIsNavigable == Navigable(EmptyGraph) /\ DOMAIN EmptyGraph.vol = {}
<1>1. Linked(EmptyGraph, BlankLayout)
  BY NothingScannedIsLinked DEF Scanning, EmptyGraph
<1>2. DOMAIN EmptyGraph.vol = {}
  BY DEF EmptyGraph, LoadPersistentStorageObjects
<1> QED
  BY <1>1, <1>2, LinkedIsNavigable

\* After a scan the settings are those of the volumes.
LEMMA SettingsAreAnchoredByScan ==
    ASSUME NEW G, Navigable(G)
    PROVE  Anchored(G, SettingsAfterScan(G))
<1> DEFINE S == SettingsAfterScan(G)
           goal(v) == SettingInitFromCapability(G.pool[G.vol[v].pool].cap)
           new(v) == [cap |-> G.vol[v].pool, vol |-> v, goal |-> goal(v)]
<1>1. S = [s \in {VolumeSetting(v) : v \in DOMAIN G.vol} |-> new(s[1])]
  BY DEF SettingsAfterScan
<1>2. \A v : VolumeSetting(v)[1] = v
  BY DEF VolumeSetting
<1> HIDE DEF S, goal
<1>3. \A v : Record(new(v), {"cap", "vol", "goal"}) /\ new(v).cap = G.vol[v].pool /\ new(v).vol = v
  BY DEF Record
<1> HIDE DEF new
<1>4. \A v \in DOMAIN G.vol : VolumeSetting(v) \in DOMAIN S /\ S[VolumeSetting(v)] = new(v)
  BY <1>1, <1>2
<1>5. ASSUME NEW s \in DOMAIN S
      PROVE  SettingOK(G, s, S[s])
  <2>1. PICK v \in DOMAIN G.vol : s = VolumeSetting(v)
    BY <1>1
  <2>2. G.vol[v].pool \in DOMAIN G.pool
    BY DEF Navigable, VolsOK
  <2> QED
    BY <1>3, <1>4, <2>1, <2>2 DEF SettingOK
<1> QED
  BY <1>3, <1>4, <1>5 DEF Anchored, S

-----------------------------------------------------------------------------
(***************************************************************************)
(* Steps                                                                   *)
(***************************************************************************)

\* A step of RaidPool leaves the arrays alone, scans, or starts anew.
LEMMA ScanOrNot ==
    ASSUME Step \/ Stopped
    PROVE  \/ UNCHANGED <<graph, needScan>> /\ call.pc \notin {"enter", "scan"}
           \/ needScan' /\ graph' = EmptyGraph
           \/ graph' = SCSScanStorage(lib) /\ call.pc \in {"enter", "scan"}
<1>1. \A how : Ends(how) => needScan' /\ graph' = EmptyGraph
  BY DEF Ends
<1>2. CASE Enter \/ ScanAndAnswer
  BY <1>1, <1>2 DEF Enter, ScanAndAnswer, ScanStorage
<1>3. CASE Stopped
  BY <1>1, <1>3 DEF Stopped
<1>4. CASE CreateMirror
  BY <1>1, <1>4 DEF CreateMirror, AllCut
<1>5. CASE DeleteRAID1Composition
  BY <1>1, <1>5 DEF DeleteRAID1Composition
<1>6. CASE RefuseGoalOrSize \/ ChooseExtents \/ ExtentPartition \/ NoBranch
  BY <1>6 DEF RefuseGoalOrSize, ChooseExtents, ExtentPartition, NoBranch, AllCut
<1>9. CASE CreateStripe
  BY <1>1, <1>9, StripeCases DEF CreateStripe, AllCut
<1>7. CASE CreateJBODComposition \/ CreateRAID0Composition \/ CreateRAID1Composition \/ CreateRAID5Composition
  <2>1. \A results : Finish(results) => Ends("died") \/ UNCHANGED <<graph, needScan>>
    BY FinishCases
  <2>2. call.pc = "cut" /\ \E results : Finish(results)
    <3>1. \A kind : AllCut(kind) => call.pc = "cut"
      BY DEF AllCut
    <3> QED
      BY <1>7, <3>1 DEF CreateJBODComposition, CreateRAID0Composition, CreateRAID1Composition,
                        CreateRAID5Composition
  <2> QED
    BY <1>1, <2>1, <2>2
<1>8. CASE RefuseUsedPool \/ RemoveGroup \/ RemoveNext \/ Removed
  BY <1>8 DEF RefuseUsedPool, RemoveGroup, RemoveNext, Removed
<1> QED
  BY <1>2, <1>3, <1>4, <1>5, <1>6, <1>7, <1>8, <1>9 DEF Step

LEMMA StepsNavigate ==
    ASSUME NavInv, Step \/ Stopped, settings' = Rescanned
    PROVE  Navigable(graph)' /\ Anchored(graph, settings)'
<1>1. CASE UNCHANGED <<graph, needScan>> /\ call.pc \notin {"enter", "scan"}
  <2>1. Navigable(graph')
    BY <1>1 DEF NavInv
  <2>2. settings' = settings \/ settings' = SettingsAfterScan(graph')
    BY DEF Rescanned
  <2> QED
    BY <1>1, <2>1, <2>2, SettingsAreAnchoredByScan DEF NavInv
<1>2. CASE needScan' /\ graph' = EmptyGraph
  <2>1. Navigable(graph') /\ settings' = SettingsAfterScan(graph')
    BY <1>2, EmptyGraphIsNavigable DEF Rescanned
  <2> QED
    BY <2>1, SettingsAreAnchoredByScan
<1>3. CASE graph' = SCSScanStorage(lib) /\ call.pc \in {"enter", "scan"}
  <2>1. Navigable(graph') /\ settings' = SettingsAfterScan(graph')
    BY <1>3, ScanIsNavigable DEF Rescanned, NavInv, RaidInv
  <2> QED
    BY <2>1, SettingsAreAnchoredByScan
<1> QED
  BY <1>1, <1>2, <1>3, ScanOrNot

LEMMA UsePoolNavigates ==
    ASSUME NavInv, UsePool, settings' = SettingsAfterScan(graph')
    PROVE  Navigable(graph)' /\ Anchored(graph, settings)'
<1>1. PICK v, l : \E L \in {LvCreated(lib, v, l, OneKB)} : \E G \in {SCSScanStorage(L)} :
                      Commit(L) /\ graph' = IF G.defined THEN G ELSE EmptyGraph
  BY DEF UsePool
<1> DEFINE L == LvCreated(lib, v, l, OneKB)
           G == SCSScanStorage(L)
<1>2. graph' = IF G.defined THEN G ELSE EmptyGraph
  BY <1>1
<1>3. LayoutInv(L)
  <2>1. IsSeq(<<>>)
    BY DEF IsSeq
  <2> QED
    BY <2>1, GroupsAreSound DEF NavInv, RaidInv
<1> HIDE DEF L
<1>4. Navigable(G)
  BY <1>3, ScanIsNavigable
<1> HIDE DEF G
<1>5. Navigable(graph')
  BY <1>2, <1>4, EmptyGraphIsNavigable
<1> QED
  BY <1>5, SettingsAreAnchoredByScan

LEMMA FirstReadKeeps ==
    ASSUME NavInv, FirstRead, UNCHANGED served
    PROVE  NavInv'
<1> DEFINE G == SCSScanStorage(lib)
<1>1. \/ /\ graph' = G /\ G.defined /\ needScan' = FALSE /\ UNCHANGED <<call, reply>>
         /\ UNCHANGED <<lib, disk>>
      \/ Ends("died")
  BY DEF FirstRead, ScanStorage
<1>2. settings' = SettingsAfterScan(graph') /\ call.pc = "idle" /\ RaidInv
  BY DEF FirstRead, NavInv
<1>3. G = SCSScanStorage(lib)
  OBVIOUS
<1> HIDE DEF G
<1>4. served' \in 0..MaxRequests
  BY <1>2 DEF RaidInv, TypeOK
<1>5. CASE Ends("died")
  <2>1. RaidInv' /\ graph' = EmptyGraph
    BY <1>2, <1>4, <1>5, EndsIsSound DEF Ends
  <2> QED
    BY <1>2, <2>1, EmptyGraphIsNavigable, SettingsAreAnchoredByScan DEF NavInv
<1>6. CASE /\ graph' = G /\ G.defined /\ needScan' = FALSE /\ UNCHANGED <<call, reply>>
           /\ UNCHANGED <<lib, disk>>
  <2>1. GraphInv'
    BY <1>2, <1>3, <1>6, ScanIsSound DEF GraphInv, RaidInv
  <2>2. CallInv'
    BY <1>2, <1>6 DEF CallInv, RaidInv
  <2>3. TypeOK'
    BY <1>2, <1>4, <1>6 DEF TypeOK, RaidInv
  <2>4. RaidInv'
    BY <1>2, <1>6, <2>1, <2>2, <2>3 DEF RaidInv
  <2>5. Navigable(graph')
    BY <1>2, <1>3, <1>6, ScanIsNavigable DEF RaidInv
  <2> QED
    BY <1>2, <2>4, <2>5, SettingsAreAnchoredByScan DEF NavInv
<1> QED
  BY <1>1, <1>5, <1>6

\* The capability that is shown is the one there is, when that of
\* smsetup.conf is complete; in any case the arrays stay as they were but for it.
Shown(G, c) == [G.pool[c].cap EXCEPT !.nspf = @ \/ G.pool[c].cap.parity = 2]

LEMMA ShownIsCap ==
    ASSUME NEW G, Navigable(G), NEW c \in DOMAIN G.pool
    PROVE  /\ CapOK(Shown(G, c))
           /\ (PrimordialCap.parity = 2 => PrimordialCap.nspf) => Shown(G, c) = G.pool[c].cap
<1> DEFINE d == G.pool[c].cap
           b == (d.nspf \/ d.parity = 2)
           e == [d EXCEPT !.nspf = b]
<1>1. CapOK(d)
  BY DEF Navigable, PoolsOK
<1>2. Shown(G, c) = e
  BY DEF Shown
<1>3. b \in BOOLEAN /\ (d.parity = 2 => b) /\ (d.nspf => b) /\ (b => d.nspf \/ d.parity = 2)
  OBVIOUS
<1> HIDE DEF d, b
<1>4. CapOK(e)
  BY <1>1, <1>3 DEF CapOK, Record
<1>5. ASSUME PrimordialCap.parity = 2 => PrimordialCap.nspf
      PROVE  e = d
  <2>1. d.nspf \in BOOLEAN /\ (d.parity = 2 => d.nspf)
    BY <1>1, <1>5 DEF CapOK
  <2>2. b = d.nspf
    BY <1>3, <2>1
  <2>3. Record(d, {"dr", "drMax", "pr", "prMax", "stripe", "parity", "nspf"})
    BY <1>1 DEF CapOK
  <2> QED
    BY <2>2, <2>3 DEF Record
<1> QED
  BY <1>2, <1>4, <1>5 DEF d

LEMMA ShowCapabilityShows ==
    ASSUME ShowCapability
    PROVE  /\ \E c \in Pools : graph' = [graph EXCEPT !.pool[c].cap = Shown(graph, c)]
           /\ call.pc = "idle" /\ UNCHANGED <<lib, disk, needScan, call, reply, served, settings>>
  BY DEF ShowCapability, CapabilityCreateInstance, Instance, Shown, Idling

LEMMA ShowCapabilityKeeps ==
    ASSUME NavInv, ShowCapability
    PROVE  NavInv'
<1>1. PICK c \in Pools : graph' = [graph EXCEPT !.pool[c].cap = Shown(graph, c)]
  BY ShowCapabilityShows
<1> DEFINE G == graph
           H == graph'
           r(q) == IF q = c THEN [G.pool[q] EXCEPT !.cap = Shown(G, c)] ELSE G.pool[q]
<1>2. /\ Record(G, {"defined", "ext", "pool", "vol", "based", "alloc"}) /\ Navigable(G) /\ PoolsOK(G)
      /\ \A q \in DOMAIN G.pool : Record(G.pool[q], {"total", "remaining", "cap"})
  BY DEF NavInv, Navigable, PoolsOK
<1>3. H = [G EXCEPT !.pool = [q \in DOMAIN G.pool |-> r(q)]]
  BY <1>1
<1>4. /\ Record(H, {"defined", "ext", "pool", "vol", "based", "alloc"}) /\ H.defined = G.defined
      /\ H.ext = G.ext /\ H.based = G.based /\ H.vol = G.vol /\ H.alloc = G.alloc
      /\ H.pool = [q \in DOMAIN G.pool |-> r(q)]
  <2> HIDE DEF r, G, H
  <2> QED
    BY <1>2, <1>3 DEF Record
<1>5. CapOK(Shown(G, c))
  BY <1>2, ShownIsCap DEF Pools
<1>6. \A q \in DOMAIN G.pool : Record(r(q), {"total", "remaining", "cap"}) /\ CapOK(r(q).cap)
  <2>1. \A q \in DOMAIN G.pool : CapOK(G.pool[q].cap)
    BY <1>2 DEF PoolsOK
  <2> QED
    BY <1>2, <1>5, <2>1 DEF Record
<1> HIDE DEF r
<1>7. PoolsOK(H) /\ DOMAIN H.pool = DOMAIN G.pool
  <2>1. DOMAIN H.pool = DOMAIN G.pool /\ Record(H.pool, DOMAIN H.pool)
    BY <1>4 DEF Record
  <2> QED
    BY <1>2, <1>4, <1>6, <2>1 DEF PoolsOK
<1>8. Navigable(H)
  BY <1>2, <1>4, <1>7 DEF Navigable, AllocOK, VolsOK
<1>9. Anchored(H, settings')
  BY <1>4, <1>7, ShowCapabilityShows DEF Anchored, SettingOK, NavInv
<1>10. RaidInv'
  <2>1. call.pc = "idle" /\ RaidInv /\ UNCHANGED <<lib, disk, needScan, call, reply, served>>
    BY ShowCapabilityShows DEF NavInv
  <2>2. CallInv'
    BY <2>1 DEF CallInv, RaidInv
  <2>3. GraphInv'
    <3>1. DOMAIN H = DOMAIN G
      BY <1>2, <1>4 DEF Record
    <3> QED
      BY <1>4, <2>1, <3>1 DEF GraphInv, IsGraph, Based, RaidInv
  <2>4. TypeOK'
    BY <1>4, <2>1 DEF TypeOK, RaidInv
  <2> QED
    BY <2>1, <2>2, <2>3, <2>4 DEF RaidInv
<1> QED
  BY <1>8, <1>9, <1>10 DEF NavInv

\* Settings of clients come and are written.
LEMMA SettingsKeep ==
    ASSUME NavInv, UNCHANGED vars, Anchored(graph, settings')
    PROVE  NavInv'
<1>1. RaidInv'
  BY NextIsSound DEF NavInv
<1>2. graph' = graph
  BY DEF vars
<1> QED
  BY <1>1, <1>2 DEF NavInv

LEMMA CapabilityCreateSettingKeeps ==
    ASSUME NavInv, CapabilityCreateSetting
    PROVE  NavInv'
<1>0. PICK c \in DOMAIN graph.pool : \E i :
          settings' = Added(settings, <<c, "Setting", i>>,
                            [cap |-> c, vol |-> NULL, goal |-> SettingInitFromCapability(graph.pool[c].cap)])
  BY DEF CapabilityCreateSetting
<1>1. PICK i :
          settings' = Added(settings, <<c, "Setting", i>>,
                            [cap |-> c, vol |-> NULL, goal |-> SettingInitFromCapability(graph.pool[c].cap)])
  BY <1>0
<1> DEFINE name == <<c, "Setting", i>>
           goal == SettingInitFromCapability(graph.pool[c].cap)
           new == [cap |-> c, vol |-> NULL, goal |-> goal]
<1>2. settings' = [s \in DOMAIN settings \cup {name} |-> IF s = name THEN new ELSE settings[s]]
  BY <1>1 DEF Added
<1>3. \A v : VolumeSetting(v) # name
  BY DEF VolumeSetting
<1> HIDE DEF name, goal
<1>4. Record(new, {"cap", "vol", "goal"}) /\ new.cap = c /\ new.vol = NULL
  BY DEF Record
<1> HIDE DEF new
<1>5. Anchored(graph, settings)
  BY DEF NavInv
<1>6. Anchored(graph, settings')
  <2>1. \A s \in DOMAIN settings' : SettingOK(graph, s, settings'[s])
    BY <1>2, <1>4, <1>5 DEF Anchored, SettingOK
  <2>2. \A v \in DOMAIN graph.vol : VolumeSetting(v) \in DOMAIN settings' /\ settings'[VolumeSetting(v)].vol = v
    BY <1>2, <1>3, <1>5 DEF Anchored
  <2> QED
    BY <2>1, <2>2 DEF Anchored
<1> QED
  BY <1>6, SettingsKeep DEF CapabilityCreateSetting

LEMMA SetInstanceKeeps ==
    ASSUME NavInv, SetInstance
    PROVE  NavInv'
<1>1. PICK s \in DOMAIN settings, goal \in Goals : settings' = [settings EXCEPT ![s].goal = goal]
  BY DEF SetInstance
<1> DEFINE S == settings
           T == settings'
<1>2. Anchored(graph, S)
  BY DEF NavInv
<1>3. DOMAIN T = DOMAIN S /\ \A t \in DOMAIN S : T[t] = IF t = s THEN [S[t] EXCEPT !.goal = goal] ELSE S[t]
  BY <1>1
<1>4. \A t \in DOMAIN S : Record(T[t], {"cap", "vol", "goal"}) /\ T[t].cap = S[t].cap /\ T[t].vol = S[t].vol
  BY <1>2, <1>3 DEF Anchored, SettingOK, Record
<1> HIDE DEF S, T
<1>5. Anchored(graph, T)
  BY <1>2, <1>3, <1>4 DEF Anchored, SettingOK
<1> QED
  BY <1>5, SettingsKeep DEF SetInstance, T

LEMMA NavInitIsSound == NavInit => NavInv
<1> SUFFICES ASSUME NavInit PROVE NavInv
  OBVIOUS
<1>1. RaidInv /\ graph = EmptyGraph /\ settings = [s \in {} |-> NULL]
  BY InitIsSound DEF NavInit, Init
<1> QED
  BY <1>1, EmptyGraphIsNavigable DEF NavInv, Anchored

LEMMA NavNextIsSound == NavInv /\ [NavNext]_navVars => NavInv'
<1> SUFFICES ASSUME NavInv, [NavNext]_navVars PROVE NavInv'
  OBVIOUS
<1>1. RaidInv /\ Navigable(graph) /\ Anchored(graph, settings)
  BY DEF NavInv
<1>2. CASE served < MaxRequests /\ served' = served + 1 /\ NavRequest
  <2>1. Request
    BY <1>2 DEF NavRequest, CreateByGoal, Request
  <2>2. RaidInv'
    BY <1>1, <1>2, <2>1, NextIsSound DEF Next
  <2>3. Navigable(graph)' /\ Anchored(graph, settings)'
    <3>1. CASE CreateByGoal \/ (RequestDelete /\ UNCHANGED settings)
      <4>1. graph' = graph /\ settings' = settings
        BY <3>1 DEF CreateByGoal, RequestCreate, RequestDelete
      <4> QED
        BY <1>1, <4>1
    <3>2. CASE UsePool /\ settings' = SettingsAfterScan(graph')
      BY <3>2, UsePoolNavigates
    <3> QED
      BY <1>2, <3>1, <3>2 DEF NavRequest
  <2> QED
    BY <2>2, <2>3 DEF NavInv
<1>3. CASE (Step \/ Stopped) /\ UNCHANGED served /\ settings' = Rescanned
  <2>1. RaidInv'
    BY <1>1, <1>3, NextIsSound DEF Next
  <2> QED
    BY <1>3, <2>1, StepsNavigate DEF NavInv
<1>4. CASE FirstRead /\ UNCHANGED served
  BY <1>4, FirstReadKeeps
<1>5. CASE ShowCapability
  BY <1>5, ShowCapabilityKeeps
<1>6. CASE CapabilityCreateSetting \/ SetInstance
  BY <1>6, CapabilityCreateSettingKeeps, SetInstanceKeeps
<1>7. CASE UNCHANGED navVars
  <2>1. UNCHANGED vars /\ settings' = settings /\ graph' = graph
    BY <1>7 DEF navVars, vars
  <2> QED
    BY <1>1, <2>1, SettingsKeep
<1> QED
  BY <1>2, <1>3, <1>4, <1>5, <1>6, <1>7 DEF NavNext

\* The invariant holds whatever clients do between and during the calls.
THEOREM NavigationSound == NavSpec => []NavInv
  BY NavInitIsSound, NavNextIsSound, PTL DEF NavSpec

\* Every setting a client can name has its capability and its volume, through
\* all scans that discard settings and make new ones.
THEOREM SettingsAreAlwaysAnchored == NavSpec => []SettingsAreAnchored
<1>1. NavInv => SettingsAreAnchored
  BY DEF NavInv, Anchored, SettingOK, SettingsAreAnchored, Pools, Volumes
<1> QED
  BY <1>1, NavigationSound, PTL

\* Reading a capability never changes the arrays, when the one in smsetup.conf
\* that has parity says that it has no single point of failure.
THEOREM ShowingNeverChanges ==
    ASSUME PrimordialCap.parity = 2 => PrimordialCap.nspf
    PROVE  NavSpec => ShowingChangesNothing
<1>1. NavInv /\ ShowCapability => UNCHANGED graph
  <2> SUFFICES ASSUME NavInv, ShowCapability PROVE graph' = graph
    OBVIOUS
  <2>1. PICK c \in Pools : graph' = [graph EXCEPT !.pool[c].cap = Shown(graph, c)]
    BY ShowCapabilityShows
  <2>2. Navigable(graph) /\ c \in DOMAIN graph.pool
    BY DEF NavInv, Pools
  <2>3. Shown(graph, c) = graph.pool[c].cap
    BY <2>2, ShownIsCap
  <2>4. /\ Record(graph, {"defined", "ext", "pool", "vol", "based", "alloc"})
        /\ Record(graph.pool, DOMAIN graph.pool) /\ Record(graph.pool[c], {"total", "remaining", "cap"})
    BY <2>2 DEF Navigable, PoolsOK
  <2> DEFINE r == [graph.pool[c] EXCEPT !.cap = graph.pool[c].cap]
             q == [graph.pool EXCEPT ![c] = r]
  <2>5. graph' = [graph EXCEPT !.pool = q]
    BY <2>1, <2>3
  <2>6. r = graph.pool[c]
    BY <2>4 DEF Record
  <2> HIDE DEF r
  <2>7. q = graph.pool
    BY <2>4, <2>6 DEF Record
  <2> HIDE DEF q
  <2> QED
    BY <2>4, <2>5, <2>7 DEF Record
<1>2. NavInv /\ [NavNext]_navVars => [ShowCapability => UNCHANGED graph]_navVars
  BY <1>1
<1> QED
  BY <1>2, NavigationSound, PTL DEF NavSpec, ShowingChangesNothing

-----------------------------------------------------------------------------
(***************************************************************************)
(* What each class consists of, for names and for instances.               *)
(***************************************************************************)
PlainExtents == {x \in Extents : ~graph.ext[x].composite}
CompositeExtents == {x \in Extents : graph.ext[x].composite}
UsedBy(p) == {x \in Components(graph, p) : ~ExtentIsFreespace(x)}
FreeOf(p) == {x \in Components(graph, p) : ExtentIsFreespace(x)}

LEMMA NamesOfEachObject ==
    /\ EnumInstanceNames("StorageConfigurationService") = {SCSCreateObjectPath}
    /\ EnumInstanceNames("StorageConfigurationCapabilities") = {SCCCreateObjectPath}
    /\ EnumInstanceNames("SystemStorageCapabilities") = {SSCCreateObjectPath}
    /\ EnumInstanceNames("StorageCapabilities") = {CapabilityCreateObjectPath(p) : p \in Pools}
    /\ EnumInstanceNames("StoragePool") = {PoolCreateObjectPath(p) : p \in Pools}
    /\ EnumInstanceNames("StorageExtent") = {ExtentCreateObjectPath(x) : x \in PlainExtents}
    /\ EnumInstanceNames("CompositeExtent") = {ExtentCreateObjectPath(x) : x \in CompositeExtents}
    /\ EnumInstanceNames("LogicalDisk") = {VolumeCreateObjectPath("LogicalDisk", v) : v \in LogicalDisks}
    /\ EnumInstanceNames("StorageVolume") = {VolumeCreateObjectPath("StorageVolume", v) : v \in StorageVolumes}
    /\ EnumInstanceNames("StorageSettingWithHints") = {SettingCreateObjectPath(s) : s \in DOMAIN settings}
BY DEF EnumInstanceNames, NamesOfObjects, NamesOfServices, NamesOfComponents, NamesOfBasedOn, NamesOfAllocations,
       PlainExtents, CompositeExtents

LEMMA EachObject ==
    /\ EnumInstances("StorageConfigurationService") = {SCSCreateInstance}
    /\ EnumInstances("StorageConfigurationCapabilities") = {SCCCreateInstance}
    /\ EnumInstances("SystemStorageCapabilities") = {SSCCreateInstance}
    /\ EnumInstances("StorageCapabilities") = {CapabilityCreateInstance(p) : p \in Pools}
    /\ EnumInstances("StoragePool") = {PoolCreateInstance(p) : p \in Pools}
    /\ EnumInstances("StorageExtent") = {ExtentCreateInstance(x) : x \in PlainExtents}
    /\ EnumInstances("CompositeExtent") = {ExtentCreateInstance(x) : x \in CompositeExtents}
    /\ EnumInstances("LogicalDisk") = {VolumeCreateInstance("LogicalDisk", v) : v \in LogicalDisks}
    /\ EnumInstances("StorageVolume") = {VolumeCreateInstance("StorageVolume", v) : v \in StorageVolumes}
    /\ EnumInstances("StorageSettingWithHints") = {SettingCreateInstance(s) : s \in DOMAIN settings}
BY DEF EnumInstances, InstancesOfObjects, InstancesOfServices, InstancesOfComponents, InstancesOfBasedOn,
       InstancesOfAllocations, PlainExtents, CompositeExtents

LEMMA NamesOfEachAssociation ==
    /\ EnumInstanceNames("HostedStorageConfigurationService") = {SCSCreateHostedAssocObjectPath}
    /\ EnumInstanceNames("HostedStoragePool") = {PoolCreateHostedAssocObjectPath(p) : p \in Pools}
    /\ EnumInstanceNames("StorageConfigurationElementCapabilities") =
          {SCCCreateAssocObjectPath, SSCCreateAssocObjectPath}
    /\ EnumInstanceNames("StorageElementCapabilities") = {PoolCreateCapabilityAssocObjectPath(p) : p \in Pools}
    /\ EnumInstanceNames("AssociatedComponentExtent") =
          UNION {{PoolCreateComponentAssocObjectPath(p, x) : x \in UsedBy(p)} : p \in Pools}
    /\ EnumInstanceNames("AssociatedRemainingExtent") =
          UNION {{PoolCreateRemainingAssocObjectPath(p, x) : x \in FreeOf(p)} : p \in Pools}
    /\ EnumInstanceNames("StorageSettingsGeneratedFromCapabilities") =
          {SettingCreateGFCAssocObjectPath(s) : s \in Generated}
    /\ EnumInstanceNames("BasedOn") =
          {ExtentCreateBasedOnAssocObjectPath("BasedOn", b) : b \in PlainOn}
          \cup {VolumeCreateBasedOnAssocObjectPath(VolumeClass(v), v) : v \in Volumes}
    /\ EnumInstanceNames("CompositeExtentBasedOn") =
          {ExtentCreateBasedOnAssocObjectPath("CompositeExtentBasedOn", b) : b \in StripedOn}
    /\ EnumInstanceNames("AllocatedFromStoragePool") =
          {PoolCreateAllocFromAssocObjectPath(a.dep, a.ant) : a \in graph.alloc}
          \cup {VolumeCreateAllocFromAssocObjectPath(VolumeClass(v), v) : v \in Volumes}
    /\ EnumInstanceNames("StorageElementSettingData") =
          {VolumeCreateSettingAssocObjectPath(VolumeClass(v), v) : v \in Volumes}
BY DEF EnumInstanceNames, NamesOfObjects, NamesOfServices, NamesOfComponents, NamesOfBasedOn, NamesOfAllocations,
       UsedBy, FreeOf

LEMMA EachAssociation ==
    /\ EnumInstances("HostedStorageConfigurationService") = {SCSCreateHostedAssocInstance}
    /\ EnumInstances("HostedStoragePool") = {PoolCreateHostedAssocInstance(p) : p \in Pools}
    /\ EnumInstances("StorageConfigurationElementCapabilities") = {SCCCreateAssocInstance, SSCCreateAssocInstance}
    /\ EnumInstances("StorageElementCapabilities") = {PoolCreateCapabilityAssocInstance(p) : p \in Pools}
    /\ EnumInstances("AssociatedComponentExtent") =
          UNION {{PoolCreateComponentAssocInstance(p, x) : x \in UsedBy(p)} : p \in Pools}
    /\ EnumInstances("AssociatedRemainingExtent") =
          UNION {{PoolCreateRemainingAssocInstance(p, x) : x \in FreeOf(p)} : p \in Pools}
    /\ EnumInstances("StorageSettingsGeneratedFromCapabilities") = {SettingCreateGFCAssocInstance(s) : s \in Generated}
    /\ EnumInstances("BasedOn") =
          {ExtentCreateBasedOnAssocInstance("BasedOn", b) : b \in PlainOn}
          \cup {VolumeCreateBasedOnAssocInstance(VolumeClass(v), v) : v \in Volumes}
    /\ EnumInstances("CompositeExtentBasedOn") =
          {ExtentCreateBasedOnAssocInstance("CompositeExtentBasedOn", b) : b \in StripedOn}
    /\ EnumInstances("AllocatedFromStoragePool") =
          {PoolCreateAllocFromAssocInstance(a.dep, a.ant, a.space) : a \in graph.alloc}
          \cup {VolumeCreateAllocFromAssocInstance(VolumeClass(v), v) : v \in Volumes}
    /\ EnumInstances("StorageElementSettingData") =
          {VolumeCreateSettingAssocInstance(VolumeClass(v), v) : v \in Volumes}
BY DEF EnumInstances, InstancesOfObjects, InstancesOfServices, InstancesOfComponents, InstancesOfBasedOn,
       InstancesOfAllocations, UsedBy, FreeOf

-----------------------------------------------------------------------------
(***************************************************************************)
(* The name in an instance is the one its object or association has.       *)
(***************************************************************************)
LEMMA NameOfInstance == \A path, shows : NameOf(Instance(path, shows)) = path
BY DEF NameOf, Instance

LEMMA NamesOfObjectInstances ==
    /\ NameOf(SCSCreateInstance) = SCSCreateObjectPath
    /\ NameOf(SCCCreateInstance) = SCCCreateObjectPath
    /\ NameOf(SSCCreateInstance) = SSCCreateObjectPath
    /\ \A p : NameOf(CapabilityCreateInstance(p)) = CapabilityCreateObjectPath(p)
    /\ \A p : NameOf(PoolCreateInstance(p)) = PoolCreateObjectPath(p)
    /\ \A x : NameOf(ExtentCreateInstance(x)) = ExtentCreateObjectPath(x)
    /\ \A class, v : NameOf(VolumeCreateInstance(class, v)) = VolumeCreateObjectPath(class, v)
    /\ \A s : NameOf(SettingCreateInstance(s)) = SettingCreateObjectPath(s)
BY NameOfInstance DEF SCSCreateInstance, SCCCreateInstance, SSCCreateInstance, CapabilityCreateInstance,
       PoolCreateInstance, ExtentCreateInstance, VolumeCreateInstance, SettingCreateInstance

LEMMA NamesOfAssociationInstances ==
    /\ NameOf(SCSCreateHostedAssocInstance) = SCSCreateHostedAssocObjectPath
    /\ NameOf(SCCCreateAssocInstance) = SCCCreateAssocObjectPath
    /\ NameOf(SSCCreateAssocInstance) = SSCCreateAssocObjectPath
    /\ \A p : /\ NameOf(PoolCreateHostedAssocInstance(p)) = PoolCreateHostedAssocObjectPath(p)
              /\ NameOf(PoolCreateCapabilityAssocInstance(p)) = PoolCreateCapabilityAssocObjectPath(p)
    /\ \A p, x : /\ NameOf(PoolCreateComponentAssocInstance(p, x)) = PoolCreateComponentAssocObjectPath(p, x)
                 /\ NameOf(PoolCreateRemainingAssocInstance(p, x)) = PoolCreateRemainingAssocObjectPath(p, x)
    /\ \A dep, ant, space :
          NameOf(PoolCreateAllocFromAssocInstance(dep, ant, space)) = PoolCreateAllocFromAssocObjectPath(dep, ant)
    /\ \A class, v :
          /\ NameOf(VolumeCreateAllocFromAssocInstance(class, v)) = VolumeCreateAllocFromAssocObjectPath(class, v)
          /\ NameOf(VolumeCreateBasedOnAssocInstance(class, v)) = VolumeCreateBasedOnAssocObjectPath(class, v)
          /\ NameOf(VolumeCreateSettingAssocInstance(class, v)) = VolumeCreateSettingAssocObjectPath(class, v)
    /\ \A class, b :
          NameOf(ExtentCreateBasedOnAssocInstance(class, b)) = ExtentCreateBasedOnAssocObjectPath(class, b)
    /\ \A s : NameOf(SettingCreateGFCAssocInstance(s)) = SettingCreateGFCAssocObjectPath(s)
BY NameOfInstance DEF SCSCreateHostedAssocInstance, SCSCreateHostedAssocObjectPath, SCCCreateAssocInstance,
       SCCCreateAssocObjectPath, SSCCreateAssocInstance, SSCCreateAssocObjectPath, PoolCreateHostedAssocInstance,
       PoolCreateHostedAssocObjectPath, PoolCreateCapabilityAssocInstance, PoolCreateCapabilityAssocObjectPath,
       PoolCreateComponentAssocInstance, PoolCreateComponentAssocObjectPath, PoolCreateRemainingAssocInstance,
       PoolCreateRemainingAssocObjectPath, PoolCreateAllocFromAssocInstance, PoolCreateAllocFromAssocObjectPath,
       VolumeCreateAllocFromAssocInstance, VolumeCreateAllocFromAssocObjectPath, VolumeCreateBasedOnAssocInstance,
       VolumeCreateBasedOnAssocObjectPath, VolumeCreateSettingAssocInstance, VolumeCreateSettingAssocObjectPath,
       ExtentCreateBasedOnAssocInstance, ExtentCreateBasedOnAssocObjectPath, SettingCreateGFCAssocInstance,
       SettingCreateGFCAssocObjectPath

\* The classes of associations with data of their own, and the others.
LEMMA AssociationClasses ==
    AssocClasses \ DeviceClasses =
        {"HostedStorageConfigurationService", "HostedStoragePool", "StorageConfigurationElementCapabilities",
         "StorageElementCapabilities", "AssociatedComponentExtent", "AssociatedRemainingExtent",
         "StorageSettingsGeneratedFromCapabilities", "BasedOn", "CompositeExtentBasedOn",
         "AllocatedFromStoragePool", "StorageElementSettingData"}
BY DEF AssocClasses, DeviceClasses, Roles, AntecedentDependent, GroupAndPart, ElementCapabilities

\* A class and the names in its instances.
Named(class) == EnumInstanceNames(class) = {NameOf(i) : i \in EnumInstances(class)}

LEMMA ObjectsAreNamed == \A class \in ObjectClasses : Named(class)
<1>1. /\ Named("StorageConfigurationService") /\ Named("StorageConfigurationCapabilities")
      /\ Named("SystemStorageCapabilities") /\ Named("StorageCapabilities") /\ Named("StoragePool")
      /\ Named("StorageExtent") /\ Named("CompositeExtent") /\ Named("LogicalDisk") /\ Named("StorageVolume")
      /\ Named("StorageSettingWithHints")
  BY NamesOfEachObject, EachObject, NamesOfObjectInstances DEF Named
<1> QED
  BY <1>1 DEF ObjectClasses

LEMMA AssociationsAreNamed == \A class \in AssocClasses \ DeviceClasses : Named(class)
<1>1. /\ Named("HostedStorageConfigurationService") /\ Named("HostedStoragePool")
      /\ Named("StorageConfigurationElementCapabilities") /\ Named("StorageElementCapabilities")
      /\ Named("StorageSettingsGeneratedFromCapabilities") /\ Named("CompositeExtentBasedOn")
      /\ Named("StorageElementSettingData")
  BY NamesOfEachAssociation, EachAssociation, NamesOfAssociationInstances DEF Named
<1>2. Named("AssociatedComponentExtent") /\ Named("AssociatedRemainingExtent")
  BY NamesOfEachAssociation, EachAssociation, NamesOfAssociationInstances DEF Named
<1>3. Named("BasedOn")
  BY NamesOfEachAssociation, EachAssociation, NamesOfAssociationInstances DEF Named
<1>4. Named("AllocatedFromStoragePool")
  BY NamesOfEachAssociation, EachAssociation, NamesOfAssociationInstances DEF Named
<1> QED
  BY <1>1, <1>2, <1>3, <1>4, AssociationClasses

\* Names and instances of a class are written out separately in the provider;
\* they agree in every state, for all classes but those of the devices.
THEOREM NamesAreAlwaysInstances == NavSpec => []NamesAreInstances
<1>1. NamesAreInstances
  BY ObjectsAreNamed, AssociationsAreNamed DEF NamesAreInstances, Named, DeviceClasses, ObjectClasses
<1> QED
  BY <1>1, PTL

-----------------------------------------------------------------------------
(***************************************************************************)
(* GetInstance gives the instance of the object that has the name.         *)
(***************************************************************************)
LEMMA PathParts ==
    /\ \A class, key : Class(Path(class, key)) = class /\ Key(Path(class, key)) = key
    /\ \A class, left, right : /\ Class(Assoc(class, left, right)) = class
                               /\ Assoc(class, left, right)[2] = left /\ Assoc(class, left, right)[3] = right
BY DEF Class, Key, Path, Assoc

\* The key of a volume finds that volume, and is not the name of an extent.
LEMMA VolumeKeys ==
    ASSUME NavInv, NEW v \in Volumes
    PROVE  VolumesFind(<<"volume", v, 0>>) = {v} /\ <<"volume", v, 0>> \notin Extents
<1>1. VolumesFind(<<"volume", v, 0>>) = {v}
  BY DEF VolumesFind, Volumes
<1>2. \A x \in Extents : x[1] # "volume"
  BY DEF NavInv, Navigable, Extents
<1> QED
  BY <1>1, <1>2

LEMMA GetOfObject ==
    ASSUME NEW class \in ObjectClasses, NEW key
    PROVE  GetInstance(Path(class, key)) = GetObject(Path(class, key))
BY PathParts DEF GetInstance, ObjectClasses, Echoed

LEMMA GetsService ==
    /\ GetInstance(SCSCreateObjectPath) = {SCSCreateInstance}
    /\ GetInstance(SCCCreateObjectPath) = {SCCCreateInstance}
    /\ GetInstance(SSCCreateObjectPath) = {SSCCreateInstance}
BY GetOfObject, PathParts DEF GetObject, SCSCreateObjectPath, SCCCreateObjectPath, SSCCreateObjectPath, ObjectClasses

LEMMA GetsPool ==
    ASSUME NEW p \in Pools
    PROVE  /\ GetInstance(CapabilityCreateObjectPath(p)) = {CapabilityCreateInstance(p)}
           /\ GetInstance(PoolCreateObjectPath(p)) = {PoolCreateInstance(p)}
BY GetOfObject, PathParts DEF GetObject, CapabilityCreateObjectPath, PoolCreateObjectPath, ObjectClasses

LEMMA GetsExtent ==
    ASSUME NEW x \in Extents
    PROVE  GetInstance(ExtentCreateObjectPath(x)) = {ExtentCreateInstance(x)}
BY GetOfObject, PathParts DEF GetObject, ExtentCreateObjectPath, ObjectClasses

LEMMA GetsVolume ==
    ASSUME NavInv, NEW v \in Volumes, NEW class \in VolumeClasses
    PROVE  GetInstance(VolumeCreateObjectPath(class, v)) = {VolumeCreateInstance(class, v)}
<1>1. class \in ObjectClasses /\ Class(VolumeCreateObjectPath(class, v)) = class
      /\ Key(VolumeCreateObjectPath(class, v)) = <<"volume", v, 0>>
  BY PathParts DEF VolumeClasses, ObjectClasses, VolumeCreateObjectPath
<1>2. GetInstance(VolumeCreateObjectPath(class, v)) = GetObject(VolumeCreateObjectPath(class, v))
  BY <1>1, GetOfObject DEF VolumeCreateObjectPath
<1>3. GetObject(VolumeCreateObjectPath(class, v)) = {VolumeCreateInstance(class, w) : w \in {v}}
  BY <1>1, VolumeKeys DEF GetObject, VolumeClasses
<1> QED
  BY <1>2, <1>3

LEMMA GetsSetting ==
    ASSUME NEW s \in DOMAIN settings
    PROVE  GetInstance(SettingCreateObjectPath(s)) = {SettingCreateInstance(s)}
BY GetOfObject, PathParts DEF GetObject, SettingCreateObjectPath, ObjectClasses

LEMMA GetsEchoed ==
    ASSUME NEW class \in Echoed, NEW left, NEW right
    PROVE  GetInstance(Assoc(class, left, right)) = {Instance(Assoc(class, left, right), <<>>)}
BY PathParts DEF GetInstance, GetEchoed, Echoed

\* The answer to a name of BasedOn are all of the same two extents.
LEMMA GetsBasedOn ==
    ASSUME NavInv, NEW class \in {"BasedOn", "CompositeExtentBasedOn"}, NEW b \in graph.based
    PROVE  GetInstance(ExtentCreateBasedOnAssocObjectPath(class, b)) =
               {ExtentCreateBasedOnAssocInstance(class, c) : c \in {d \in graph.based : d.dep = b.dep /\ d.ant = b.ant}}
<1> DEFINE name == ExtentCreateBasedOnAssocObjectPath(class, b)
<1>1. Class(name) = class /\ Key(name[3]) = b.dep /\ Key(name[2]) = b.ant
  BY PathParts DEF ExtentCreateBasedOnAssocObjectPath, ExtentCreateObjectPath
<1>2. b.dep \in Extents
  BY DEF NavInv, Navigable, Extents
<1> HIDE DEF name
<1>3. GetInstance(name) = GetBasedOn(name)
  BY <1>1 DEF GetInstance, Echoed
<1>4. GetBasedOn(name) =
          {ExtentCreateBasedOnAssocInstance(class, c) : c \in {d \in Antecedents(graph, b.dep) : d.ant = b.ant}}
  BY <1>1, <1>2 DEF GetBasedOn
<1> QED
  BY <1>3, <1>4 DEF name, Antecedents

LEMMA VolumeClassIs == \A v : VolumeClass(v) \in VolumeClasses
BY DEF VolumeClass, VolumeClasses

LEMMA GetsVolumeBasedOn ==
    ASSUME NavInv, NEW v \in Volumes
    PROVE  GetInstance(VolumeCreateBasedOnAssocObjectPath(VolumeClass(v), v)) =
               {VolumeCreateBasedOnAssocInstance(VolumeClass(v), v)}
<1> DEFINE name == VolumeCreateBasedOnAssocObjectPath(VolumeClass(v), v)
<1>1. Class(name) = "BasedOn" /\ Key(name[3]) = <<"volume", v, 0>> /\ Key(name[2]) = graph.vol[v].on
  BY PathParts DEF VolumeCreateBasedOnAssocObjectPath, ExtentCreateObjectPath, VolumeCreateObjectPath
<1> HIDE DEF name
<1>2. GetInstance(name) = GetBasedOn(name)
  BY <1>1 DEF GetInstance, Echoed
<1>3. GetBasedOn(name) = {VolumeCreateBasedOnAssocInstance(VolumeClass(w), w) : w \in {v}}
  BY <1>1, VolumeKeys DEF GetBasedOn
<1>4. @ = {VolumeCreateBasedOnAssocInstance(VolumeClass(v), v)}
  OBVIOUS
<1> QED
  BY Zenon, <1>2, <1>3, <1>4 DEF name

LEMMA GetsAllocation ==
    ASSUME NavInv, NEW a \in graph.alloc
    PROVE  GetInstance(PoolCreateAllocFromAssocObjectPath(a.dep, a.ant)) =
               {PoolCreateAllocFromAssocInstance(b.dep, b.ant, b.space) :
                    b \in {c \in graph.alloc : c.dep = a.dep /\ c.ant = a.ant}}
<1> DEFINE name == PoolCreateAllocFromAssocObjectPath(a.dep, a.ant)
<1>1. /\ Class(name) = "AllocatedFromStoragePool" /\ Key(name[2]) = a.ant
      /\ Class(name[3]) = "StoragePool" /\ Key(name[3]) = a.dep
  BY PathParts DEF PoolCreateAllocFromAssocObjectPath, PoolCreateObjectPath
<1>2. a.ant \in Pools
  BY DEF NavInv, Navigable, AllocOK, Pools
<1> HIDE DEF name
<1>3. GetInstance(name) = GetAllocatedFrom(name)
  BY <1>1 DEF GetInstance, Echoed
<1>4. GetAllocatedFrom(name) = {PoolCreateAllocFromAssocInstance(b.dep, b.ant, b.space) :
                                    b \in {c \in graph.alloc : c.ant = a.ant /\ c.dep = a.dep}}
  BY <1>1, <1>2 DEF GetAllocatedFrom
<1> QED
  BY <1>3, <1>4 DEF name

LEMMA GetsVolumeAllocation ==
    ASSUME NavInv, NEW v \in Volumes
    PROVE  GetInstance(VolumeCreateAllocFromAssocObjectPath(VolumeClass(v), v)) =
               {VolumeCreateAllocFromAssocInstance(VolumeClass(v), v)}
<1> DEFINE name == VolumeCreateAllocFromAssocObjectPath(VolumeClass(v), v)
<1>1. /\ Class(name) = "AllocatedFromStoragePool" /\ Key(name[2]) = graph.vol[v].pool
      /\ Class(name[3]) = VolumeClass(v) /\ Key(name[3]) = <<"volume", v, 0>>
  BY PathParts DEF VolumeCreateAllocFromAssocObjectPath, PoolCreateObjectPath, VolumeCreateObjectPath
<1>2. graph.vol[v].pool \in Pools
  BY DEF NavInv, Navigable, VolsOK, Pools, Volumes
<1> HIDE DEF name
<1>3. GetInstance(name) = GetAllocatedFrom(name)
  BY <1>1 DEF GetInstance, Echoed
<1>4. VolumeClass(v) # "StoragePool"
  BY DEF VolumeClass
<1>5. GetAllocatedFrom(name) = {VolumeCreateAllocFromAssocInstance(VolumeClass(w), w) : w \in {v}}
  BY <1>1, <1>2, <1>4, VolumeKeys DEF GetAllocatedFrom
<1>6. @ = {VolumeCreateAllocFromAssocInstance(VolumeClass(v), v)}
  OBVIOUS
<1> QED
  BY Zenon, <1>3, <1>5, <1>6 DEF name

LEMMA GetsVolumeSetting ==
    ASSUME NEW v
    PROVE  GetInstance(VolumeCreateSettingAssocObjectPath(VolumeClass(v), v)) =
               {VolumeCreateSettingAssocInstance(VolumeClass(v), v)}
BY PathParts DEF VolumeCreateSettingAssocObjectPath, VolumeCreateSettingAssocInstance, GetInstance, Echoed, GetSettingData

Got(class) == EnumInstances(class) = UNION {GetInstance(name) : name \in EnumInstanceNames(class)}

LEMMA ObjectsCanBeGot ==
    ASSUME NavInv
    PROVE  \A class \in ObjectClasses : Got(class)
<1>1. /\ Got("StorageConfigurationService") /\ Got("StorageConfigurationCapabilities")
      /\ Got("SystemStorageCapabilities")
  BY NamesOfEachObject, EachObject, GetsService DEF Got
<1>2. Got("StorageCapabilities") /\ Got("StoragePool")
  BY NamesOfEachObject, EachObject, GetsPool DEF Got
<1>3. Got("StorageExtent") /\ Got("CompositeExtent")
  <2>1. \A x \in PlainExtents \cup CompositeExtents :
            GetInstance(ExtentCreateObjectPath(x)) = {ExtentCreateInstance(x)}
    BY GetsExtent DEF PlainExtents, CompositeExtents
  <2> QED
    BY <2>1, NamesOfEachObject, EachObject DEF Got
<1>4. Got("LogicalDisk")
  <2>1. \A v \in LogicalDisks :
            GetInstance(VolumeCreateObjectPath("LogicalDisk", v)) = {VolumeCreateInstance("LogicalDisk", v)}
    BY GetsVolume DEF VolumeClasses, LogicalDisks
  <2> QED
    BY <2>1, NamesOfEachObject, EachObject DEF Got
<1>5. Got("StorageVolume")
  <2>1. \A v \in StorageVolumes :
            GetInstance(VolumeCreateObjectPath("StorageVolume", v)) = {VolumeCreateInstance("StorageVolume", v)}
    BY GetsVolume DEF VolumeClasses, StorageVolumes
  <2> QED
    BY <2>1, NamesOfEachObject, EachObject DEF Got
<1>6. Got("StorageSettingWithHints")
  BY NamesOfEachObject, EachObject, GetsSetting DEF Got
<1> QED
  BY <1>1, <1>2, <1>3, <1>4, <1>5, <1>6 DEF ObjectClasses

LEMMA GetsNamesOfEchoed ==
    /\ GetInstance(SCSCreateHostedAssocObjectPath) = {SCSCreateHostedAssocInstance}
    /\ GetInstance(SCCCreateAssocObjectPath) = {SCCCreateAssocInstance}
    /\ GetInstance(SSCCreateAssocObjectPath) = {SSCCreateAssocInstance}
    /\ \A p : /\ GetInstance(PoolCreateHostedAssocObjectPath(p)) = {PoolCreateHostedAssocInstance(p)}
              /\ GetInstance(PoolCreateCapabilityAssocObjectPath(p)) = {PoolCreateCapabilityAssocInstance(p)}
    /\ \A p, x : /\ GetInstance(PoolCreateComponentAssocObjectPath(p, x)) = {PoolCreateComponentAssocInstance(p, x)}
                 /\ GetInstance(PoolCreateRemainingAssocObjectPath(p, x)) = {PoolCreateRemainingAssocInstance(p, x)}
    /\ \A s : GetInstance(SettingCreateGFCAssocObjectPath(s)) = {SettingCreateGFCAssocInstance(s)}
<1>1. /\ {"HostedStorageConfigurationService", "StorageConfigurationElementCapabilities"} \subseteq Echoed
      /\ {"HostedStoragePool", "StorageElementCapabilities"} \subseteq Echoed
      /\ {"AssociatedComponentExtent", "AssociatedRemainingExtent"} \subseteq Echoed
      /\ "StorageSettingsGeneratedFromCapabilities" \in Echoed
  BY DEF Echoed
<1>2. GetInstance(SCSCreateHostedAssocObjectPath) = {SCSCreateHostedAssocInstance}
  BY <1>1, GetsEchoed DEF SCSCreateHostedAssocObjectPath, SCSCreateHostedAssocInstance
<1>3. /\ GetInstance(SCCCreateAssocObjectPath) = {SCCCreateAssocInstance}
      /\ GetInstance(SSCCreateAssocObjectPath) = {SSCCreateAssocInstance}
  BY <1>1, GetsEchoed DEF SCCCreateAssocObjectPath, SCCCreateAssocInstance, SSCCreateAssocObjectPath,
                          SSCCreateAssocInstance
<1>4. ASSUME NEW p
      PROVE  /\ GetInstance(PoolCreateHostedAssocObjectPath(p)) = {PoolCreateHostedAssocInstance(p)}
             /\ GetInstance(PoolCreateCapabilityAssocObjectPath(p)) = {PoolCreateCapabilityAssocInstance(p)}
  BY <1>1, GetsEchoed DEF PoolCreateHostedAssocObjectPath, PoolCreateHostedAssocInstance,
                          PoolCreateCapabilityAssocObjectPath, PoolCreateCapabilityAssocInstance
<1>5. ASSUME NEW p, NEW x
      PROVE  /\ GetInstance(PoolCreateComponentAssocObjectPath(p, x)) = {PoolCreateComponentAssocInstance(p, x)}
             /\ GetInstance(PoolCreateRemainingAssocObjectPath(p, x)) = {PoolCreateRemainingAssocInstance(p, x)}
  BY <1>1, GetsEchoed DEF PoolCreateComponentAssocObjectPath, PoolCreateComponentAssocInstance,
                          PoolCreateRemainingAssocObjectPath, PoolCreateRemainingAssocInstance
<1>6. ASSUME NEW s
      PROVE  GetInstance(SettingCreateGFCAssocObjectPath(s)) = {SettingCreateGFCAssocInstance(s)}
  BY <1>1, GetsEchoed DEF SettingCreateGFCAssocObjectPath, SettingCreateGFCAssocInstance
<1> QED
  BY <1>2, <1>3, <1>4, <1>5, <1>6

LEMMA EchoedCanBeGot == \A class \in Echoed \ DeviceClasses : Got(class)
<1>1. Got("HostedStorageConfigurationService") /\ Got("StorageConfigurationElementCapabilities")
  BY GetsNamesOfEchoed, NamesOfEachAssociation, EachAssociation DEF Got
<1>2. Got("HostedStoragePool") /\ Got("StorageElementCapabilities")
  BY GetsNamesOfEchoed, NamesOfEachAssociation, EachAssociation DEF Got
<1>3. Got("AssociatedComponentExtent")
  <2> DEFINE path(p, x) == PoolCreateComponentAssocObjectPath(p, x)
             instance(p, x) == PoolCreateComponentAssocInstance(p, x)
             class == "AssociatedComponentExtent"
  <2>1. EnumInstanceNames(class) = UNION {{path(p, x) : x \in UsedBy(p)} : p \in Pools}
    BY NamesOfEachAssociation
  <2>2. EnumInstances(class) = UNION {{instance(p, x) : x \in UsedBy(p)} : p \in Pools}
    BY EachAssociation
  <2>3. \A p, x : GetInstance(path(p, x)) = {instance(p, x)}
    BY GetsNamesOfEchoed
  <2> HIDE DEF path, instance, class
  <2>4. Got(class)
    BY <2>1, <2>2, <2>3 DEF Got
  <2> QED
    BY <2>4 DEF class
<1>4. Got("AssociatedRemainingExtent")
  <2> DEFINE path(p, x) == PoolCreateRemainingAssocObjectPath(p, x)
             instance(p, x) == PoolCreateRemainingAssocInstance(p, x)
             class == "AssociatedRemainingExtent"
  <2>1. EnumInstanceNames(class) = UNION {{path(p, x) : x \in FreeOf(p)} : p \in Pools}
    BY NamesOfEachAssociation
  <2>2. EnumInstances(class) = UNION {{instance(p, x) : x \in FreeOf(p)} : p \in Pools}
    BY EachAssociation
  <2>3. \A p, x : GetInstance(path(p, x)) = {instance(p, x)}
    BY GetsNamesOfEchoed
  <2> HIDE DEF path, instance, class
  <2>4. Got(class)
    BY <2>1, <2>2, <2>3 DEF Got
  <2> QED
    BY <2>4 DEF class
<1>5. Got("StorageSettingsGeneratedFromCapabilities")
  BY SMTT(40), GetsNamesOfEchoed, NamesOfEachAssociation, EachAssociation DEF Got
<1> QED
  BY <1>1, <1>2, <1>3, <1>4, <1>5 DEF Echoed, DeviceClasses

LEMMA BasedOnCanBeGot ==
    ASSUME NavInv
    PROVE  Got("BasedOn") /\ Got("CompositeExtentBasedOn")
<1> DEFINE same(b) == {c \in graph.based : c.dep = b.dep /\ c.ant = b.ant}
<1>1. \A b \in graph.based : b \in same(b)
  OBVIOUS
<1>2. /\ \A b \in PlainOn : b \in graph.based /\ same(b) \subseteq PlainOn
      /\ \A b \in StripedOn : b \in graph.based /\ same(b) \subseteq StripedOn
  BY DEF PlainOn, StripedOn
<1>3. \A class \in {"BasedOn", "CompositeExtentBasedOn"}, b \in graph.based :
          GetInstance(ExtentCreateBasedOnAssocObjectPath(class, b)) =
              {ExtentCreateBasedOnAssocInstance(class, c) : c \in same(b)}
  BY GetsBasedOn
<1> HIDE DEF same
<1>4. Got("CompositeExtentBasedOn")
  <2> DEFINE path(b) == ExtentCreateBasedOnAssocObjectPath("CompositeExtentBasedOn", b)
             instance(b) == ExtentCreateBasedOnAssocInstance("CompositeExtentBasedOn", b)
  <2>1. \A b \in StripedOn : GetInstance(path(b)) = {instance(c) : c \in same(b)}
    BY <1>2, <1>3
  <2>2. /\ EnumInstanceNames("CompositeExtentBasedOn") = {path(b) : b \in StripedOn}
        /\ EnumInstances("CompositeExtentBasedOn") = {instance(b) : b \in StripedOn}
    BY NamesOfEachAssociation, EachAssociation
  <2> HIDE DEF path, instance
  <2> QED
    BY <1>1, <1>2, <2>1, <2>2 DEF Got
<1>5. Got("BasedOn")
  <2> DEFINE path(b) == ExtentCreateBasedOnAssocObjectPath("BasedOn", b)
             instance(b) == ExtentCreateBasedOnAssocInstance("BasedOn", b)
             volPath(v) == VolumeCreateBasedOnAssocObjectPath(VolumeClass(v), v)
             volInstance(v) == VolumeCreateBasedOnAssocInstance(VolumeClass(v), v)
  <2>1. \A b \in PlainOn : GetInstance(path(b)) = {instance(c) : c \in same(b)}
    BY <1>2, <1>3
  <2>2. \A v \in Volumes : GetInstance(volPath(v)) = {volInstance(v)}
    BY GetsVolumeBasedOn
  <2>3. /\ EnumInstanceNames("BasedOn") = {path(b) : b \in PlainOn} \cup {volPath(v) : v \in Volumes}
        /\ EnumInstances("BasedOn") = {instance(b) : b \in PlainOn} \cup {volInstance(v) : v \in Volumes}
    BY NamesOfEachAssociation, EachAssociation
  <2> HIDE DEF path, instance, volPath, volInstance
  <2> QED
    BY <1>1, <1>2, <2>1, <2>2, <2>3 DEF Got
<1> QED
  BY <1>4, <1>5

LEMMA AllocationsCanBeGot ==
    ASSUME NavInv
    PROVE  Got("AllocatedFromStoragePool")
<1> DEFINE same(a) == {b \in graph.alloc : b.dep = a.dep /\ b.ant = a.ant}
           path(a) == PoolCreateAllocFromAssocObjectPath(a.dep, a.ant)
           instance(a) == PoolCreateAllocFromAssocInstance(a.dep, a.ant, a.space)
           volPath(v) == VolumeCreateAllocFromAssocObjectPath(VolumeClass(v), v)
           volInstance(v) == VolumeCreateAllocFromAssocInstance(VolumeClass(v), v)
<1>1. \A a \in graph.alloc : a \in same(a) /\ same(a) \subseteq graph.alloc
  OBVIOUS
<1>2. \A a \in graph.alloc : GetInstance(path(a)) = {instance(b) : b \in same(a)}
  BY GetsAllocation
<1>3. \A v \in Volumes : GetInstance(volPath(v)) = {volInstance(v)}
  BY GetsVolumeAllocation
<1>4. /\ EnumInstanceNames("AllocatedFromStoragePool") = {path(a) : a \in graph.alloc} \cup {volPath(v) : v \in Volumes}
      /\ EnumInstances("AllocatedFromStoragePool") =
            {instance(a) : a \in graph.alloc} \cup {volInstance(v) : v \in Volumes}
  BY NamesOfEachAssociation, EachAssociation
<1> HIDE DEF same, path, instance, volPath, volInstance
<1> QED
  BY <1>1, <1>2, <1>3, <1>4 DEF Got

LEMMA SettingDataCanBeGot == Got("StorageElementSettingData")
<1>1. \A v : GetInstance(VolumeCreateSettingAssocObjectPath(VolumeClass(v), v)) =
              {VolumeCreateSettingAssocInstance(VolumeClass(v), v)}
  BY GetsVolumeSetting
<1> QED
  BY <1>1, NamesOfEachAssociation, EachAssociation DEF Got

\* A client that asks for the instance of a name it was given gets what it
\* would have been given with all others.
THEOREM NamesCanAlwaysBeGotFromArrays == NavSpec => []NamesCanBeGot
<1>1. NavInv => NamesCanBeGot
  <2> SUFFICES ASSUME NavInv PROVE \A class \in (ObjectClasses \cup AssocClasses) \ DeviceClasses : Got(class)
    BY DEF NamesCanBeGot, Got
  <2> QED
    BY ObjectsCanBeGot, EchoedCanBeGot, BasedOnCanBeGot, AllocationsCanBeGot, SettingDataCanBeGot, AssociationClasses
       DEF Echoed, DeviceClasses
<1> QED
  BY <1>1, NavigationSound, PTL

-----------------------------------------------------------------------------
(***************************************************************************)
(* What is found from an object.                                           *)
(***************************************************************************)

\* An instance of an association with its ends.
Joins(i, class, left, right) ==
    Class(NameOf(i)) = class /\ NameOf(i)[2] = left /\ NameOf(i)[3] = right

LEMMA InstancesJoin ==
    /\ Joins(SCSCreateHostedAssocInstance, "HostedStorageConfigurationService", System, SCSCreateObjectPath)
    /\ Joins(SCCCreateAssocInstance, "StorageConfigurationElementCapabilities", SCSCreateObjectPath, SCCCreateObjectPath)
    /\ Joins(SSCCreateAssocInstance, "StorageConfigurationElementCapabilities", SCSCreateObjectPath, SSCCreateObjectPath)
    /\ \A p : Joins(PoolCreateHostedAssocInstance(p), "HostedStoragePool", System, PoolCreateObjectPath(p))
    /\ \A p : Joins(PoolCreateCapabilityAssocInstance(p), "StorageElementCapabilities",
                    PoolCreateObjectPath(p), CapabilityCreateObjectPath(p))
    /\ \A p, x : Joins(PoolCreateComponentAssocInstance(p, x), "AssociatedComponentExtent",
                       PoolCreateObjectPath(p), ExtentCreateObjectPath(x))
    /\ \A p, x : Joins(PoolCreateRemainingAssocInstance(p, x), "AssociatedRemainingExtent",
                       PoolCreateObjectPath(p), ExtentCreateObjectPath(x))
    /\ \A s : Joins(SettingCreateGFCAssocInstance(s), "StorageSettingsGeneratedFromCapabilities",
                    CapabilityCreateObjectPath(settings[s].cap), SettingCreateObjectPath(s))
BY NamesOfAssociationInstances, PathParts
   DEF Joins, SCSCreateHostedAssocObjectPath, SCCCreateAssocObjectPath, SSCCreateAssocObjectPath,
       PoolCreateHostedAssocObjectPath, PoolCreateCapabilityAssocObjectPath, PoolCreateComponentAssocObjectPath,
       PoolCreateRemainingAssocObjectPath, SettingCreateGFCAssocObjectPath

LEMMA BuiltInstancesJoin ==
    /\ \A class, b : Joins(ExtentCreateBasedOnAssocInstance(class, b), class,
                           ExtentCreateObjectPath(b.ant), ExtentCreateObjectPath(b.dep))
    /\ \A class, v :
          /\ Joins(VolumeCreateBasedOnAssocInstance(class, v), "BasedOn",
                   ExtentCreateObjectPath(graph.vol[v].on), VolumeCreateObjectPath(class, v))
          /\ Joins(VolumeCreateAllocFromAssocInstance(class, v), "AllocatedFromStoragePool",
                   PoolCreateObjectPath(graph.vol[v].pool), VolumeCreateObjectPath(class, v))
          /\ Joins(VolumeCreateSettingAssocInstance(class, v), "StorageElementSettingData",
                   VolumeCreateObjectPath(class, v), SettingCreateObjectPath(VolumeSetting(v)))
    /\ \A dep, ant, space : Joins(PoolCreateAllocFromAssocInstance(dep, ant, space), "AllocatedFromStoragePool",
                                  PoolCreateObjectPath(ant), PoolCreateObjectPath(dep))
BY NamesOfAssociationInstances, PathParts
   DEF Joins, ExtentCreateBasedOnAssocObjectPath, VolumeCreateBasedOnAssocObjectPath,
       VolumeCreateAllocFromAssocObjectPath, VolumeCreateSettingAssocObjectPath, PoolCreateAllocFromAssocObjectPath

LEMMA RolesAre ==
    /\ \A class \in {"HostedStorageConfigurationService", "StorageSettingsGeneratedFromCapabilities",
                     "BasedOn", "CompositeExtentBasedOn", "AllocatedFromStoragePool"} :
          Roles[class][1] = "Antecedent" /\ Roles[class][2] = "Dependent"
    /\ \A class \in {"HostedStoragePool", "AssociatedComponentExtent", "AssociatedRemainingExtent"} :
          Roles[class][1] = "GroupComponent" /\ Roles[class][2] = "PartComponent"
    /\ \A class \in {"StorageConfigurationElementCapabilities", "StorageElementCapabilities"} :
          Roles[class][1] = "ManagedElement" /\ Roles[class][2] = "Capabilities"
    /\ Roles["StorageElementSettingData"][1] = "ManagedElement"
    /\ Roles["StorageElementSettingData"][2] = "SettingData"
BY DEF Roles, AntecedentDependent, GroupAndPart, ElementCapabilities

LEMMA ObjectKinds ==
    ASSUME NEW e \in Objects
    PROVE  \/ e = System \/ e = SCSCreateObjectPath \/ e = SCCCreateObjectPath \/ e = SSCCreateObjectPath
           \/ \E p \in Pools : e = PoolCreateObjectPath(p) \/ e = CapabilityCreateObjectPath(p)
           \/ \E x \in Extents : e = ExtentCreateObjectPath(x)
           \/ \E v \in Volumes : e = VolumeCreateObjectPath(VolumeClass(v), v)
           \/ \E s \in DOMAIN settings : e = SettingCreateObjectPath(s)
<1>1. CASE e = System
  BY <1>1
<1>2. CASE \E class \in ObjectClasses : e \in EnumInstanceNames(class)
  <2>1. PICK class \in ObjectClasses : e \in EnumInstanceNames(class)
    BY <1>2
  <2>2. CASE class \in {"StorageConfigurationService", "StorageConfigurationCapabilities", "SystemStorageCapabilities"}
    BY <2>1, <2>2, NamesOfEachObject
  <2>3. CASE class \in {"StorageCapabilities", "StoragePool"}
    BY <2>1, <2>3, NamesOfEachObject
  <2>4. CASE class = "StorageExtent"
    BY <2>1, <2>4, NamesOfEachObject DEF PlainExtents
  <2>5. CASE class = "CompositeExtent"
    BY <2>1, <2>5, NamesOfEachObject DEF CompositeExtents
  <2>6. CASE class = "LogicalDisk"
    BY <2>1, <2>6, NamesOfEachObject DEF LogicalDisks, VolumeClass
  <2>7. CASE class = "StorageVolume"
    BY <2>1, <2>7, NamesOfEachObject DEF StorageVolumes, LogicalDisks, VolumeClass
  <2>8. CASE class = "StorageSettingWithHints"
    BY <2>1, <2>8, NamesOfEachObject
  <2> QED
    BY <2>2, <2>3, <2>4, <2>5, <2>6, <2>7, <2>8 DEF ObjectClasses
<1>3. e = System \/ \E class \in ObjectClasses : e \in EnumInstanceNames(class)
  BY DEF Objects
<1> QED
  BY <1>1, <1>2, <1>3

\* An object is known by its class and its key.
LEMMA ObjectsAreKnown ==
    ASSUME NEW e \in Objects
    PROVE  /\ e = System <=> Class(e) = "UnitaryComputerSystem"
           /\ \A p : e = PoolCreateObjectPath(p) <=> Class(e) = "StoragePool" /\ Key(e) = p
           /\ \A p : e = CapabilityCreateObjectPath(p) <=> Class(e) = "StorageCapabilities" /\ Key(e) = p
           /\ \A x : e = ExtentCreateObjectPath(x) <=> Class(e) \in ExtentClasses /\ Key(e) = x
           /\ \A s : e = SettingCreateObjectPath(s) <=> Class(e) = "StorageSettingWithHints" /\ Key(e) = s
           /\ Class(e) = "StoragePool" => Key(e) \in Pools
<1> DEFINE Known == /\ e = System <=> Class(e) = "UnitaryComputerSystem"
                    /\ \A p : e = PoolCreateObjectPath(p) <=> Class(e) = "StoragePool" /\ Key(e) = p
                    /\ \A p : e = CapabilityCreateObjectPath(p) <=> Class(e) = "StorageCapabilities" /\ Key(e) = p
                    /\ \A x : e = ExtentCreateObjectPath(x) <=> Class(e) \in ExtentClasses /\ Key(e) = x
                    /\ \A s : e = SettingCreateObjectPath(s) <=> Class(e) = "StorageSettingWithHints" /\ Key(e) = s
                    /\ Class(e) = "StoragePool" => Key(e) \in Pools
<1>1. CASE e = System \/ e = SCSCreateObjectPath \/ e = SCCCreateObjectPath \/ e = SSCCreateObjectPath
  BY <1>1 DEF System, SCSCreateObjectPath, SCCCreateObjectPath, SSCCreateObjectPath, PoolCreateObjectPath,
              CapabilityCreateObjectPath, ExtentCreateObjectPath, SettingCreateObjectPath, Path, Class, Key, ExtentClasses
<1>2. ASSUME NEW p \in Pools, e = PoolCreateObjectPath(p) \/ e = CapabilityCreateObjectPath(p) PROVE Known
  BY <1>2 DEF System, PoolCreateObjectPath, CapabilityCreateObjectPath, ExtentCreateObjectPath,
              SettingCreateObjectPath, Path, Class, Key, ExtentClasses
<1>3. ASSUME NEW x \in Extents, e = ExtentCreateObjectPath(x) PROVE Known
  BY <1>3 DEF System, PoolCreateObjectPath, CapabilityCreateObjectPath, ExtentCreateObjectPath,
              SettingCreateObjectPath, Path, Class, Key, ExtentClasses
<1>4. ASSUME NEW v, e = VolumeCreateObjectPath(VolumeClass(v), v) PROVE Known
  BY <1>4, VolumeClassIs
     DEF System, PoolCreateObjectPath, CapabilityCreateObjectPath, ExtentCreateObjectPath, SettingCreateObjectPath,
         VolumeCreateObjectPath, Path, Class, Key, ExtentClasses, VolumeClasses
<1>5. ASSUME NEW s, e = SettingCreateObjectPath(s) PROVE Known
  BY <1>5 DEF System, PoolCreateObjectPath, CapabilityCreateObjectPath, ExtentCreateObjectPath,
              SettingCreateObjectPath, Path, Class, Key, ExtentClasses
<1> QED
  BY <1>1, <1>2, <1>3, <1>4, <1>5, ObjectKinds

LEMMA VolumesAreKnown ==
    ASSUME NEW e \in Objects, NEW v \in Volumes
    PROVE  e = VolumeCreateObjectPath(VolumeClass(v), v) <=> Class(e) \in VolumeClasses /\ v \in VolumesFind(Key(e))
<1>1. e = VolumeCreateObjectPath(VolumeClass(v), v) => Class(e) \in VolumeClasses /\ v \in VolumesFind(Key(e))
  BY PathParts, VolumeClassIs DEF VolumeCreateObjectPath, VolumesFind, Volumes
<1>2. ASSUME Class(e) \in VolumeClasses, v \in VolumesFind(Key(e))
      PROVE  e = VolumeCreateObjectPath(VolumeClass(v), v)
  <2>1. \E w \in Volumes : e = VolumeCreateObjectPath(VolumeClass(w), w)
    <3>1. /\ e # System /\ \A s : e # SettingCreateObjectPath(s)
          /\ \A p : e # PoolCreateObjectPath(p) /\ e # CapabilityCreateObjectPath(p)
          /\ \A x : e # ExtentCreateObjectPath(x)
      BY <1>2, ObjectsAreKnown DEF VolumeClasses, ExtentClasses
    <3>2. e # SCSCreateObjectPath /\ e # SCCCreateObjectPath /\ e # SSCCreateObjectPath
      BY <1>2, PathParts DEF SCSCreateObjectPath, SCCCreateObjectPath, SSCCreateObjectPath, VolumeClasses
    <3> QED
      BY <3>1, <3>2, ObjectKinds
  <2>2. PICK w \in Volumes : e = VolumeCreateObjectPath(VolumeClass(w), w)
    BY <2>1
  <2>3. Key(e) = <<"volume", w, 0>> /\ Key(e) = <<"volume", v, 0>>
    BY <1>2, <2>2, PathParts DEF VolumeCreateObjectPath, VolumesFind
  <2> QED
    BY <2>2, <2>3
<1> QED
  BY <1>1, <1>2

\* Association i is found from object e when the role asked for, if any, is
\* that of the other end.  A storage volume does not find its setting.
FoundBy(i, e, class, rr) ==
    /\ \/ e = NameOf(i)[2] /\ Asked(rr, Roles[class][2])
       \/ e = NameOf(i)[3] /\ Asked(rr, Roles[class][1])
    /\ ~(e = NameOf(i)[2] /\ SettingOfStorageVolume(NameOf(i)))
Findings(e, class, rr) == {i \in EnumInstances(class) : FoundBy(i, e, class, rr)}

LEMMA FoundByEnds ==
    ASSUME NEW class, class # "StorageElementSettingData", NEW e, NEW rr, NEW i, NEW left, NEW right,
           Joins(i, class, left, right)
    PROVE  FoundBy(i, e, class, rr) <=> \/ e = left /\ Asked(rr, Roles[class][2])
                                        \/ e = right /\ Asked(rr, Roles[class][1])
BY DEF FoundBy, Joins, SettingOfStorageVolume

LEMMA ReferencesToServices ==
    ASSUME NEW e \in Objects, NEW rr
    PROVE  References(e, "HostedStorageConfigurationService", NULL, rr) =
               Findings(e, "HostedStorageConfigurationService", rr)
<1> DEFINE A == "HostedStorageConfigurationService"
           I == SCSCreateHostedAssocInstance
<1>1. FoundBy(I, e, A, rr) <=> (e = System /\ Asked(rr, "Dependent")) \/ (e = SCSCreateObjectPath /\ Asked(rr, "Antecedent"))
  BY InstancesJoin, FoundByEnds, RolesAre
<1>2. References(e, A, NULL, rr) =
          Only((e = System /\ Asked(rr, "Dependent")) \/ (e = SCSCreateObjectPath /\ Asked(rr, "Antecedent")), {I})
  BY DEF References, RefsHostedStorageConfigurationService, Derived
<1>3. EnumInstances(A) = {I}
  BY EachAssociation
<1> HIDE DEF A, I
<1> QED
  BY <1>1, <1>2, <1>3 DEF Findings, Only, A

LEMMA ReferencesToServiceCapabilities ==
    ASSUME NEW e \in Objects, NEW rr
    PROVE  References(e, "StorageConfigurationElementCapabilities", NULL, rr) =
               Findings(e, "StorageConfigurationElementCapabilities", rr)
<1> DEFINE A == "StorageConfigurationElementCapabilities"
           I == SCCCreateAssocInstance
           J == SSCCreateAssocInstance
           isI == \/ e = SCCCreateObjectPath /\ Asked(rr, "ManagedElement")
                  \/ e = SCSCreateObjectPath /\ Asked(rr, "Capabilities")
           isJ == \/ e = SSCCreateObjectPath /\ Asked(rr, "ManagedElement")
                  \/ e = SCSCreateObjectPath /\ Asked(rr, "Capabilities")
<1>1. (FoundBy(I, e, A, rr) <=> isI) /\ (FoundBy(J, e, A, rr) <=> isJ)
  BY InstancesJoin, FoundByEnds, RolesAre
<1>2. References(e, A, NULL, rr) = Only(isI, {I}) \cup Only(isJ, {J})
  BY DEF References, RefsStorageConfigurationElementCapabilities, Derived, Only
<1>3. EnumInstances(A) = {I, J}
  BY EachAssociation
<1> HIDE DEF A, I, J, isI, isJ
<1> QED
  BY <1>1, <1>2, <1>3 DEF Findings, Only, A

LEMMA ReferencesToPools ==
    ASSUME NEW e \in Objects, NEW rr
    PROVE  References(e, "HostedStoragePool", NULL, rr) = Findings(e, "HostedStoragePool", rr)
<1> DEFINE A == "HostedStoragePool"
           I(p) == PoolCreateHostedAssocInstance(p)
           fromSystem == e = System /\ Asked(rr, "PartComponent")
           fromPool == Class(e) = "StoragePool" /\ Asked(rr, "GroupComponent")
<1>1. \A p : FoundBy(I(p), e, A, rr) <=> fromSystem \/ (fromPool /\ Key(e) = p)
  BY InstancesJoin, FoundByEnds, RolesAre, ObjectsAreKnown
<1>2. References(e, A, NULL, rr) =
          Only(fromSystem, {I(p) : p \in Pools}) \cup Only(fromPool, {I(p) : p \in Pools \cap {Key(e)}})
  BY DEF References, RefsHostedStoragePool, Derived
<1>3. EnumInstances(A) = {I(p) : p \in Pools}
  BY EachAssociation
<1> HIDE DEF A, I, fromSystem, fromPool
<1> QED
  BY <1>1, <1>2, <1>3 DEF Findings, Only, A

LEMMA ReferencesToPoolCapabilities ==
    ASSUME NEW e \in Objects, NEW rr
    PROVE  References(e, "StorageElementCapabilities", NULL, rr) = Findings(e, "StorageElementCapabilities", rr)
<1> DEFINE A == "StorageElementCapabilities"
           I(p) == PoolCreateCapabilityAssocInstance(p)
           from == \/ Class(e) = "StorageCapabilities" /\ Asked(rr, "ManagedElement")
                   \/ Class(e) = "StoragePool" /\ Asked(rr, "Capabilities")
<1>1. \A p : FoundBy(I(p), e, A, rr) <=> from /\ Key(e) = p
  BY InstancesJoin, FoundByEnds, RolesAre, ObjectsAreKnown
<1>2. References(e, A, NULL, rr) = Only(from, {I(p) : p \in Pools \cap {Key(e)}})
  BY DEF References, RefsStorageElementCapabilities, Derived
<1>3. EnumInstances(A) = {I(p) : p \in Pools}
  BY EachAssociation
<1> HIDE DEF A, I, from
<1> QED
  BY <1>1, <1>2, <1>3 DEF Findings, Only, A

\* The pool of an extent that has one, and the extents of a pool.
LEMMA ComponentsAreOfPools ==
    ASSUME NavInv
    PROVE  /\ \A p : Components(graph, p) = {x \in Extents : graph.ext[x].pool = p}
           /\ \A x \in Extents : graph.ext[x].pool # NULL <=> graph.ext[x].pool \in Pools
<1>1. \A x \in Extents : graph.ext[x].pool \in Pools \cup {NULL}
  BY DEF NavInv, Navigable, Extents, Pools
<1>2. NULL \notin Pools
  BY ScanAssumption, DiskAssumption DEF NavInv, Navigable, PoolsOK, Pools
<1> QED
  BY <1>1, <1>2 DEF Components, Extents

\* What RefsAssociatedComponentExtent and RefsAssociatedRemainingExtent find:
\* the extents of a pool, or one extent with its pool.
FromPool(e, rr) == Class(e) = "StoragePool" /\ Asked(rr, "PartComponent")
FromExtent(e, rr) == Class(e) \in ExtentClasses /\ Asked(rr, "GroupComponent")
Mine(e, rr) ==
    IF Class(e) = "StoragePool" THEN Only(Asked(rr, "PartComponent"), Components(graph, Key(e)))
    ELSE Only(FromExtent(e, rr), {x \in Extents \cap {Key(e)} : graph.ext[x].pool # NULL})

LEMMA MineIsAsked ==
    ASSUME NEW e, NEW rr
    PROVE  Mine(e, rr) =
               IF Class(e) = "StoragePool"
               THEN Only(Derived("StorageExtent", NULL) /\ Asked(rr, "PartComponent"), Components(graph, Key(e)))
               ELSE Only(Class(e) \in ExtentClasses /\ Derived("StoragePool", NULL) /\ Asked(rr, "GroupComponent"),
                         {x \in Extents \cap {Key(e)} : graph.ext[x].pool # NULL})
BY DEF Mine, FromExtent, Derived, Only

LEMMA MineAre ==
    ASSUME NavInv, NEW e \in Objects, NEW rr
    PROVE  \A x : x \in Mine(e, rr) <=>
               /\ x \in Extents /\ graph.ext[x].pool \in Pools
               /\ (FromPool(e, rr) /\ Key(e) = graph.ext[x].pool) \/ (FromExtent(e, rr) /\ Key(e) = x)
<1>1. Class(e) = "StoragePool" => Key(e) \in Pools /\ ~FromExtent(e, rr)
  BY ObjectsAreKnown DEF FromExtent, ExtentClasses
<1> QED
  BY <1>1, ComponentsAreOfPools DEF Mine, FromPool, FromExtent, Only

LEMMA ReferencesToComponents ==
    ASSUME NavInv, NEW e \in Objects, NEW rr
    PROVE  References(e, "AssociatedComponentExtent", NULL, rr) = Findings(e, "AssociatedComponentExtent", rr)
<1> DEFINE A == "AssociatedComponentExtent"
           I(p, x) == PoolCreateComponentAssocInstance(p, x)
<1>1. \A p, x : FoundBy(I(p, x), e, A, rr) <=>
                    (FromPool(e, rr) /\ Key(e) = p) \/ (FromExtent(e, rr) /\ Key(e) = x)
  BY InstancesJoin, FoundByEnds, RolesAre, ObjectsAreKnown DEF FromPool, FromExtent
<1>2. References(e, A, NULL, rr) = {I(graph.ext[x].pool, x) : x \in {y \in Mine(e, rr) : ~ExtentIsFreespace(y)}}
  <2>1. References(e, A, NULL, rr) = RefsAssociatedComponentExtent(e, NULL, rr)
    BY DEF References
  <2> QED
    BY <2>1, MineIsAsked DEF RefsAssociatedComponentExtent
<1>3. EnumInstances(A) = UNION {{I(p, x) : x \in UsedBy(p)} : p \in Pools}
  BY EachAssociation
<1>4. \A i : i \in EnumInstances(A) <=> \E x \in Extents : /\ graph.ext[x].pool \in Pools /\ ~ExtentIsFreespace(x)
                                                          /\ i = I(graph.ext[x].pool, x)
  BY <1>3, ComponentsAreOfPools DEF UsedBy
<1>5. \A i : i \in References(e, A, NULL, rr) <=> \E x \in Mine(e, rr) : ~ExtentIsFreespace(x) /\ i = I(graph.ext[x].pool, x)
  BY <1>2
<1> HIDE DEF A, I
<1>6. \A i : i \in References(e, A, NULL, rr) <=> i \in EnumInstances(A) /\ FoundBy(i, e, A, rr)
  BY <1>1, <1>4, <1>5, MineAre
<1> QED
  BY <1>6 DEF Findings, A

LEMMA ReferencesToRemaining ==
    ASSUME NavInv, NEW e \in Objects, NEW rr
    PROVE  References(e, "AssociatedRemainingExtent", NULL, rr) = Findings(e, "AssociatedRemainingExtent", rr)
<1> DEFINE A == "AssociatedRemainingExtent"
           I(p, x) == PoolCreateRemainingAssocInstance(p, x)
<1>1. \A p, x : FoundBy(I(p, x), e, A, rr) <=>
                    (FromPool(e, rr) /\ Key(e) = p) \/ (FromExtent(e, rr) /\ Key(e) = x)
  BY InstancesJoin, FoundByEnds, RolesAre, ObjectsAreKnown DEF FromPool, FromExtent
<1>2. References(e, A, NULL, rr) = {I(graph.ext[x].pool, x) : x \in {y \in Mine(e, rr) : ExtentIsFreespace(y)}}
  <2>1. References(e, A, NULL, rr) = RefsAssociatedRemainingExtent(e, NULL, rr)
    BY DEF References
  <2> QED
    BY <2>1, MineIsAsked DEF RefsAssociatedRemainingExtent
<1>3. EnumInstances(A) = UNION {{I(p, x) : x \in FreeOf(p)} : p \in Pools}
  BY EachAssociation
<1>4. \A i : i \in EnumInstances(A) <=> \E x \in Extents : /\ graph.ext[x].pool \in Pools /\ ExtentIsFreespace(x)
                                                          /\ i = I(graph.ext[x].pool, x)
  BY <1>3, ComponentsAreOfPools DEF FreeOf
<1>5. \A i : i \in References(e, A, NULL, rr) <=> \E x \in Mine(e, rr) : ExtentIsFreespace(x) /\ i = I(graph.ext[x].pool, x)
  BY <1>2
<1> HIDE DEF A, I
<1>6. \A i : i \in References(e, A, NULL, rr) <=> i \in EnumInstances(A) /\ FoundBy(i, e, A, rr)
  BY <1>1, <1>4, <1>5, MineAre
<1> QED
  BY <1>6 DEF Findings, A

LEMMA ReferencesToGenerated ==
    ASSUME NEW e \in Objects, NEW rr
    PROVE  References(e, "StorageSettingsGeneratedFromCapabilities", NULL, rr) =
               Findings(e, "StorageSettingsGeneratedFromCapabilities", rr)
<1> DEFINE A == "StorageSettingsGeneratedFromCapabilities"
           I(s) == SettingCreateGFCAssocInstance(s)
           fromCap == Class(e) = "StorageCapabilities" /\ Asked(rr, "Dependent")
           fromSetting == Class(e) = "StorageSettingWithHints" /\ Asked(rr, "Antecedent")
           mine == Only(fromCap, {s \in Generated : settings[s].cap = Key(e)}) \cup Only(fromSetting, Generated \cap {Key(e)})
<1>1. \A s : FoundBy(I(s), e, A, rr) <=> (fromCap /\ settings[s].cap = Key(e)) \/ (fromSetting /\ Key(e) = s)
  BY InstancesJoin, FoundByEnds, RolesAre, ObjectsAreKnown
<1>2. References(e, A, NULL, rr) = {I(s) : s \in mine}
  BY DEF References, RefsStorageSettingsGeneratedFromCapabilities, Derived
<1>3. EnumInstances(A) = {I(s) : s \in Generated}
  BY EachAssociation
<1>4. \A s : s \in mine <=> s \in Generated /\ ((fromCap /\ settings[s].cap = Key(e)) \/ (fromSetting /\ Key(e) = s))
  BY DEF Only
<1> HIDE DEF A, I, mine, fromCap, fromSetting
<1> QED
  BY <1>1, <1>2, <1>3, <1>4 DEF Findings, A

\* BasedOn from an extent.
FromBuilt(e, rr, left, right) ==
    /\ Class(e) \in ExtentClasses
    /\ (Key(e) = right /\ Asked(rr, "Antecedent")) \/ (Key(e) = left /\ Asked(rr, "Dependent"))

LEMMA BasedOnIsFound ==
    ASSUME NEW e \in Objects, NEW rr, NEW class \in {"BasedOn", "CompositeExtentBasedOn"}, NEW b
    PROVE  FoundBy(ExtentCreateBasedOnAssocInstance(class, b), e, class, rr) <=> FromBuilt(e, rr, b.ant, b.dep)
<1>1. /\ Joins(ExtentCreateBasedOnAssocInstance(class, b), class,
               ExtentCreateObjectPath(b.ant), ExtentCreateObjectPath(b.dep))
      /\ class # "StorageElementSettingData"
  BY BuiltInstancesJoin
<1>2. Roles[class][1] = "Antecedent" /\ Roles[class][2] = "Dependent"
  BY RolesAre
<1> QED
  BY <1>1, <1>2, FoundByEnds, ObjectsAreKnown DEF FromBuilt

LEMMA BasedOnOfExtentFinds ==
    ASSUME NEW e, NEW rr, NEW class, NEW on, Class(e) \in ExtentClasses
    PROVE  BasedOnOfExtent(class, on, Key(e), NULL, rr) =
               {ExtentCreateBasedOnAssocInstance(class, b) : b \in {c \in on : FromBuilt(e, rr, c.ant, c.dep)}}
BY DEF BasedOnOfExtent, FromBuilt, Derived

LEMMA ReferencesToStripes ==
    ASSUME NEW e \in Objects, NEW rr
    PROVE  References(e, "CompositeExtentBasedOn", NULL, rr) = Findings(e, "CompositeExtentBasedOn", rr)
<1> DEFINE A == "CompositeExtentBasedOn"
           I(b) == ExtentCreateBasedOnAssocInstance(A, b)
<1>1. \A b : FoundBy(I(b), e, A, rr) <=> FromBuilt(e, rr, b.ant, b.dep)
  BY BasedOnIsFound
<1>2. References(e, A, NULL, rr) =
          Only(Class(e) \in ExtentClasses, {I(b) : b \in {c \in StripedOn : FromBuilt(e, rr, c.ant, c.dep)}})
  <2>1. References(e, A, NULL, rr) = RefsCompositeExtentBasedOn(e, NULL, rr)
    BY DEF References
  <2> QED
    BY <2>1, BasedOnOfExtentFinds DEF RefsCompositeExtentBasedOn, Only
<1>3. EnumInstances(A) = {I(b) : b \in StripedOn}
  BY EachAssociation
<1>4. \A left, right : FromBuilt(e, rr, left, right) => Class(e) \in ExtentClasses
  BY DEF FromBuilt
<1> HIDE DEF A, I
<1> QED
  BY <1>1, <1>2, <1>3, <1>4 DEF Findings, Only, A

\* What an association of a volume with something below it is found by.
FromVolume(e, rr, v) == Class(e) \in VolumeClasses /\ v \in VolumesFind(Key(e)) /\ Asked(rr, "Antecedent")

LEMMA VolumeBasedOnIsFound ==
    ASSUME NEW e \in Objects, NEW rr, NEW v \in Volumes
    PROVE  FoundBy(VolumeCreateBasedOnAssocInstance(VolumeClass(v), v), e, "BasedOn", rr) <=>
               \/ FromVolume(e, rr, v)
               \/ Class(e) \in ExtentClasses /\ Key(e) = graph.vol[v].on /\ Asked(rr, "Dependent")
<1>1. /\ Joins(VolumeCreateBasedOnAssocInstance(VolumeClass(v), v), "BasedOn",
               ExtentCreateObjectPath(graph.vol[v].on), VolumeCreateObjectPath(VolumeClass(v), v))
      /\ Roles["BasedOn"][1] = "Antecedent" /\ Roles["BasedOn"][2] = "Dependent"
  BY BuiltInstancesJoin, RolesAre
<1> QED
  BY <1>1, FoundByEnds, ObjectsAreKnown, VolumesAreKnown DEF FromVolume

LEMMA ReferencesToBasedOn ==
    ASSUME NEW e \in Objects, NEW rr, Class(e) \in VolumeClasses => rr = NULL
    PROVE  References(e, "BasedOn", NULL, rr) = Findings(e, "BasedOn", rr)
<1> DEFINE A == "BasedOn"
           I(b) == ExtentCreateBasedOnAssocInstance(A, b)
           J(v) == VolumeCreateBasedOnAssocInstance(VolumeClass(v), v)
           on(v) == Key(e) = graph.vol[v].on /\ Asked(rr, "Dependent")
<1>1. \A b : FoundBy(I(b), e, A, rr) <=> FromBuilt(e, rr, b.ant, b.dep)
  BY BasedOnIsFound
<1>2. \A v \in Volumes : FoundBy(J(v), e, A, rr) <=> FromVolume(e, rr, v) \/ (Class(e) \in ExtentClasses /\ on(v))
  BY VolumeBasedOnIsFound
<1>3. EnumInstances(A) = {I(b) : b \in PlainOn} \cup {J(v) : v \in Volumes}
  BY EachAssociation
<1>4. References(e, A, NULL, rr) = RefsBasedOn(e, NULL, rr)
  BY DEF References
<1>5. CASE Class(e) \in ExtentClasses
  <2>1. Class(e) \notin VolumeClasses /\ \A v : ~FromVolume(e, rr, v)
    BY <1>5 DEF ExtentClasses, VolumeClasses, FromVolume
  <2>2. BasedOnOfVolumes(Key(e), NULL, rr) = {J(v) : v \in {w \in Volumes : on(w)}}
    BY DEF BasedOnOfVolumes, VolumesOn, Volumes, Only
  <2>3. RefsBasedOn(e, NULL, rr) =
            {I(b) : b \in {c \in PlainOn : FromBuilt(e, rr, c.ant, c.dep)}} \cup {J(v) : v \in {w \in Volumes : on(w)}}
    BY <1>5, <2>1, <2>2, BasedOnOfExtentFinds DEF RefsBasedOn
  <2> HIDE DEF A, I, J, on
  <2> QED
    BY <1>1, <1>2, <1>3, <1>4, <1>5, <2>1, <2>3 DEF Findings, A
<1>6. CASE Class(e) \in VolumeClasses
  <2>1. /\ Class(e) \notin ExtentClasses /\ \A left, right : ~FromBuilt(e, rr, left, right)
        /\ \A v : FromVolume(e, rr, v) <=> v \in VolumesFind(Key(e))
    BY <1>6 DEF ExtentClasses, VolumeClasses, FromVolume, FromBuilt, Asked
  <2>2. RefsBasedOn(e, NULL, rr) = {J(v) : v \in VolumesFind(Key(e))}
    BY <1>6, <2>1 DEF RefsBasedOn, Only, Derived
  <2>3. VolumesFind(Key(e)) \subseteq Volumes
    BY DEF VolumesFind, Volumes
  <2> HIDE DEF A, I, J, on
  <2> QED
    BY <1>1, <1>2, <1>3, <1>4, <2>1, <2>2, <2>3 DEF Findings, A
<1>7. CASE Class(e) \notin ExtentClasses /\ Class(e) \notin VolumeClasses
  <2>1. RefsBasedOn(e, NULL, rr) = {}
    BY <1>7 DEF RefsBasedOn
  <2> HIDE DEF A, I, J, on
  <2> QED
    BY <1>1, <1>2, <1>3, <1>4, <1>7, <2>1 DEF Findings, A, FromBuilt, FromVolume
<1> QED
  BY <1>5, <1>6, <1>7

LEMMA ReferencesToAllocations ==
    ASSUME NEW e \in Objects, NEW rr
    PROVE  References(e, "AllocatedFromStoragePool", NULL, rr) = Findings(e, "AllocatedFromStoragePool", rr)
<1> DEFINE A == "AllocatedFromStoragePool"
           I(a) == PoolCreateAllocFromAssocInstance(a.dep, a.ant, a.space)
           J(v) == VolumeCreateAllocFromAssocInstance(VolumeClass(v), v)
           isPool == Class(e) = "StoragePool"
           joined(a) == (Key(e) = a.dep /\ Asked(rr, "Antecedent")) \/ (Key(e) = a.ant /\ Asked(rr, "Dependent"))
           of(v) == Key(e) = graph.vol[v].pool /\ Asked(rr, "Dependent")
<1>0. Roles[A][1] = "Antecedent" /\ Roles[A][2] = "Dependent"
  BY RolesAre
<1>1. \A a : FoundBy(I(a), e, A, rr) <=> isPool /\ joined(a)
  BY <1>0, BuiltInstancesJoin, FoundByEnds, ObjectsAreKnown
<1>2. \A v \in Volumes : FoundBy(J(v), e, A, rr) <=> FromVolume(e, rr, v) \/ (isPool /\ of(v))
  BY <1>0, BuiltInstancesJoin, FoundByEnds, ObjectsAreKnown, VolumesAreKnown DEF FromVolume
<1>3. EnumInstances(A) = {I(a) : a \in graph.alloc} \cup {J(v) : v \in Volumes}
  BY EachAssociation
<1>4. References(e, A, NULL, rr) = RefsAllocatedFromStoragePool(e, NULL, rr)
  BY DEF References
<1>5. CASE isPool
  <2>1. Class(e) \notin VolumeClasses /\ \A v : ~FromVolume(e, rr, v)
    BY <1>5 DEF VolumeClasses, FromVolume
  <2>2. RefsAllocatedFromStoragePool(e, NULL, rr) = AllocatedOfPool(Key(e), NULL, rr)
    BY <1>5, <2>1 DEF RefsAllocatedFromStoragePool
  <2>3. AllocatedOfPool(Key(e), NULL, rr) =
            {I(a) : a \in {b \in graph.alloc : joined(b)}} \cup {J(v) : v \in {w \in Volumes : of(w)}}
    BY DEF AllocatedOfPool, Derived, Only
  <2> HIDE DEF A, I, J, joined, of, isPool
  <2> QED
    BY <1>1, <1>2, <1>3, <1>4, <1>5, <2>1, <2>2, <2>3 DEF Findings, A
<1>6. CASE Class(e) \in VolumeClasses
  <2>1. /\ ~isPool /\ VolumesFind(Key(e)) \subseteq Volumes
        /\ \A v : FromVolume(e, rr, v) <=> v \in VolumesFind(Key(e)) /\ Asked(rr, "Antecedent")
    BY <1>6 DEF VolumeClasses, FromVolume, VolumesFind, Volumes
  <2>2. RefsAllocatedFromStoragePool(e, NULL, rr) = Only(Asked(rr, "Antecedent"), {J(v) : v \in VolumesFind(Key(e))})
    BY <1>6, <2>1 DEF RefsAllocatedFromStoragePool, Only, Derived
  <2> HIDE DEF A, I, J, joined, of, isPool
  <2> QED
    BY <1>1, <1>2, <1>3, <1>4, <2>1, <2>2 DEF Findings, A, Only
<1>7. CASE ~isPool /\ Class(e) \notin VolumeClasses
  <2>1. RefsAllocatedFromStoragePool(e, NULL, rr) = {}
    BY <1>7 DEF RefsAllocatedFromStoragePool
  <2> HIDE DEF A, I, J, joined, of, isPool
  <2> QED
    BY <1>1, <1>2, <1>3, <1>4, <1>7, <2>1 DEF Findings, A, FromVolume
<1> QED
  BY <1>5, <1>6, <1>7

\* The volume of a setting.
LEMMA SettingOfVolume ==
    ASSUME NavInv, NEW s, NEW v \in Volumes
    PROVE  s = VolumeSetting(v) <=> s \in DOMAIN settings /\ settings[s].vol = v
<1>1. /\ \A t \in DOMAIN settings : SettingOK(graph, t, settings[t])
      /\ VolumeSetting(v) \in DOMAIN settings /\ settings[VolumeSetting(v)].vol = v
  BY DEF NavInv, Anchored, Volumes
<1>2. v # NULL
  BY DiskAssumption DEF NavInv, Navigable, VolsOK, Volumes
<1> QED
  BY <1>1, <1>2 DEF SettingOK

LEMMA SettingDataIsFound ==
    ASSUME NEW e \in Objects, NEW rr, NEW v \in Volumes
    PROVE  FoundBy(VolumeCreateSettingAssocInstance(VolumeClass(v), v), e, "StorageElementSettingData", rr) <=>
               \/ Class(e) = "LogicalDisk" /\ v \in VolumesFind(Key(e)) /\ Asked(rr, "SettingData")
               \/ Class(e) = "StorageSettingWithHints" /\ Key(e) = VolumeSetting(v) /\ Asked(rr, "ManagedElement")
<1> DEFINE i == VolumeCreateSettingAssocInstance(VolumeClass(v), v)
           left == VolumeCreateObjectPath(VolumeClass(v), v)
           right == SettingCreateObjectPath(VolumeSetting(v))
<1>1. Joins(i, "StorageElementSettingData", left, right)
  BY BuiltInstancesJoin
<1>2. Roles["StorageElementSettingData"][1] = "ManagedElement" /\ Roles["StorageElementSettingData"][2] = "SettingData"
  BY RolesAre
<1>3. e = right <=> Class(e) = "StorageSettingWithHints" /\ Key(e) = VolumeSetting(v)
  BY ObjectsAreKnown
<1>4. e = left <=> Class(e) \in VolumeClasses /\ v \in VolumesFind(Key(e))
  BY VolumesAreKnown
<1>5. Class(left) = VolumeClass(v) /\ VolumeClass(v) \in VolumeClasses
  BY PathParts, VolumeClassIs DEF VolumeCreateObjectPath
<1>6. e = left /\ Class(left) # "StorageVolume" <=> Class(e) = "LogicalDisk" /\ v \in VolumesFind(Key(e))
  BY <1>4, <1>5 DEF VolumeClasses
<1> HIDE DEF i, left, right
<1>7. FoundBy(i, e, "StorageElementSettingData", rr) <=>
          /\ (e = left /\ Asked(rr, "SettingData")) \/ (e = right /\ Asked(rr, "ManagedElement"))
          /\ ~(e = left /\ Class(left) = "StorageVolume")
  BY <1>1, <1>2 DEF FoundBy, Joins, SettingOfStorageVolume
<1>8. e = right => e # left
  BY <1>3, <1>4 DEF VolumeClasses
<1> QED
  BY <1>3, <1>6, <1>7, <1>8 DEF i

LEMMA ReferencesToSettingData ==
    ASSUME NavInv, NEW e \in Objects, NEW rr
    PROVE  References(e, "StorageElementSettingData", NULL, rr) = Findings(e, "StorageElementSettingData", rr)
<1> DEFINE A == "StorageElementSettingData"
           J(v) == VolumeCreateSettingAssocInstance(VolumeClass(v), v)
           fromDisk == Class(e) = "LogicalDisk" /\ Asked(rr, "SettingData")
           fromSetting == Class(e) = "StorageSettingWithHints" /\ Asked(rr, "ManagedElement")
           set == {settings[s].vol : s \in {t \in DOMAIN settings : t = Key(e)}} \cap Volumes
           mine == Only(fromDisk, VolumesFind(Key(e))) \cup Only(fromSetting, set)
<1>1. \A v \in Volumes : FoundBy(J(v), e, A, rr) <=>
          (fromDisk /\ v \in VolumesFind(Key(e))) \/ (fromSetting /\ Key(e) = VolumeSetting(v))
  BY SettingDataIsFound
<1>2. References(e, A, NULL, rr) = {J(v) : v \in mine}
  <2>1. References(e, A, NULL, rr) = RefsStorageElementSettingData(e, NULL, rr)
    BY DEF References
  <2>2. mine = Only(Class(e) = "LogicalDisk" /\ Derived("StorageSettingWithHints", NULL) /\ Asked(rr, "SettingData"),
                    VolumesFind(Key(e)))
               \cup Only(Class(e) = "StorageSettingWithHints" /\ Asked(rr, "ManagedElement")
                            /\ Derived("LogicalDisk", NULL) /\ Derived("StorageVolume", NULL), set)
    BY DEF Derived, Only
  <2> QED
    BY <2>1, <2>2 DEF RefsStorageElementSettingData
<1>3. EnumInstances(A) = {J(v) : v \in Volumes}
  BY EachAssociation
<1>4. \A v : v \in set <=> v \in Volumes /\ Key(e) = VolumeSetting(v)
  BY SettingOfVolume
<1>5. VolumesFind(Key(e)) \subseteq Volumes
  BY DEF VolumesFind, Volumes
<1>6. \A v : v \in mine <=> /\ v \in Volumes
                            /\ (fromDisk /\ v \in VolumesFind(Key(e))) \/ (fromSetting /\ Key(e) = VolumeSetting(v))
  BY <1>4, <1>5 DEF Only
<1> HIDE DEF A, J, mine, fromDisk, fromSetting
<1> QED
  BY <1>1, <1>2, <1>3, <1>6 DEF Findings, A

\* Every association, from every object, with any role.
LEMMA ReferencesAreFindings ==
    ASSUME NavInv, NEW class \in AssocClasses \ DeviceClasses, NEW e \in Objects, NEW rr,
           class = "BasedOn" /\ Class(e) \in VolumeClasses => rr = NULL
    PROVE  doReferences(e, class, NULL, rr) = Findings(e, class, rr)
<1>1. class # NULL /\ doReferences(e, class, NULL, rr) = References(e, class, NULL, rr)
  BY RoleAssumption DEF doReferences, AssocClasses
<1>2. class = "BasedOn" => References(e, class, NULL, rr) = Findings(e, class, rr)
  BY ReferencesToBasedOn
<1>3. class \in {"HostedStorageConfigurationService", "StorageConfigurationElementCapabilities",
                 "HostedStoragePool", "StorageElementCapabilities"} =>
          References(e, class, NULL, rr) = Findings(e, class, rr)
  BY ReferencesToServices, ReferencesToServiceCapabilities, ReferencesToPools, ReferencesToPoolCapabilities
<1>4. class \in {"AssociatedComponentExtent", "AssociatedRemainingExtent", "StorageSettingsGeneratedFromCapabilities"} =>
          References(e, class, NULL, rr) = Findings(e, class, rr)
  BY ReferencesToComponents, ReferencesToRemaining, ReferencesToGenerated
<1>5. class \in {"CompositeExtentBasedOn", "AllocatedFromStoragePool", "StorageElementSettingData"} =>
          References(e, class, NULL, rr) = Findings(e, class, rr)
  BY ReferencesToStripes, ReferencesToAllocations, ReferencesToSettingData
<1> QED
  BY <1>1, <1>2, <1>3, <1>4, <1>5, AssociationClasses

LEMMA AnyRole == \A role : Asked(NULL, role)
BY DEF Asked

\* Every association that is enumerated is found from both of its ends and
\* from no other object, by each of the eleven walks of doReferences.
THEOREM EndsAlwaysAgreeInArrays == NavSpec => []EndsAgree
<1>1. NavInv => EndsAgree
  <2> SUFFICES ASSUME NavInv, NEW class \in AssocClasses \ DeviceClasses, NEW e \in Objects
               PROVE  doReferences(e, class, NULL, NULL) =
                          {i \in EnumInstances(class) : /\ e \in EndsOf(NameOf(i))
                                                        /\ ~(e = NameOf(i)[2] /\ SettingOfStorageVolume(NameOf(i)))}
    BY DEF EndsAgree
  <2>1. doReferences(e, class, NULL, NULL) = Findings(e, class, NULL)
    BY ReferencesAreFindings
  <2> QED
    BY <2>1, AnyRole DEF Findings, FoundBy, EndsOf
<1> QED
  BY <1>1, NavigationSound, PTL

\* The two ends of an association are two objects.
TwoEnds(class) == \A i \in EnumInstances(class) : NameOf(i)[2] # NameOf(i)[3]

LEMMA ClassesOfPaths ==
    /\ Class(System) = "UnitaryComputerSystem" /\ Class(SCSCreateObjectPath) = "StorageConfigurationService"
    /\ Class(SCCCreateObjectPath) = "StorageConfigurationCapabilities"
    /\ Class(SSCCreateObjectPath) = "SystemStorageCapabilities"
    /\ \A p : Class(PoolCreateObjectPath(p)) = "StoragePool" /\ Key(PoolCreateObjectPath(p)) = p
    /\ \A p : Class(CapabilityCreateObjectPath(p)) = "StorageCapabilities"
    /\ \A x : Class(ExtentCreateObjectPath(x)) \in ExtentClasses /\ Key(ExtentCreateObjectPath(x)) = x
    /\ \A v : Class(VolumeCreateObjectPath(VolumeClass(v), v)) \in VolumeClasses
    /\ \A s : Class(SettingCreateObjectPath(s)) = "StorageSettingWithHints"
BY PathParts, VolumeClassIs
   DEF System, SCSCreateObjectPath, SCCCreateObjectPath, SSCCreateObjectPath, PoolCreateObjectPath,
       CapabilityCreateObjectPath, ExtentCreateObjectPath, SettingCreateObjectPath, VolumeCreateObjectPath, ExtentClasses

LEMMA BasedOnIsApart ==
    ASSUME NavInv
    PROVE  TwoEnds("BasedOn") /\ TwoEnds("CompositeExtentBasedOn")
<1>1. ASSUME NEW b \in graph.based PROVE ExtentCreateObjectPath(b.ant) # ExtentCreateObjectPath(b.dep)
  <2>1. b.dep # b.ant
    BY DEF NavInv, Navigable
  <2> QED
    BY <2>1, ClassesOfPaths
<1>2. \A v, x : ExtentCreateObjectPath(x) # VolumeCreateObjectPath(VolumeClass(v), v)
  BY ClassesOfPaths DEF ExtentClasses, VolumeClasses
<1>3. PlainOn \subseteq graph.based /\ StripedOn \subseteq graph.based
  BY DEF PlainOn, StripedOn
<1>4. \A i \in EnumInstances("BasedOn") :
          \/ \E b \in PlainOn : i = ExtentCreateBasedOnAssocInstance("BasedOn", b)
          \/ \E v \in Volumes : i = VolumeCreateBasedOnAssocInstance(VolumeClass(v), v)
  BY EachAssociation
<1>5. \A i \in EnumInstances("CompositeExtentBasedOn") :
          \E b \in StripedOn : i = ExtentCreateBasedOnAssocInstance("CompositeExtentBasedOn", b)
  BY EachAssociation
<1>6. /\ \A class, b : LET i == ExtentCreateBasedOnAssocInstance(class, b) IN
             NameOf(i)[2] = ExtentCreateObjectPath(b.ant) /\ NameOf(i)[3] = ExtentCreateObjectPath(b.dep)
      /\ \A v : LET i == VolumeCreateBasedOnAssocInstance(VolumeClass(v), v) IN
             /\ NameOf(i)[2] = ExtentCreateObjectPath(graph.vol[v].on)
             /\ NameOf(i)[3] = VolumeCreateObjectPath(VolumeClass(v), v)
  BY BuiltInstancesJoin DEF Joins
<1> QED
  BY <1>1, <1>2, <1>3, <1>4, <1>5, <1>6 DEF TwoEnds

LEMMA AllocationsAreApart ==
    ASSUME NavInv
    PROVE  TwoEnds("AllocatedFromStoragePool") /\ TwoEnds("StorageElementSettingData")
<1>1. ASSUME NEW a \in graph.alloc PROVE PoolCreateObjectPath(a.ant) # PoolCreateObjectPath(a.dep)
  <2>1. a.dep # a.ant
    BY DEF NavInv, Navigable, AllocOK
  <2> QED
    BY <2>1, ClassesOfPaths
<1>2. \A v, p, s : /\ PoolCreateObjectPath(p) # VolumeCreateObjectPath(VolumeClass(v), v)
                   /\ VolumeCreateObjectPath(VolumeClass(v), v) # SettingCreateObjectPath(s)
  BY ClassesOfPaths DEF VolumeClasses
<1>3. \A i \in EnumInstances("AllocatedFromStoragePool") :
          \/ \E a \in graph.alloc : i = PoolCreateAllocFromAssocInstance(a.dep, a.ant, a.space)
          \/ \E v \in Volumes : i = VolumeCreateAllocFromAssocInstance(VolumeClass(v), v)
  BY EachAssociation
<1>4. \A i \in EnumInstances("StorageElementSettingData") :
          \E v \in Volumes : i = VolumeCreateSettingAssocInstance(VolumeClass(v), v)
  BY EachAssociation
<1>5. /\ \A dep, ant, space : LET i == PoolCreateAllocFromAssocInstance(dep, ant, space) IN
             NameOf(i)[2] = PoolCreateObjectPath(ant) /\ NameOf(i)[3] = PoolCreateObjectPath(dep)
      /\ \A v : LET i == VolumeCreateAllocFromAssocInstance(VolumeClass(v), v) IN
             /\ NameOf(i)[2] = PoolCreateObjectPath(graph.vol[v].pool)
             /\ NameOf(i)[3] = VolumeCreateObjectPath(VolumeClass(v), v)
      /\ \A v : LET i == VolumeCreateSettingAssocInstance(VolumeClass(v), v) IN
             /\ NameOf(i)[2] = VolumeCreateObjectPath(VolumeClass(v), v)
             /\ NameOf(i)[3] = SettingCreateObjectPath(VolumeSetting(v))
  BY BuiltInstancesJoin DEF Joins
<1> QED
  BY <1>1, <1>2, <1>3, <1>4, <1>5 DEF TwoEnds

LEMMA OthersAreApart ==
    /\ TwoEnds("HostedStorageConfigurationService") /\ TwoEnds("StorageConfigurationElementCapabilities")
    /\ TwoEnds("HostedStoragePool") /\ TwoEnds("StorageElementCapabilities")
    /\ TwoEnds("AssociatedComponentExtent") /\ TwoEnds("AssociatedRemainingExtent")
    /\ TwoEnds("StorageSettingsGeneratedFromCapabilities")
<1>1. TwoEnds("HostedStorageConfigurationService") /\ TwoEnds("StorageConfigurationElementCapabilities")
  BY EachAssociation, InstancesJoin, ClassesOfPaths DEF TwoEnds, Joins
<1>2. TwoEnds("HostedStoragePool") /\ TwoEnds("StorageElementCapabilities")
  BY EachAssociation, InstancesJoin, ClassesOfPaths DEF TwoEnds, Joins
<1>3. \A p, x : PoolCreateObjectPath(p) # ExtentCreateObjectPath(x)
  BY ClassesOfPaths DEF ExtentClasses
<1>4. TwoEnds("AssociatedComponentExtent")
  BY <1>3, EachAssociation, InstancesJoin DEF TwoEnds, Joins
<1>5. TwoEnds("AssociatedRemainingExtent")
  BY <1>3, EachAssociation, InstancesJoin DEF TwoEnds, Joins
<1>6. TwoEnds("StorageSettingsGeneratedFromCapabilities")
  BY EachAssociation, InstancesJoin, ClassesOfPaths DEF TwoEnds, Joins
<1> QED
  BY <1>1, <1>2, <1>4, <1>5, <1>6

LEMMA EndsAreApart ==
    ASSUME NavInv
    PROVE  \A class \in AssocClasses \ DeviceClasses : TwoEnds(class)
BY BasedOnIsApart, AllocationsAreApart, OthersAreApart, AssociationClasses

\* The roles of an association are two names.
LEMMA RolesDiffer ==
    ASSUME NEW class \in AssocClasses \ DeviceClasses
    PROVE  /\ Roles[class][1] # Roles[class][2]
           /\ Roles[class][1] \in RoleNames /\ Roles[class][2] \in RoleNames
BY AssociationClasses, RolesAre DEF RoleNames

\* Naming the role of the other end leaves out just the associations in which
\* that end is the object itself.
THEOREM RolesAlwaysSelectEndsInArrays == NavSpec => []RolesSelectEnds
<1>1. NavInv => RolesSelectEnds
  <2> SUFFICES ASSUME NavInv, NEW class \in AssocClasses \ DeviceClasses, NEW e \in Objects, NEW end \in {1, 2},
                      Class(e) \notin VolumeClasses
               PROVE  doReferences(e, class, NULL, Roles[class][end]) =
                          {i \in doReferences(e, class, NULL, NULL) : NameOf(i)[end + 1] # e}
    BY DEF RolesSelectEnds
  <2>1. doReferences(e, class, NULL, Roles[class][end]) = Findings(e, class, Roles[class][end])
    BY ReferencesAreFindings
  <2>2. doReferences(e, class, NULL, NULL) = Findings(e, class, NULL)
    BY ReferencesAreFindings
  <2>3. \A i \in EnumInstances(class) : NameOf(i)[2] # NameOf(i)[3]
    BY EndsAreApart DEF TwoEnds
  <2>4. \A other \in {1, 2} : Asked(Roles[class][end], Roles[class][other]) <=> other = end
    BY RolesDiffer, RoleAssumption DEF Asked
  <2>5. CASE end = 1
    BY <2>1, <2>2, <2>3, <2>4, <2>5, AnyRole DEF Findings, FoundBy
  <2>6. CASE end = 2
    BY <2>1, <2>2, <2>3, <2>4, <2>6, AnyRole DEF Findings, FoundBy
  <2> QED
    BY <2>5, <2>6
<1> QED
  BY <1>1, NavigationSound, PTL
-----------------------------------------------------------------------------
(***************************************************************************)
(* Down to the disks                                                       *)
(***************************************************************************)

\* What an object is based on, as a client finds it, and, from a volume, how
\* far down one gets in n steps.
Down(e) == {NameOf(i)[2] : i \in {j \in doReferences(e, "BasedOn", NULL, NULL)
                                      \cup doReferences(e, "CompositeExtentBasedOn", NULL, NULL) : NameOf(j)[3] = e}}
Levels(start) ==
    CHOOSE level : level = [n \in 0..6 |-> IF n = 0 THEN {start} ELSE UNION {Down(e) : e \in level[n - 1]}]
Lowest(start) == {e \in UNION {Levels(start)[n] : n \in 0..6} : Down(e) = {}}
OnDisk(e) ==
    \E i \in doReferences(e, "AssociatedComponentExtent", NULL, "GroupComponent") :
        NameOf(i)[2] = PoolCreateObjectPath(Primordial)

LEMMA LevelsAre ==
    ASSUME NEW start
    PROVE  /\ Levels(start)[0] = {start}
           /\ \A n \in 1..6 : Levels(start)[n] = UNION {Down(e) : e \in Levels(start)[n - 1]}
<1> DEFINE below(S) == UNION {Down(e) : e \in S}
           next(f) == [n \in 0..6 |-> IF n = 0 THEN {start} ELSE below(f[n - 1])]
           s0 == {start}
           s1 == below(s0)
           s2 == below(s1)
           s3 == below(s2)
           s4 == below(s3)
           s5 == below(s4)
           s6 == below(s5)
           w == [n \in 0..6 |-> IF n = 0 THEN s0 ELSE IF n = 1 THEN s1 ELSE IF n = 2 THEN s2 ELSE IF n = 3 THEN s3
                                ELSE IF n = 4 THEN s4 ELSE IF n = 5 THEN s5 ELSE s6]
           g == CHOOSE f : f = next(f)
<1>1. Levels(start) = g
  BY DEF Levels
<1> HIDE DEF below
<1>2. w[0] = {start} /\ \A n \in 1..6 : w[n] = below(w[n - 1])
  <2>1. w[0] = s0 /\ w[1] = s1 /\ w[2] = s2 /\ w[3] = s3 /\ w[4] = s4 /\ w[5] = s5 /\ w[6] = s6
    <3> HIDE DEF s1, s2, s3, s4, s5, s6
    <3> QED
      OBVIOUS
  <2> HIDE DEF w
  <2>2. \A n \in 1..6 : n = 1 \/ n = 2 \/ n = 3 \/ n = 4 \/ n = 5 \/ n = 6
    OBVIOUS
  <2>3. w[1] = below(w[0]) /\ w[2] = below(w[1]) /\ w[3] = below(w[2])
    BY <2>1
  <2>4. w[4] = below(w[3]) /\ w[5] = below(w[4]) /\ w[6] = below(w[5])
    BY <2>1
  <2>5. 1 - 1 = 0 /\ 2 - 1 = 1 /\ 3 - 1 = 2 /\ 4 - 1 = 3 /\ 5 - 1 = 4 /\ 6 - 1 = 5
    OBVIOUS
  <2>6. \A n \in 1..6 : w[n] = below(w[n - 1])
    BY <2>2, <2>3, <2>4, <2>5
  <2> QED
    BY <2>1, <2>6
<1>3. w = next(w)
  <2>1. w = [n \in 0..6 |-> w[n]]
    <3> HIDE DEF s0, s1, s2, s3, s4, s5, s6
    <3> QED
      OBVIOUS
  <2> HIDE DEF w
  <2>2. \A n \in 0..6 : n = 0 \/ n \in 1..6
    OBVIOUS
  <2>3. \A n \in 0..6 : w[n] = IF n = 0 THEN {start} ELSE below(w[n - 1])
    BY <1>2, <2>2
  <2>4. next(w) = [n \in 0..6 |-> w[n]]
    BY <2>3
  <2> QED
    BY <2>1, <2>4
<1> HIDE DEF w
<1>4. g = next(g)
  <2> HIDE DEF next
  <2> QED
    BY <1>3
<1> HIDE DEF g
<1>5. g[0] = {start} /\ \A n \in 1..6 : g[n] = below(g[n - 1])
  BY <1>4
<1> QED
  BY <1>1, <1>5 DEF below

\* The names of extents and volumes.
LEMMA NamesOfExtents ==
    /\ \A x \in Extents : ExtentCreateObjectPath(x) \in Objects
    /\ \A v \in Volumes : VolumeCreateObjectPath(VolumeClass(v), v) \in Objects
    /\ \A x, y : ExtentCreateObjectPath(x) = ExtentCreateObjectPath(y) => x = y
    /\ \A v, w : VolumeCreateObjectPath(VolumeClass(v), v) = VolumeCreateObjectPath(VolumeClass(w), w) => v = w
    /\ \A x, v : ExtentCreateObjectPath(x) # VolumeCreateObjectPath(VolumeClass(v), v)
<1>1. ASSUME NEW x \in Extents PROVE ExtentCreateObjectPath(x) \in Objects
  <2>1. x \in PlainExtents \/ x \in CompositeExtents
    BY DEF PlainExtents, CompositeExtents
  <2>2. \E class \in ObjectClasses : ExtentCreateObjectPath(x) \in EnumInstanceNames(class)
    BY <2>1, NamesOfEachObject DEF ObjectClasses
  <2> QED
    BY <2>2 DEF Objects
<1>2. ASSUME NEW v \in Volumes PROVE VolumeCreateObjectPath(VolumeClass(v), v) \in Objects
  <2>1. \/ v \in LogicalDisks /\ VolumeClass(v) = "LogicalDisk"
        \/ v \in StorageVolumes /\ VolumeClass(v) = "StorageVolume"
    BY DEF LogicalDisks, StorageVolumes, VolumeClass
  <2>2. \E class \in ObjectClasses : VolumeCreateObjectPath(VolumeClass(v), v) \in EnumInstanceNames(class)
    BY <2>1, NamesOfEachObject DEF ObjectClasses
  <2> QED
    BY <2>2 DEF Objects
<1>3. \A x, y : ExtentCreateObjectPath(x) = ExtentCreateObjectPath(y) => x = y
  BY ClassesOfPaths
<1>4. \A v, w : VolumeCreateObjectPath(VolumeClass(v), v) = VolumeCreateObjectPath(VolumeClass(w), w) => v = w
  <2>1. \A v : Key(VolumeCreateObjectPath(VolumeClass(v), v)) = <<"volume", v, 0>>
    BY PathParts DEF VolumeCreateObjectPath
  <2> QED
    BY <2>1
<1>5. \A x, v : ExtentCreateObjectPath(x) # VolumeCreateObjectPath(VolumeClass(v), v)
  BY ClassesOfPaths DEF ExtentClasses, VolumeClasses
<1> QED
  BY <1>1, <1>2, <1>3, <1>4, <1>5

\* The associations that lead down.
BasedOns == EnumInstances("BasedOn") \cup EnumInstances("CompositeExtentBasedOn")

LEMMA DownIs ==
    ASSUME NavInv, NEW e \in Objects
    PROVE  Down(e) = {NameOf(i)[2] : i \in {j \in BasedOns : NameOf(j)[3] = e}}
<1> DEFINE both == doReferences(e, "BasedOn", NULL, NULL) \cup doReferences(e, "CompositeExtentBasedOn", NULL, NULL)
<1>1. /\ doReferences(e, "BasedOn", NULL, NULL) = Findings(e, "BasedOn", NULL)
      /\ doReferences(e, "CompositeExtentBasedOn", NULL, NULL) = Findings(e, "CompositeExtentBasedOn", NULL)
  BY ReferencesAreFindings, AssociationClasses
<1>2. TwoEnds("BasedOn") /\ TwoEnds("CompositeExtentBasedOn")
  BY BasedOnIsApart
<1>3. \A j : NameOf(j)[3] = e => (j \in both <=> j \in BasedOns)
  BY <1>1, <1>2, AnyRole DEF Findings, FoundBy, TwoEnds, BasedOns
<1>4. {j \in both : NameOf(j)[3] = e} = {j \in BasedOns : NameOf(j)[3] = e}
  <2> HIDE DEF both
  <2> QED
    BY <1>3
<1> QED
  BY <1>4 DEF Down

LEMMA BasedOnsAre ==
    \A i : i \in BasedOns <=>
        \/ \E b \in PlainOn : i = ExtentCreateBasedOnAssocInstance("BasedOn", b)
        \/ \E b \in StripedOn : i = ExtentCreateBasedOnAssocInstance("CompositeExtentBasedOn", b)
        \/ \E v \in Volumes : i = VolumeCreateBasedOnAssocInstance(VolumeClass(v), v)
BY EachAssociation DEF BasedOns

\* From an extent: the extents it is based on, be it striped or not.
LEMMA DownFromExtent ==
    ASSUME NavInv, NEW x \in Extents
    PROVE  Down(ExtentCreateObjectPath(x)) = {ExtentCreateObjectPath(b.ant) : b \in Antecedents(graph, x)}
<1> DEFINE e == ExtentCreateObjectPath(x)
           A == Antecedents(graph, x)
<1>1. Down(e) = {NameOf(i)[2] : i \in {j \in BasedOns : NameOf(j)[3] = e}}
  BY DownIs, NamesOfExtents
<1>2. \A class, b : /\ NameOf(ExtentCreateBasedOnAssocInstance(class, b))[2] = ExtentCreateObjectPath(b.ant)
                    /\ NameOf(ExtentCreateBasedOnAssocInstance(class, b))[3] = ExtentCreateObjectPath(b.dep)
  BY BuiltInstancesJoin DEF Joins
<1>3. \A v : NameOf(VolumeCreateBasedOnAssocInstance(VolumeClass(v), v))[3] # e
  BY BuiltInstancesJoin, NamesOfExtents DEF Joins
<1>4. \A b \in graph.based : b \in PlainOn \/ b \in StripedOn
  BY DEF PlainOn, StripedOn
<1>5. PlainOn \subseteq graph.based /\ StripedOn \subseteq graph.based
  BY DEF PlainOn, StripedOn
<1>6. \A y : ExtentCreateObjectPath(y) = e <=> y = x
  BY NamesOfExtents
<1>7. \A b : b \in A <=> b \in graph.based /\ b.dep = x
  BY DEF Antecedents
<1> HIDE DEF e, A
<1>8. ASSUME NEW i \in BasedOns, NameOf(i)[3] = e
      PROVE  \E b \in A : NameOf(i)[2] = ExtentCreateObjectPath(b.ant)
  BY <1>2, <1>3, <1>5, <1>6, <1>7, <1>8, BasedOnsAre
<1>9. ASSUME NEW b \in A
      PROVE  \E i \in BasedOns : NameOf(i)[3] = e /\ NameOf(i)[2] = ExtentCreateObjectPath(b.ant)
  BY <1>2, <1>4, <1>6, <1>7, BasedOnsAre
<1>10. Down(e) = {ExtentCreateObjectPath(b.ant) : b \in A}
  BY <1>1, <1>8, <1>9
<1> QED
  BY <1>10 DEF e, A

LEMMA DownFromVolume ==
    ASSUME NavInv, NEW v \in Volumes
    PROVE  Down(VolumeCreateObjectPath(VolumeClass(v), v)) = {ExtentCreateObjectPath(graph.vol[v].on)}
<1> DEFINE e == VolumeCreateObjectPath(VolumeClass(v), v)
           I(w) == VolumeCreateBasedOnAssocInstance(VolumeClass(w), w)
<1>1. Down(e) = {NameOf(i)[2] : i \in {j \in BasedOns : NameOf(j)[3] = e}}
  BY DownIs, NamesOfExtents
<1>2. \A class, b : NameOf(ExtentCreateBasedOnAssocInstance(class, b))[3] # e
  BY BuiltInstancesJoin, NamesOfExtents DEF Joins
<1>3. \A w : /\ NameOf(I(w))[2] = ExtentCreateObjectPath(graph.vol[w].on)
             /\ NameOf(I(w))[3] = VolumeCreateObjectPath(VolumeClass(w), w)
  BY BuiltInstancesJoin DEF Joins
<1>4. \A w : VolumeCreateObjectPath(VolumeClass(w), w) = e <=> w = v
  BY NamesOfExtents
<1> HIDE DEF e
<1>5. \A i \in BasedOns : NameOf(i)[3] = e => i = I(v)
  BY <1>2, <1>3, <1>4, BasedOnsAre
<1>6. I(v) \in BasedOns /\ NameOf(I(v))[3] = e
  BY <1>3, <1>4, BasedOnsAre
<1>7. {j \in BasedOns : NameOf(j)[3] = e} = {I(v)}
  BY <1>5, <1>6
<1> HIDE DEF I
<1>8. Down(e) = {NameOf(I(v))[2]}
  BY <1>1, <1>7
<1> QED
  BY <1>3, <1>8 DEF e

\* An extent that is based on nothing is a disk of the primordial pool.
LEMMA LowestAreOnDisk ==
    ASSUME NavInv, NEW L, Pictures(graph, L), NEW x \in Extents, Down(ExtentCreateObjectPath(x)) = {}
    PROVE  OnDisk(ExtentCreateObjectPath(x))
<1> DEFINE e == ExtentCreateObjectPath(x)
           i == PoolCreateComponentAssocInstance(Primordial, x)
           A == "AssociatedComponentExtent"
<1>1. Antecedents(graph, x) = {}
  BY DownFromExtent
<1>2. x[1] = "disk" /\ graph.ext[x].pool = Primordial
  BY <1>1 DEF Pictures, ShowsLayout, Seeing, Sees, SeenAs, Extents
<1>3. ~ExtentIsFreespace(x)
  BY <1>2 DEF ExtentIsFreespace
<1>4. Primordial \in Pools
  BY DEF NavInv, Navigable, PoolsOK, Pools
<1>5. x \in UsedBy(Primordial)
  BY <1>2, <1>3, ComponentsAreOfPools DEF UsedBy
<1>6. i \in EnumInstances(A)
  BY <1>4, <1>5, EachAssociation
<1>7. e \in Objects /\ Class(e) \in ExtentClasses /\ Key(e) = x
  BY NamesOfExtents, ClassesOfPaths
<1>8. Joins(i, A, PoolCreateObjectPath(Primordial), e)
  BY InstancesJoin
<1>9. Roles[A][1] = "GroupComponent"
  BY RolesAre
<1> HIDE DEF e, i
<1>10. FoundBy(i, e, A, "GroupComponent")
  BY <1>8, <1>9, FoundByEnds DEF Asked
<1>11. doReferences(e, A, NULL, "GroupComponent") = Findings(e, A, "GroupComponent")
  BY <1>7, ReferencesAreFindings, AssociationClasses
<1>12. OnDisk(e)
  BY <1>6, <1>8, <1>10, <1>11 DEF OnDisk, Findings, Joins
<1> QED
  BY <1>12 DEF e

\* From the extent a volume is on every step leads lower, and so to disks.
ExtentsUpTo(L, n) == {ExtentCreateObjectPath(x) : x \in {y \in Extents : Height(L, y) <= n}}

LEMMA StepsLeadLower ==
    ASSUME NavInv, NEW L, Pictures(graph, L), NEW n \in -1..4, NEW S, S \subseteq ExtentsUpTo(L, n)
    PROVE  UNION {Down(e) : e \in S} \subseteq ExtentsUpTo(L, n - 1)
<1> SUFFICES ASSUME NEW e \in S, NEW d \in Down(e) PROVE d \in ExtentsUpTo(L, n - 1)
  OBVIOUS
<1>1. PICK x \in Extents : Height(L, x) <= n /\ e = ExtentCreateObjectPath(x)
  BY DEF ExtentsUpTo
<1>2. PICK b \in Antecedents(graph, x) : d = ExtentCreateObjectPath(b.ant)
  BY <1>1, DownFromExtent
<1>3. b.ant \in Extents /\ Height(L, b.ant) < Height(L, x) /\ Height(L, b.ant) \in 0..5 /\ Height(L, x) \in 0..5
  BY <1>2 DEF Pictures, Linked, BasedOK, ExtentsOK, Antecedents, Extents
<1>4. Height(L, b.ant) <= n - 1
  BY <1>1, <1>3
<1> QED
  BY <1>2, <1>3, <1>4 DEF ExtentsUpTo

LEMMA VolumesReachDisks ==
    ASSUME NavInv, NEW L, Pictures(graph, L), NEW v \in Volumes,
           NEW start, start = VolumeCreateObjectPath(VolumeClass(v), v)
    PROVE  Lowest(start) # {} /\ Levels(start)[6] = {} /\ \A e \in Lowest(start) : OnDisk(e)
<1> DEFINE s(n) == Levels(start)[n]
           on == graph.vol[v].on
<1>1. s(0) = {start} /\ \A n \in 1..6 : s(n) = UNION {Down(e) : e \in s(n - 1)}
  BY LevelsAre
<1>2. Carries(graph, on)
  BY DEF Pictures, ShowsLayout, Seeing, VolsCarried, Volumes
<1>3. on \in Extents /\ Height(L, on) <= 4
  <2>1. on \in Extents /\ on[1] \in {"md", "Composite"}
    BY <1>2 DEF Carries, Extents
  <2> QED
    BY <2>1 DEF Height
<1>4. Down(start) = {ExtentCreateObjectPath(on)}
  BY DownFromVolume
<1>5. s(1) = {ExtentCreateObjectPath(on)}
  BY <1>1, <1>4
<1> HIDE DEF s, on
<1>6. s(1) \subseteq ExtentsUpTo(L, 4)
  BY <1>3, <1>5 DEF ExtentsUpTo
<1>7. s(2) \subseteq ExtentsUpTo(L, 3)
  BY <1>1, <1>6, StepsLeadLower
<1>8. s(3) \subseteq ExtentsUpTo(L, 2)
  BY <1>1, <1>7, StepsLeadLower
<1>9. s(4) \subseteq ExtentsUpTo(L, 1)
  BY <1>1, <1>8, StepsLeadLower
<1>10. s(5) \subseteq ExtentsUpTo(L, 0)
  BY <1>1, <1>9, StepsLeadLower
<1>11. s(6) = {}
  <2>1. s(6) \subseteq ExtentsUpTo(L, -1)
    BY <1>1, <1>10, StepsLeadLower
  <2>2. ExtentsUpTo(L, -1) = {}
    BY DEF Pictures, Linked, ExtentsOK, ExtentsUpTo, Extents
  <2> QED
    BY <2>1, <2>2
<1>12. \A n \in 1..5 : s(n) # {} /\ (\A e \in s(n) : Down(e) # {}) => s(n + 1) # {}
  <2> SUFFICES ASSUME NEW n \in 1..5, s(n) # {}, \A e \in s(n) : Down(e) # {} PROVE s(n + 1) # {}
    OBVIOUS
  <2>1. n + 1 \in 1..6 /\ (n + 1) - 1 = n
    OBVIOUS
  <2>2. s(n + 1) = UNION {Down(e) : e \in s(n)}
    BY <1>1, <2>1
  <2> QED
    BY <2>2
<1>13. Lowest(start) # {}
  <2> SUFFICES ASSUME Lowest(start) = {} PROVE FALSE
    OBVIOUS
  <2>1. \A n \in 0..6 : \A e \in s(n) : Down(e) # {}
    BY DEF Lowest, s
  <2>2. s(1) # {}
    BY <1>5
  <2>3. s(2) # {}
    BY <1>12, <2>1, <2>2
  <2>4. s(3) # {}
    BY <1>12, <2>1, <2>3
  <2>5. s(4) # {}
    BY <1>12, <2>1, <2>4
  <2>6. s(5) # {}
    BY <1>12, <2>1, <2>5
  <2>7. s(6) # {}
    BY <1>12, <2>1, <2>6
  <2> QED
    BY <1>11, <2>7
<1>14. ASSUME NEW e \in Lowest(start) PROVE OnDisk(e)
  <2>1. Down(e) = {} /\ \E n \in 0..6 : e \in s(n)
    BY DEF Lowest, s
  <2>2. \E x \in Extents : e = ExtentCreateObjectPath(x)
    <3>1. PICK n \in 0..6 : e \in s(n)
      BY <2>1
    <3>2. n # 0
      BY <1>1, <1>4, <2>1, <3>1
    <3>3. n = 1 \/ n = 2 \/ n = 3 \/ n = 4 \/ n = 5 \/ n = 6
      BY <3>2
    <3>4. \E m : e \in ExtentsUpTo(L, m)
      BY <1>6, <1>7, <1>8, <1>9, <1>10, <1>11, <3>1, <3>3
    <3> QED
      BY <3>4 DEF ExtentsUpTo
  <2> QED
    BY <2>1, <2>2, LowestAreOnDisk
<1> QED
  BY <1>11, <1>13, <1>14 DEF s

-----------------------------------------------------------------------------
(***************************************************************************)
(* The arrays are those of a layout                                        *)
(***************************************************************************)

\* The arrays show some layout, not always the one there is.
ShowsSome(G) == \E L : Pictures(G, L)

LEMMA EmptyShows == ShowsSome(EmptyGraph)
<1>1. Linked(EmptyGraph, BlankLayout)
  BY NothingScannedIsLinked DEF Scanning, EmptyGraph
<1>2. Seeing(EmptyGraph, BlankLayout)
  BY NothingScannedIsSeen DEF EmptyGraph
<1>3. \A x \in DOMAIN EmptyGraph.ext : x[1] = "disk"
  <2>1. DOMAIN EmptyGraph.ext = {Disk(d) : d \in ToSet(Disks)}
    BY DEF EmptyGraph, LoadPersistentStorageObjects
  <2>2. \A d : Disk(d)[1] = "disk"
    BY DEF Disk
  <2> QED
    BY <2>1, <2>2
<1>4. BlankLayout.part = {} /\ MdsOf(BlankLayout) = {}
  BY DEF BlankLayout, MdsOf, NoMd
<1>5. Pictures(EmptyGraph, BlankLayout)
  BY <1>1, <1>2, <1>3, <1>4 DEF Pictures, ShowsLayout, Closed, PartsSeen
<1> QED
  BY <1>5 DEF ShowsSome

LEMMA ScanShows ==
    ASSUME NEW L, LayoutInv(L), DevicesOK(L)
    PROVE  ShowsSome(SCSScanStorage(L))
  BY ScanPictures DEF ShowsSome

\* Reading a capability leaves what the arrays show.
LEMMA ShowCapabilityPictures ==
    ASSUME NavInv, ShowCapability, NEW L, Pictures(graph, L)
    PROVE  Pictures(graph', L)
<1>1. PICK c \in Pools : graph' = [graph EXCEPT !.pool[c].cap = Shown(graph, c)]
  BY ShowCapabilityShows
<1> DEFINE G == graph
           H == graph'
<1>2. Navigable(H)
  BY ShowCapabilityKeeps DEF NavInv
<1>3. Record(G, {"defined", "ext", "pool", "vol", "based", "alloc"}) /\ Record(G.pool, DOMAIN G.pool)
  BY DEF NavInv, Navigable, PoolsOK
<1>4. /\ DOMAIN H = DOMAIN G /\ H.ext = G.ext /\ H.based = G.based /\ H.vol = G.vol /\ H.alloc = G.alloc
      /\ DOMAIN H.pool = DOMAIN G.pool
  BY <1>1, <1>3 DEF Record
<1> HIDE DEF G, H
<1>5. Linked(H, L)
  BY <1>2, <1>4, PoolsChanged DEF Pictures, Navigable, G
<1>6. Alike(G, H)
  BY <1>4 DEF Alike, SameExtents
<1>7. Seeing(H, L) /\ Grows(G, H) /\ DOMAIN H.ext = DOMAIN G.ext
  BY <1>6, AlikeSeeing DEF Pictures, ShowsLayout, G
<1>8. Closed(H, L, {}) /\ PartsSeen(H, L)
  BY <1>7, StaysClosed DEF Pictures, ShowsLayout, PartsSeen, G
<1> QED
  BY <1>5, <1>7, <1>8 DEF Pictures, ShowsLayout, H

\* A step navigates only what is shown of a layout that was there.
LEMMA NextShows ==
    ASSUME NavInv, DevicesInv, ShowsSome(graph), [NavNext]_navVars
    PROVE  ShowsSome(graph')
<1>1. LayoutInv(lib) /\ DevicesOK(lib)
  BY DEF NavInv, RaidInv, DevicesInv
<1>2. ShowsSome(SCSScanStorage(lib))
  BY <1>1, ScanShows
<1>3. ShowsSome(EmptyGraph)
  BY EmptyShows
<1>4. CASE Step \/ Stopped
  BY <1>2, <1>3, <1>4, ScanOrNot
<1>5. CASE FirstRead
  <2>1. call.pc = "idle" /\ (graph' = SCSScanStorage(lib) \/ graph' = EmptyGraph)
    BY <1>5 DEF FirstRead, ScanStorage, Ends
  <2> QED
    BY <1>2, <1>3, <2>1
<1>6. CASE ShowCapability
  BY <1>6, ShowCapabilityPictures DEF ShowsSome
<1>7. CASE UsePool
  <2>1. PICK v, l : \E L \in {LvCreated(lib, v, l, OneKB)} : \E G \in {SCSScanStorage(L)} :
                        Commit(L) /\ graph' = IF G.defined THEN G ELSE EmptyGraph
    BY <1>7 DEF UsePool
  <2> DEFINE L == LvCreated(lib, v, l, OneKB)
             G == SCSScanStorage(L)
  <2>2. graph' = G \/ graph' = EmptyGraph
    BY <2>1
  <2>3. LayoutInv(L) /\ DevicesOK(L)
    <3>1. IsSeq(<<>>)
      BY DEF IsSeq
    <3> QED
      BY <1>1, <3>1, GroupsAreSound, LvCreatedDevices
  <2> HIDE DEF L
  <2>4. ShowsSome(G)
    BY <2>3, ScanShows
  <2> QED
    BY <1>3, <2>2, <2>4
<1>8. CASE UNCHANGED graph
  BY <1>8
<1>9. CASE CreateByGoal \/ RequestDelete \/ CapabilityCreateSetting \/ SetInstance \/ UNCHANGED navVars
  <2>1. CreateByGoal \/ RequestDelete => graph' = graph
    BY DEF CreateByGoal, RequestCreate, RequestDelete
  <2>2. CapabilityCreateSetting \/ SetInstance \/ UNCHANGED navVars => graph' = graph
    BY DEF CapabilityCreateSetting, SetInstance, navVars, vars
  <2> QED
    BY <1>8, <1>9, <2>1, <2>2
<1> QED
  BY <1>4, <1>5, <1>6, <1>7, <1>9 DEF NavNext, NavRequest

\* What a client's step is to RaidPool.
LEMMA NavSteps == [NavNext]_navVars => \/ [Next]_vars
                                       \/ FirstRead /\ UNCHANGED served
                                       \/ ShowCapability
<1> SUFFICES ASSUME [NavNext]_navVars PROVE [Next]_vars \/ (FirstRead /\ UNCHANGED served) \/ ShowCapability
  OBVIOUS
<1>1. CASE served < MaxRequests /\ served' = served + 1 /\ NavRequest
  BY <1>1 DEF NavRequest, CreateByGoal, Request, Next
<1>2. CASE (Step \/ Stopped) /\ UNCHANGED served /\ settings' = Rescanned
  BY <1>2 DEF Next
<1>3. CASE CapabilityCreateSetting \/ SetInstance \/ UNCHANGED navVars
  BY <1>3 DEF CapabilityCreateSetting, SetInstance, navVars, vars
<1> QED
  BY <1>1, <1>2, <1>3 DEF NavNext

LEMMA NavDevices == NavInv /\ DevicesInv /\ [NavNext]_navVars => DevicesInv'
<1> SUFFICES ASSUME NavInv, DevicesInv, [NavNext]_navVars PROVE DevicesInv'
  OBVIOUS
<1>1. CASE [Next]_vars
  BY <1>1, NextDevices DEF NavInv
<1>2. CASE FirstRead
  <2>1. UNCHANGED <<lib, disk>> \/ Ends("died")
    BY <1>2 DEF FirstRead, ScanStorage
  <2> QED
    BY <2>1 DEF Ends, DevicesInv
<1>3. CASE ShowCapability
  BY <1>3 DEF ShowCapability, DevicesInv
<1> QED
  BY <1>1, <1>2, <1>3, NavSteps

\* From every volume the associations lead down to disks of the primordial
\* pool, whatever pools were created and deleted, whatever calls of the library
\* failed, and whenever the provider was stopped: no layout is left that a scan
\* makes arrays of with a missing or a dangling end.
THEOREM DisksAreAlwaysReached == NavSpec => []DisksAreReached
<1> DEFINE Inv == NavInv /\ DevicesInv /\ ShowsSome(graph)
<1>1. NavInit => Inv
  BY NavInitIsSound, EmptyShows, BlankDevicesOK DEF NavInit, Init, DevicesInv
<1>2. Inv /\ [NavNext]_navVars => Inv'
  BY NavNextIsSound, NavDevices, NextShows
<1>3. Inv => DisksAreReached
  <2>1. ASSUME NavInv, NEW L, Pictures(graph, L), NEW v \in Volumes
        PROVE  /\ Lowest(VolumeCreateObjectPath(VolumeClass(v), v)) # {}
               /\ Levels(VolumeCreateObjectPath(VolumeClass(v), v))[6] = {}
               /\ \A e \in Lowest(VolumeCreateObjectPath(VolumeClass(v), v)) : OnDisk(e)
    BY <2>1, VolumesReachDisks
  <2>2. Inv => \A v \in Volumes : /\ Lowest(VolumeCreateObjectPath(VolumeClass(v), v)) # {}
                                  /\ Levels(VolumeCreateObjectPath(VolumeClass(v), v))[6] = {}
                                  /\ \A e \in Lowest(VolumeCreateObjectPath(VolumeClass(v), v)) : OnDisk(e)
    BY <2>1 DEF ShowsSome
  <2> HIDE DEF Inv
  <2> QED
    BY <2>2 DEF DisksAreReached, Lowest, Levels, Down, OnDisk
<1> QED
  BY <1>1, <1>2, <1>3, PTL DEF NavSpec
-----------------------------------------------------------------------------
(***************************************************************************)
(* Extents can be shown                                                    *)
(***************************************************************************)

\* What is in no pool is a partition or a RAID device.
LEMMA InNoPool ==
    ASSUME NEW L, Pictures(graph, L), NEW x \in Extents, graph.ext[x].pool = NULL
    PROVE  /\ (x[1] = "part" /\ ~graph.ext[x].composite) \/ (x[1] = "md" /\ graph.ext[x].composite)
           /\ \E b \in Antecedents(graph, x) : b.order = 1
<1>1. Height(L, x) \in 1..3 /\ \E b \in Antecedents(graph, x) : b.order = 1
  BY DEF Pictures, Linked, ExtentsOK, Extents
<1>2. x[1] \in {"part", "md"}
  BY <1>1 DEF Height
<1>3. SeenAs(x, graph.ext[x], L, DOMAIN graph.pool)
  BY DEF Pictures, ShowsLayout, Seeing, Sees, Extents
<1> QED
  BY <1>1, <1>2, <1>3 DEF SeenAs

\* What hides an extent: the one RAID device that is made of it is in no pool.
UnderLooseDevice(x) ==
    /\ x[1] = "md" /\ graph.ext[x].pool = NULL
    /\ \E d \in DependentExtents(graph, x) : d[1] = "md" /\ graph.ext[d].pool = NULL

LEMMA ExtentShowsSome ==
    ASSUME NEW L, Pictures(graph, L), NEW x \in Extents
    PROVE  ExtentShowsPool(x) \in Pools \cup {"none"} \/ UnderLooseDevice(x)
<1>1. graph.ext[x].pool \in Pools \cup {NULL}
  BY DEF Pictures, Linked, ExtentsOK, Extents, Pools
<1>2. CASE graph.ext[x].pool # NULL
  BY <1>1, <1>2 DEF ExtentShowsPool
<1>3. CASE graph.ext[x].pool = NULL /\ ~graph.ext[x].composite
  <2> DEFINE b == CHOOSE c \in Antecedents(graph, x) : c.order = 1
  <2>1. b \in Antecedents(graph, x) /\ x[1] = "part"
    BY <1>3, InNoPool
  <2>2. ExtentShowsPool(x) = graph.ext[b.ant].pool
    BY <1>3 DEF ExtentShowsPool
  <2> HIDE DEF b
  <2>3. b \in graph.based /\ b.dep = x
    BY <2>1 DEF Antecedents
  <2>4. b.ant[1] = "disk" /\ b.ant \in DOMAIN graph.ext
    BY <2>1, <2>3 DEF Pictures, ShowsLayout, Seeing, Sees, EdgeSeen, Linked, BasedOK
  <2>5. graph.ext[b.ant].pool = Primordial
    BY <2>4 DEF Pictures, ShowsLayout, Seeing, Sees, SeenAs
  <2>6. Primordial \in Pools
    BY DEF Pictures, Linked, PoolsOK, Pools
  <2> QED
    BY <2>2, <2>5, <2>6
<1>4. CASE graph.ext[x].pool = NULL /\ graph.ext[x].composite /\ NumDependents(graph, x) # 1
  BY <1>4 DEF ExtentShowsPool
<1>5. CASE graph.ext[x].pool = NULL /\ graph.ext[x].composite /\ NumDependents(graph, x) = 1
  <2>1. x[1] = "md"
    BY <1>5, InNoPool
  <2>2. VolumesOn(graph, x) = {}
    BY <1>5 DEF Pictures, ShowsLayout, Seeing, VolsCarried, Carries, VolumesOn
  <2>3. DependentExtents(graph, x) # {}
    <3>1. Cardinality({}) = 0
      BY FS_EmptySet
    <3>2. DependentExtents(graph, x) = {} => NumDependents(graph, x) = 0 + 0
      BY <2>2, <3>1 DEF NumDependents
    <3> QED
      BY <1>5, <3>2
  <2> DEFINE d == OnlyDependent(graph, x)
  <2>4. d \in DependentExtents(graph, x)
    BY <2>3 DEF OnlyDependent
  <2>5. ExtentShowsPool(x) = graph.ext[d].pool
    BY <1>5 DEF ExtentShowsPool
  <2> HIDE DEF d
  <2>6. PICK b \in graph.based : b.ant = x /\ b.dep = d
    BY <2>4 DEF DependentExtents
  <2>7. d \in Extents /\ EdgeSeen(b, L)
    BY <2>6 DEF Pictures, ShowsLayout, Seeing, Sees, Extents
  <2>8. graph.ext[d].pool \in Pools \cup {NULL}
    BY <2>7 DEF Pictures, Linked, ExtentsOK, Extents, Pools
  <2>9. graph.ext[d].pool = NULL => d[1] = "md"
    BY <2>1, <2>6, <2>7, InNoPool DEF EdgeSeen
  <2> QED
    BY <1>5, <2>1, <2>4, <2>5, <2>8, <2>9 DEF UnderLooseDevice
<1> QED
  BY <1>2, <1>3, <1>4, <1>5

\* ExtentCreateInstance reads through NULL in no other case than that of a RAID
\* device under another which is in no pool, as broken-off creations leave them:
\* every other extent can be shown, whatever layout creations and deletions
\* leave and whatever calls of the library fail.
THEOREM OnlyMirrorsOfLooseStripesHide ==
    NavSpec => [](Ready => \A x \in Extents :
                     ExtentShowsPool(x) \in Pools \cup {"none"} \/ UnderLooseDevice(x))
<1> DEFINE Inv == NavInv /\ DevicesInv /\ ShowsSome(graph)
<1>1. NavInit => Inv
  BY NavInitIsSound, EmptyShows, BlankDevicesOK DEF NavInit, Init, DevicesInv
<1>2. Inv /\ [NavNext]_navVars => Inv'
  BY NavNextIsSound, NavDevices, NextShows
<1>3. Inv => (Ready => \A x \in Extents :
                 ExtentShowsPool(x) \in Pools \cup {"none"} \/ UnderLooseDevice(x))
  BY ExtentShowsSome DEF ShowsSome
<1> QED
  BY <1>1, <1>2, <1>3, PTL DEF NavSpec
=============================================================================
