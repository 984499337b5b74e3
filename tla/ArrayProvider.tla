--------------------------- MODULE ArrayProvider ---------------------------
(***************************************************************************)
(* What a client sees of the array: the instances and the names the        *)
(* provider enumerates, the instance it gives for a name, and the          *)
(* associations it finds from an object, while pools are created and       *)
(* deleted (RaidPool) by goals the client makes: settings it has generated *)
(* from a capability and written.  Every scan discards them.               *)
(*                                                                         *)
(* The name of an object is <<class, key>>, that of an association         *)
(* <<class, left, right>>, and an instance is <<name, what it shows>>.     *)
(* Classes are without their prefix OMC_, namespaces are left out, and the *)
(* name a client sends is one the provider has given.                      *)
(***************************************************************************)
EXTENDS RaidPool

CONSTANT MaxSettings    \* bound: settings clients may have

ASSUME SettingAssumption == MaxSettings \in Nat

\* The settings: name -> [cap, vol, goal], of a volume or, with vol NULL, made
\* by a client from capability cap.
VARIABLE settings

navVars == <<lib, disk, graph, needScan, call, reply, served, settings>>

Path(class, key) == <<class, key>>
Assoc(class, left, right) == <<class, left, right>>
Instance(path, shows) == <<path, shows>>
Class(path) == path[1]
Key(path) == path[2]
NameOf(instance) == instance[1]
-----------------------------------------------------------------------------
(***************************************************************************)
(* Settings                                                                *)
(***************************************************************************)
SettingInitFromCapability(cap) ==
    [dr |-> cap.dr, pr |-> cap.pr, stripe |-> cap.stripe, parity |-> cap.parity]

VolumeSetting(v) == <<v, "Setting">>

\* Each volume's own setting, the only ones after a scan has made graph G.
MutantSettingsAfterScan(G) ==
    [s \in {VolumeSetting(v) : v \in DOMAIN G.vol} |->
        LET p == G.vol[s[1]].pool
        IN  [cap |-> p, vol |-> s[1], goal |-> SettingInitFromCapability(G.pool[p].cap)]] @@ settings

SettingsAfterScan(G) ==
    [s \in {VolumeSetting(v) : v \in DOMAIN G.vol} |->
        LET p == G.vol[s[1]].pool
        IN  [cap |-> p, vol |-> s[1], goal |-> SettingInitFromCapability(G.pool[p].cap)]]

Idling == call.pc = "idle" /\ ~needScan

\* Method CreateSetting: the first name that is free.
CapabilityCreateSetting ==
    /\ Idling
    /\ \E c \in DOMAIN graph.pool :
          LET name(i) == <<c, "Setting", i>>
              free == {i \in 0..MaxSettings : name(i) \notin DOMAIN settings}
              clients == {s \in DOMAIN settings : settings[s].vol = NULL}
          IN  /\ Cardinality(clients) < MaxSettings
              /\ settings' = Added(settings, name(Min(free)),
                                   [cap |-> c, vol |-> NULL, goal |-> SettingInitFromCapability(graph.pool[c].cap)])
    /\ UNCHANGED vars

\* SetInstance writes what it is given to any setting.
SetInstance ==
    /\ Idling
    /\ \E s \in DOMAIN settings, goal \in Goals : settings' = [settings EXCEPT ![s].goal = goal]
    /\ UNCHANGED vars

-----------------------------------------------------------------------------
(***************************************************************************)
(* Names and instances of single objects                                   *)
(***************************************************************************)
System == Path("UnitaryComputerSystem", "system")
SCSCreateObjectPath == Path("StorageConfigurationService", "service")
SCSCreateInstance == Instance(SCSCreateObjectPath, <<>>)
SCCCreateObjectPath == Path("StorageConfigurationCapabilities", "scc")
SCCCreateInstance == Instance(SCCCreateObjectPath, <<>>)
SSCCreateObjectPath == Path("SystemStorageCapabilities", "ssc")
SSCCreateInstance == Instance(SSCCreateObjectPath, <<>>)

CapabilityCreateObjectPath(c) == Path("StorageCapabilities", c)
\* The instance of a capability with parity has nspf set before it is shown.
CapabilityCreateInstance(c) ==
    LET cap == graph.pool[c].cap
    IN  Instance(CapabilityCreateObjectPath(c), <<[cap EXCEPT !.nspf = @ \/ cap.parity = 2]>>)

PoolCreateObjectPath(p) == Path("StoragePool", p)
PoolCreateInstance(p) == Instance(PoolCreateObjectPath(p), <<graph.pool[p].total, graph.pool[p].remaining>>)

ExtentCreateObjectPath(x) == Path(IF graph.ext[x].composite THEN "CompositeExtent" ELSE "StorageExtent", x)

\* The pool whose redundancy an extent shows: its own, that of the one extent
\* on top of a composite one, or that of the first extent below.
ExtentShowsPool(x) ==
    LET ext == graph.ext[x]
    IN  IF ext.pool # NULL THEN ext.pool
        ELSE IF ~ext.composite THEN graph.ext[(CHOOSE b \in Antecedents(graph, x) : b.order = 1).ant].pool
        ELSE IF NumDependents(graph, x) # 1 THEN "none"
        ELSE graph.ext[OnlyDependent(graph, x)].pool
ExtentCreateInstance(x) ==
    LET p == ExtentShowsPool(x)
    IN  Instance(ExtentCreateObjectPath(x),
                 <<graph.ext[x].size>> \o (IF p = "none" THEN <<>> ELSE <<graph.pool[p].cap>>))

VolumeClass(v) == IF graph.vol[v].isLD THEN "LogicalDisk" ELSE "StorageVolume"
VolumeCreateObjectPath(class, v) == Path(class, <<"volume", v, 0>>)
VolumesFind(deviceID) == {v \in DOMAIN graph.vol : <<"volume", v, 0>> = deviceID}
VolumeCreateInstance(class, v) ==
    Instance(VolumeCreateObjectPath(class, v), <<graph.vol[v].size, graph.pool[graph.vol[v].pool].cap>>)

SettingCreateObjectPath(s) == Path("StorageSettingWithHints", s)
SettingCreateInstance(s) ==
    Instance(SettingCreateObjectPath(s), <<settings[s].goal, settings[s].vol = NULL>>)

-----------------------------------------------------------------------------
(***************************************************************************)
(* Names and instances of associations                                     *)
(***************************************************************************)
AntecedentDependent == {"HostedStorageConfigurationService", "StorageSettingsGeneratedFromCapabilities",
                        "BasedOn", "CompositeExtentBasedOn", "AllocatedFromStoragePool"}
GroupAndPart == {"HostedStoragePool", "LogicalDiskDevice", "StorageVolumeDevice",
                 "AssociatedComponentExtent", "AssociatedRemainingExtent"}
ElementCapabilities == {"StorageConfigurationElementCapabilities", "StorageElementCapabilities"}

Roles ==
    [c \in AntecedentDependent \cup GroupAndPart \cup ElementCapabilities \cup {"StorageElementSettingData"} |->
        IF c \in AntecedentDependent THEN <<"Antecedent", "Dependent">>
        ELSE IF c \in GroupAndPart THEN <<"GroupComponent", "PartComponent">>
        ELSE IF c \in ElementCapabilities THEN <<"ManagedElement", "Capabilities">>
        ELSE <<"ManagedElement", "SettingData">>]

RoleNames == {"Antecedent", "Dependent", "GroupComponent", "PartComponent",
              "ManagedElement", "Capabilities", "SettingData"}
ASSUME RoleAssumption == NULL \notin RoleNames \cup DOMAIN Roles

SCSCreateHostedAssocObjectPath == Assoc("HostedStorageConfigurationService", System, SCSCreateObjectPath)
SCSCreateHostedAssocInstance ==
    Instance(Assoc("HostedStorageConfigurationService", System, SCSCreateObjectPath), <<>>)

SCCCreateAssocObjectPath ==
    Assoc("StorageConfigurationElementCapabilities", SCSCreateObjectPath, SCCCreateObjectPath)
SCCCreateAssocInstance ==
    Instance(Assoc("StorageConfigurationElementCapabilities", SCSCreateObjectPath, SCCCreateObjectPath), <<>>)
SSCCreateAssocObjectPath ==
    Assoc("StorageConfigurationElementCapabilities", SCSCreateObjectPath, SSCCreateObjectPath)
SSCCreateAssocInstance ==
    Instance(Assoc("StorageConfigurationElementCapabilities", SCSCreateObjectPath, SSCCreateObjectPath), <<>>)

PoolCreateHostedAssocObjectPath(p) == Assoc("HostedStoragePool", System, PoolCreateObjectPath(p))
PoolCreateHostedAssocInstance(p) == Instance(Assoc("HostedStoragePool", System, PoolCreateObjectPath(p)), <<>>)

PoolCreateCapabilityAssocObjectPath(p) ==
    Assoc("StorageElementCapabilities", PoolCreateObjectPath(p), CapabilityCreateObjectPath(p))
PoolCreateCapabilityAssocInstance(p) ==
    Instance(Assoc("StorageElementCapabilities", PoolCreateObjectPath(p), CapabilityCreateObjectPath(p)), <<>>)

PoolCreateComponentAssocObjectPath(p, x) ==
    Assoc("AssociatedComponentExtent", PoolCreateObjectPath(p), ExtentCreateObjectPath(x))
PoolCreateComponentAssocInstance(p, x) ==
    Instance(Assoc("AssociatedComponentExtent", PoolCreateObjectPath(p), ExtentCreateObjectPath(x)), <<>>)
PoolCreateRemainingAssocObjectPath(p, x) ==
    Assoc("AssociatedRemainingExtent", PoolCreateObjectPath(p), ExtentCreateObjectPath(x))
PoolCreateRemainingAssocInstance(p, x) ==
    Instance(Assoc("AssociatedRemainingExtent", PoolCreateObjectPath(p), ExtentCreateObjectPath(x)), <<>>)

PoolCreateAllocFromAssocObjectPath(dep, ant) ==
    Assoc("AllocatedFromStoragePool", PoolCreateObjectPath(ant), PoolCreateObjectPath(dep))
PoolCreateAllocFromAssocInstance(dep, ant, space) ==
    Instance(Assoc("AllocatedFromStoragePool", PoolCreateObjectPath(ant), PoolCreateObjectPath(dep)), <<space>>)

VolumeCreateAllocFromAssocObjectPath(class, v) ==
    Assoc("AllocatedFromStoragePool", PoolCreateObjectPath(graph.vol[v].pool), VolumeCreateObjectPath(class, v))
VolumeCreateAllocFromAssocInstance(class, v) ==
    Instance(Assoc("AllocatedFromStoragePool", PoolCreateObjectPath(graph.vol[v].pool),
                   VolumeCreateObjectPath(class, v)), <<graph.vol[v].size>>)

\* The instance takes the class of the association for that of the volume.
VolumeCreateDeviceAssocObjectPath(class, v) ==
    Assoc(class, System,
          VolumeCreateObjectPath(IF class = "LogicalDiskDevice" THEN "LogicalDisk" ELSE "StorageVolume", v))
VolumeCreateDeviceAssocInstance(class, v) ==
    Instance(Assoc(class, System, VolumeCreateObjectPath(class, v)), <<>>)

VolumeCreateBasedOnAssocObjectPath(class, v) ==
    Assoc("BasedOn", ExtentCreateObjectPath(graph.vol[v].on), VolumeCreateObjectPath(class, v))
VolumeCreateBasedOnAssocInstance(class, v) ==
    Instance(Assoc("BasedOn", ExtentCreateObjectPath(graph.vol[v].on), VolumeCreateObjectPath(class, v)), <<1>>)

VolumeCreateSettingAssocObjectPath(class, v) ==
    Assoc("StorageElementSettingData", VolumeCreateObjectPath(class, v), SettingCreateObjectPath(VolumeSetting(v)))
VolumeCreateSettingAssocInstance(class, v) ==
    Instance(Assoc("StorageElementSettingData", VolumeCreateObjectPath(class, v),
                   SettingCreateObjectPath(VolumeSetting(v))), <<"IsDefault", "IsCurrent">>)

ExtentCreateBasedOnAssocObjectPath(class, b) ==
    Assoc(class, ExtentCreateObjectPath(b.ant), ExtentCreateObjectPath(b.dep))
ExtentCreateBasedOnAssocInstance(class, b) ==
    Instance(Assoc(class, ExtentCreateObjectPath(b.ant), ExtentCreateObjectPath(b.dep)), <<b.order>>)

SettingCreateGFCAssocObjectPath(s) ==
    Assoc("StorageSettingsGeneratedFromCapabilities",
          CapabilityCreateObjectPath(settings[s].cap), SettingCreateObjectPath(s))
SettingCreateGFCAssocInstance(s) ==
    Instance(Assoc("StorageSettingsGeneratedFromCapabilities",
                   CapabilityCreateObjectPath(settings[s].cap), SettingCreateObjectPath(s)), <<>>)


-----------------------------------------------------------------------------
(***************************************************************************)
(* EnumInstanceNames and EnumInstances                                     *)
(***************************************************************************)
Extents == DOMAIN graph.ext
Pools == DOMAIN graph.pool
Volumes == DOMAIN graph.vol
LogicalDisks == {v \in Volumes : graph.vol[v].isLD}
StorageVolumes == Volumes \ LogicalDisks
Generated == {s \in DOMAIN settings : settings[s].vol = NULL}

\* A composite extent whose own pool is striped has a class of association
\* of its own.
Striped(x) == LET p == graph.ext[x].pool
              IN  graph.ext[x].composite /\ p # NULL /\ (p # NULL => graph.pool[p].cap.stripe > 1)
StripedOn == {b \in graph.based : Striped(b.dep)}
PlainOn == {b \in graph.based : ~Striped(b.dep)}

NamesOfObjects(class) ==
    CASE class = "StorageConfigurationService" -> {SCSCreateObjectPath}
      [] class = "StorageConfigurationCapabilities" -> {SCCCreateObjectPath}
      [] class = "SystemStorageCapabilities" -> {SSCCreateObjectPath}
      [] class = "StorageCapabilities" -> {CapabilityCreateObjectPath(p) : p \in Pools}
      [] class = "StoragePool" -> {PoolCreateObjectPath(p) : p \in Pools}
      [] class = "StorageExtent" -> {ExtentCreateObjectPath(x) : x \in {y \in Extents : ~graph.ext[y].composite}}
      [] class = "CompositeExtent" -> {ExtentCreateObjectPath(x) : x \in {y \in Extents : graph.ext[y].composite}}
      [] class = "LogicalDisk" -> {VolumeCreateObjectPath(class, v) : v \in LogicalDisks}
      [] class = "StorageVolume" -> {VolumeCreateObjectPath(class, v) : v \in StorageVolumes}
      [] class = "StorageSettingWithHints" -> {SettingCreateObjectPath(s) : s \in DOMAIN settings}
      [] OTHER -> {}

NamesOfServices(class) ==
    CASE class = "HostedStorageConfigurationService" -> {SCSCreateHostedAssocObjectPath}
      [] class = "HostedStoragePool" -> {PoolCreateHostedAssocObjectPath(p) : p \in Pools}
      [] class = "LogicalDiskDevice" -> {VolumeCreateDeviceAssocObjectPath(class, v) : v \in LogicalDisks}
      [] class = "StorageVolumeDevice" -> {VolumeCreateDeviceAssocObjectPath(class, v) : v \in StorageVolumes}
      [] class = "StorageConfigurationElementCapabilities" -> {SCCCreateAssocObjectPath, SSCCreateAssocObjectPath}
      [] class = "StorageElementCapabilities" -> {PoolCreateCapabilityAssocObjectPath(p) : p \in Pools}
      [] OTHER -> {}

NamesOfComponents(class) ==
    CASE class = "AssociatedComponentExtent" ->
            UNION {{PoolCreateComponentAssocObjectPath(p, x) :
                        x \in {y \in Components(graph, p) : ~ExtentIsFreespace(y)}} : p \in Pools}
      [] class = "AssociatedRemainingExtent" ->
            UNION {{PoolCreateRemainingAssocObjectPath(p, x) :
                        x \in {y \in Components(graph, p) : ExtentIsFreespace(y)}} : p \in Pools}
      [] class = "StorageSettingsGeneratedFromCapabilities" -> {SettingCreateGFCAssocObjectPath(s) : s \in Generated}
      [] OTHER -> {}

NamesOfBasedOn(class) ==
    CASE class = "BasedOn" ->
            {ExtentCreateBasedOnAssocObjectPath(class, b) : b \in PlainOn}
            \cup {VolumeCreateBasedOnAssocObjectPath(VolumeClass(v), v) : v \in Volumes}
      [] class = "CompositeExtentBasedOn" -> {ExtentCreateBasedOnAssocObjectPath(class, b) : b \in StripedOn}
      [] OTHER -> {}

NamesOfAllocations(class) ==
    CASE class = "AllocatedFromStoragePool" ->
            {PoolCreateAllocFromAssocObjectPath(a.dep, a.ant) : a \in graph.alloc}
            \cup {VolumeCreateAllocFromAssocObjectPath(VolumeClass(v), v) : v \in Volumes}
      [] class = "StorageElementSettingData" ->
            {VolumeCreateSettingAssocObjectPath(VolumeClass(v), v) : v \in Volumes}
      [] OTHER -> {}

EnumInstanceNames(class) ==
    NamesOfObjects(class) \cup NamesOfServices(class) \cup NamesOfComponents(class)
    \cup NamesOfBasedOn(class) \cup NamesOfAllocations(class)

InstancesOfObjects(class) ==
    CASE class = "StorageConfigurationService" -> {SCSCreateInstance}
      [] class = "StorageConfigurationCapabilities" -> {SCCCreateInstance}
      [] class = "SystemStorageCapabilities" -> {SSCCreateInstance}
      [] class = "StorageCapabilities" -> {CapabilityCreateInstance(p) : p \in Pools}
      [] class = "StoragePool" -> {PoolCreateInstance(p) : p \in Pools}
      [] class = "StorageExtent" -> {ExtentCreateInstance(x) : x \in {y \in Extents : ~graph.ext[y].composite}}
      [] class = "CompositeExtent" -> {ExtentCreateInstance(x) : x \in {y \in Extents : graph.ext[y].composite}}
      [] class = "LogicalDisk" -> {VolumeCreateInstance(class, v) : v \in LogicalDisks}
      [] class = "StorageVolume" -> {VolumeCreateInstance(class, v) : v \in StorageVolumes}
      [] class = "StorageSettingWithHints" -> {SettingCreateInstance(s) : s \in DOMAIN settings}
      [] OTHER -> {}

InstancesOfServices(class) ==
    CASE class = "HostedStorageConfigurationService" -> {SCSCreateHostedAssocInstance}
      [] class = "HostedStoragePool" -> {PoolCreateHostedAssocInstance(p) : p \in Pools}
      [] class = "LogicalDiskDevice" -> {VolumeCreateDeviceAssocInstance(class, v) : v \in LogicalDisks}
      [] class = "StorageVolumeDevice" -> {VolumeCreateDeviceAssocInstance(class, v) : v \in StorageVolumes}
      [] class = "StorageConfigurationElementCapabilities" -> {SCCCreateAssocInstance, SSCCreateAssocInstance}
      [] class = "StorageElementCapabilities" -> {PoolCreateCapabilityAssocInstance(p) : p \in Pools}
      [] OTHER -> {}

\* The mutant takes every setting for one a client has made.
MutantInstancesOfComponents(class) ==
    CASE class = "AssociatedComponentExtent" ->
            UNION {{PoolCreateComponentAssocInstance(p, x) :
                        x \in {y \in Components(graph, p) : ~ExtentIsFreespace(y)}} : p \in Pools}
      [] class = "AssociatedRemainingExtent" ->
            UNION {{PoolCreateRemainingAssocInstance(p, x) :
                        x \in {y \in Components(graph, p) : ExtentIsFreespace(y)}} : p \in Pools}
      [] class = "StorageSettingsGeneratedFromCapabilities" ->
            {SettingCreateGFCAssocInstance(s) : s \in DOMAIN settings}
      [] OTHER -> {}

InstancesOfComponents(class) ==
    CASE class = "AssociatedComponentExtent" ->
            UNION {{PoolCreateComponentAssocInstance(p, x) :
                        x \in {y \in Components(graph, p) : ~ExtentIsFreespace(y)}} : p \in Pools}
      [] class = "AssociatedRemainingExtent" ->
            UNION {{PoolCreateRemainingAssocInstance(p, x) :
                        x \in {y \in Components(graph, p) : ExtentIsFreespace(y)}} : p \in Pools}
      [] class = "StorageSettingsGeneratedFromCapabilities" -> {SettingCreateGFCAssocInstance(s) : s \in Generated}
      [] OTHER -> {}

InstancesOfBasedOn(class) ==
    CASE class = "BasedOn" ->
            {ExtentCreateBasedOnAssocInstance(class, b) : b \in PlainOn}
            \cup {VolumeCreateBasedOnAssocInstance(VolumeClass(v), v) : v \in Volumes}
      [] class = "CompositeExtentBasedOn" -> {ExtentCreateBasedOnAssocInstance(class, b) : b \in StripedOn}
      [] OTHER -> {}

InstancesOfAllocations(class) ==
    CASE class = "AllocatedFromStoragePool" ->
            {PoolCreateAllocFromAssocInstance(a.dep, a.ant, a.space) : a \in graph.alloc}
            \cup {VolumeCreateAllocFromAssocInstance(VolumeClass(v), v) : v \in Volumes}
      [] class = "StorageElementSettingData" ->
            {VolumeCreateSettingAssocInstance(VolumeClass(v), v) : v \in Volumes}
      [] OTHER -> {}

EnumInstances(class) ==
    InstancesOfObjects(class) \cup InstancesOfServices(class) \cup InstancesOfComponents(class)
    \cup InstancesOfBasedOn(class) \cup InstancesOfAllocations(class)


-----------------------------------------------------------------------------
(***************************************************************************)
(* GetInstance.  The answer is the set of the instances returned, or       *)
(* NotFound.  Associations without data are given back as they were asked  *)
(* for, whether they exist or not.                                         *)
(***************************************************************************)
NotFound == {"NOT_FOUND"}
Found(exists, instance) == IF exists THEN {instance} ELSE NotFound

GetObject(name) ==
    LET class == Class(name)
        key == Key(name)
    IN  CASE class = "StorageConfigurationService" -> {SCSCreateInstance}
          [] class = "StorageConfigurationCapabilities" -> {SCCCreateInstance}
          [] class = "SystemStorageCapabilities" -> {SSCCreateInstance}
          [] class = "StorageCapabilities" ->
                IF key \in Pools THEN {CapabilityCreateInstance(key)} ELSE NotFound
          [] class = "StoragePool" -> IF key \in Pools THEN {PoolCreateInstance(key)} ELSE NotFound
          [] class \in {"StorageExtent", "CompositeExtent"} ->
                IF key \in Extents /\ (key \in Extents => (graph.ext[key].composite <=> class = "CompositeExtent"))
                THEN {ExtentCreateInstance(key)} ELSE NotFound
          [] class \in {"LogicalDisk", "StorageVolume"} ->
                IF VolumesFind(key) = {} THEN NotFound ELSE {VolumeCreateInstance(class, v) : v \in VolumesFind(key)}
          [] class = "StorageSettingWithHints" ->
                IF key \in DOMAIN settings THEN {SettingCreateInstance(key)} ELSE NotFound

Echoed == {"HostedStorageConfigurationService", "StorageSettingsGeneratedFromCapabilities",
           "HostedStoragePool", "LogicalDiskDevice", "StorageVolumeDevice",
           "AssociatedComponentExtent", "AssociatedRemainingExtent",
           "StorageConfigurationElementCapabilities", "StorageElementCapabilities"}
GetEchoed(name) == {Instance(name, <<>>)}

\* By the dependent; the class asked for is not compared with the extent's.
\* The mutant takes the first extent below for the one that was named.
MutantGetBasedOn(name) ==
    LET dep == Key(name[3])
        ant == Key(name[2])
    IN  IF dep \in Extents
        THEN {ExtentCreateBasedOnAssocInstance(Class(name), b) : b \in {c \in Antecedents(graph, dep) : c.order = 1}}
        ELSE {VolumeCreateBasedOnAssocInstance(VolumeClass(v), v) :
                v \in {w \in VolumesFind(dep) : Class(name) = "BasedOn" /\ graph.vol[w].on = ant}}
GetBasedOn(name) ==
    LET dep == Key(name[3])
        ant == Key(name[2])
    IN  IF dep \in Extents
        THEN {ExtentCreateBasedOnAssocInstance(Class(name), b) : b \in {c \in Antecedents(graph, dep) : c.ant = ant}}
        ELSE {VolumeCreateBasedOnAssocInstance(VolumeClass(v), v) :
                v \in {w \in VolumesFind(dep) : Class(name) = "BasedOn" /\ graph.vol[w].on = ant}}

GetAllocatedFrom(name) ==
    LET ant == Key(name[2])
        dep == name[3]
    IN  IF ant \notin Pools THEN NotFound
        ELSE IF Class(dep) = "StoragePool"
        THEN {PoolCreateAllocFromAssocInstance(a.dep, a.ant, a.space) :
                a \in {b \in graph.alloc : b.ant = ant /\ b.dep = Key(dep)}}
        ELSE {VolumeCreateAllocFromAssocInstance(VolumeClass(v), v) :
                v \in {w \in VolumesFind(Key(dep)) : graph.vol[w].pool = ant}}

GetSettingData(name) == {Instance(name, <<"IsDefault", "IsCurrent">>)}

GetInstance(name) ==
    LET class == Class(name)
    IN  CASE class \in Echoed -> GetEchoed(name)
          [] class \in {"BasedOn", "CompositeExtentBasedOn"} -> GetBasedOn(name)
          [] class = "AllocatedFromStoragePool" -> GetAllocatedFrom(name)
          [] class = "StorageElementSettingData" -> GetSettingData(name)
          [] OTHER -> GetObject(name)

-----------------------------------------------------------------------------
(***************************************************************************)
(* doReferences: the associations of a class an object has, narrowed by    *)
(* the class and the role asked for of the other end (NULL: any).          *)
(***************************************************************************)
\* cmpiutilClassIsDerivedFrom: a class, its parent in CIM and the root.
Parent(class) == IF class \in {"StorageExtent", "CompositeExtent", "LogicalDisk", "StorageVolume"}
                 THEN "CIM_StorageExtent" ELSE "CIM_ManagedSystemElement"
Derived(class, rc) == rc \in {NULL, class, Parent(class)}
Asked(resultRole, role) == resultRole \in {NULL, role}
Only(cond, set) == IF cond THEN set ELSE {}

ExtentClasses == {"StorageExtent", "CompositeExtent"}
VolumeClasses == {"LogicalDisk", "StorageVolume"}

RefsHostedStorageConfigurationService(e, rc, rr) ==
    Only(\/ e = System /\ Derived("StorageConfigurationService", rc) /\ Asked(rr, "Dependent")
         \/ e = SCSCreateObjectPath /\ Derived("UnitaryComputerSystem", rc) /\ Asked(rr, "Antecedent"),
         {SCSCreateHostedAssocInstance})

\* From the service, a class that covers both kinds of capabilities gives the
\* first only.
RefsStorageConfigurationElementCapabilities(e, rc, rr) ==
    LET toService == Derived("StorageConfigurationService", rc) /\ Asked(rr, "ManagedElement")
        isSCC == Derived("StorageConfigurationCapabilities", rc)
        isSSC == Derived("SystemStorageCapabilities", rc)
        fromService == e = SCSCreateObjectPath /\ Asked(rr, "Capabilities")
    IN  Only((e = SCCCreateObjectPath /\ toService) \/ (fromService /\ isSCC), {SCCCreateAssocInstance})
        \cup Only(\/ e = SSCCreateObjectPath /\ toService
                  \/ fromService /\ isSSC /\ (rc = NULL \/ ~isSCC), {SSCCreateAssocInstance})

RefsHostedStoragePool(e, rc, rr) ==
    Only(e = System /\ Derived("StoragePool", rc) /\ Asked(rr, "PartComponent"),
         {PoolCreateHostedAssocInstance(p) : p \in Pools})
    \cup Only(Class(e) = "StoragePool" /\ Derived("UnitaryComputerSystem", rc) /\ Asked(rr, "GroupComponent"),
              {PoolCreateHostedAssocInstance(p) : p \in Pools \cap {Key(e)}})

\* The system has every volume as a device of either kind.
RefsLogicalDiskDevice(e, rc, rr) ==
    Only(e = System /\ Derived("LogicalDisk", rc) /\ Asked(rr, "PartComponent"),
         {VolumeCreateDeviceAssocInstance("LogicalDiskDevice", v) : v \in Volumes})
    \cup Only(Class(e) = "LogicalDisk" /\ Derived("UnitaryComputerSystem", rc) /\ Asked(rr, "GroupComponent"),
              {VolumeCreateDeviceAssocInstance("LogicalDiskDevice", v) : v \in VolumesFind(Key(e))})

RefsStorageVolumeDevice(e, rc, rr) ==
    Only(e = System /\ Derived("StorageVolume", rc) /\ Asked(rr, "PartComponent"),
         {VolumeCreateDeviceAssocInstance("StorageVolumeDevice", v) : v \in Volumes})
    \cup Only(Class(e) = "StorageVolume" /\ Derived("UnitaryComputerSystem", rc) /\ Asked(rr, "GroupCompnnent"),
              {VolumeCreateDeviceAssocInstance("StorageVolumeDevice", v) : v \in VolumesFind(Key(e))})

RefsStorageElementCapabilities(e, rc, rr) ==
    Only(\/ Class(e) = "StorageCapabilities" /\ Derived("StoragePool", rc) /\ Asked(rr, "ManagedElement")
         \/ Class(e) = "StoragePool" /\ Derived("StorageCapabilities", rc) /\ Asked(rr, "Capabilities"),
         {PoolCreateCapabilityAssocInstance(p) : p \in Pools \cap {Key(e)}})

\* The mutant gives an extent's association its free space, too.
MutantRefsAssociatedComponentExtent(e, rc, rr) ==
    LET mine == IF Class(e) = "StoragePool"
                THEN Only(Derived("StorageExtent", rc) /\ Asked(rr, "PartComponent"), Components(graph, Key(e)))
                ELSE Only(Class(e) \in ExtentClasses /\ Derived("StoragePool", rc) /\ Asked(rr, "GroupComponent"),
                          {x \in Extents \cap {Key(e)} : graph.ext[x].pool # NULL})
    IN  {PoolCreateComponentAssocInstance(graph.ext[x].pool, x) : x \in mine}

RefsAssociatedComponentExtent(e, rc, rr) ==
    LET mine == IF Class(e) = "StoragePool"
                THEN Only(Derived("StorageExtent", rc) /\ Asked(rr, "PartComponent"), Components(graph, Key(e)))
                ELSE Only(Class(e) \in ExtentClasses /\ Derived("StoragePool", rc) /\ Asked(rr, "GroupComponent"),
                          {x \in Extents \cap {Key(e)} : graph.ext[x].pool # NULL})
    IN  {PoolCreateComponentAssocInstance(graph.ext[x].pool, x) : x \in {y \in mine : ~ExtentIsFreespace(y)}}

RefsAssociatedRemainingExtent(e, rc, rr) ==
    LET mine == IF Class(e) = "StoragePool"
                THEN Only(Derived("StorageExtent", rc) /\ Asked(rr, "PartComponent"), Components(graph, Key(e)))
                ELSE Only(Class(e) \in ExtentClasses /\ Derived("StoragePool", rc) /\ Asked(rr, "GroupComponent"),
                          {x \in Extents \cap {Key(e)} : graph.ext[x].pool # NULL})
    IN  {PoolCreateRemainingAssocInstance(graph.ext[x].pool, x) : x \in {y \in mine : ExtentIsFreespace(y)}}

RefsStorageSettingsGeneratedFromCapabilities(e, rc, rr) ==
    LET mine == Only(Class(e) = "StorageCapabilities" /\ Derived("StorageSettingWithHints", rc) /\ Asked(rr, "Dependent"),
                     {s \in Generated : settings[s].cap = Key(e)})
                \cup Only(Class(e) = "StorageSettingWithHints" /\ Derived("StorageCapabilities", rc)
                              /\ Asked(rr, "Antecedent"), Generated \cap {Key(e)})
    IN  {SettingCreateGFCAssocInstance(s) : s \in mine}

-----------------------------------------------------------------------------
\* BasedOn from an extent: what it is based on, of whatever class, and what is
\* based on it.  A class that covers extents is not compared with volumes.
MutantBasedOnOfExtent(class, on, x, rc, rr) ==
    {ExtentCreateBasedOnAssocInstance(class, b) :
        b \in {c \in on : \/ c.dep = x /\ Asked(rr, "Dependent")
                          \/ c.ant = x /\ Asked(rr, "Dependent") /\ Derived("StorageExtent", rc)}}
BasedOnOfExtent(class, on, x, rc, rr) ==
    {ExtentCreateBasedOnAssocInstance(class, b) :
        b \in {c \in on : \/ c.dep = x /\ Asked(rr, "Antecedent")
                          \/ c.ant = x /\ Asked(rr, "Dependent") /\ Derived("StorageExtent", rc)}}

BasedOnOfVolumes(x, rc, rr) ==
    Only(/\ Asked(rr, "Dependent")
         /\ rc = NULL \/ (~Derived("StorageExtent", rc) /\ (Derived("LogicalDisk", rc) \/ Derived("StorageVolume", rc))),
         {VolumeCreateBasedOnAssocInstance(VolumeClass(v), v) : v \in VolumesOn(graph, x)})

\* From a volume, naming the role finds nothing: both branches of its check
\* clear the flag.
RefsBasedOn(e, rc, rr) ==
    CASE Class(e) \in ExtentClasses ->
            BasedOnOfExtent("BasedOn", PlainOn, Key(e), rc, rr) \cup BasedOnOfVolumes(Key(e), rc, rr)
      [] Class(e) \in VolumeClasses ->
            Only(rr = NULL /\ Derived("StorageExtent", rc),
                 {VolumeCreateBasedOnAssocInstance(VolumeClass(v), v) : v \in VolumesFind(Key(e))})
      [] OTHER -> {}

MutantRefsCompositeExtentBasedOn(e, rc, rr) ==
    Only(Class(e) = "StorageExtent", BasedOnOfExtent("CompositeExtentBasedOn", StripedOn, Key(e), rc, rr))
RefsCompositeExtentBasedOn(e, rc, rr) ==
    Only(Class(e) \in ExtentClasses, BasedOnOfExtent("CompositeExtentBasedOn", StripedOn, Key(e), rc, rr))

AllocatedOfPool(p, rc, rr) ==
    LET isPool == Derived("StoragePool", rc)
        isVolume == Derived("LogicalDisk", rc) \/ Derived("StorageVolume", rc)
    IN  {PoolCreateAllocFromAssocInstance(a.dep, a.ant, a.space) :
            a \in {b \in graph.alloc : \/ b.dep = p /\ Asked(rr, "Antecedent")
                                       \/ b.ant = p /\ Asked(rr, "Dependent") /\ isPool}}
        \cup Only(Asked(rr, "Dependent") /\ (rc = NULL \/ (~isPool /\ isVolume)),
                  {VolumeCreateAllocFromAssocInstance(VolumeClass(v), v) :
                        v \in {w \in Volumes : graph.vol[w].pool = p}})

RefsAllocatedFromStoragePool(e, rc, rr) ==
    CASE Class(e) = "StoragePool" -> AllocatedOfPool(Key(e), rc, rr)
      [] Class(e) \in VolumeClasses ->
            Only(Derived("StoragePool", rc) /\ Asked(rr, "Antecedent"),
                 {VolumeCreateAllocFromAssocInstance(VolumeClass(v), v) : v \in VolumesFind(Key(e))})
      [] OTHER -> {}

\* The test for a storage volume is a second one for a logical disk, and a
\* setting is found when the class asked for covers both kinds of volume.
RefsStorageElementSettingData(e, rc, rr) ==
    LET mine == Only(Class(e) = "LogicalDisk" /\ Derived("StorageSettingWithHints", rc) /\ Asked(rr, "SettingData"),
                     VolumesFind(Key(e)))
                \cup Only(Class(e) = "StorageSettingWithHints" /\ Asked(rr, "ManagedElement")
                             /\ Derived("LogicalDisk", rc) /\ Derived("StorageVolume", rc),
                          {settings[s].vol : s \in {t \in DOMAIN settings : t = Key(e)}} \cap Volumes)
    IN  {VolumeCreateSettingAssocInstance(VolumeClass(v), v) : v \in mine}

References(e, assocClass, rc, rr) ==
    CASE assocClass = "HostedStorageConfigurationService" -> RefsHostedStorageConfigurationService(e, rc, rr)
      [] assocClass = "StorageConfigurationElementCapabilities" ->
            RefsStorageConfigurationElementCapabilities(e, rc, rr)
      [] assocClass = "HostedStoragePool" -> RefsHostedStoragePool(e, rc, rr)
      [] assocClass = "LogicalDiskDevice" -> RefsLogicalDiskDevice(e, rc, rr)
      [] assocClass = "StorageVolumeDevice" -> RefsStorageVolumeDevice(e, rc, rr)
      [] assocClass = "StorageElementCapabilities" -> RefsStorageElementCapabilities(e, rc, rr)
      [] assocClass = "AssociatedComponentExtent" -> RefsAssociatedComponentExtent(e, rc, rr)
      [] assocClass = "AssociatedRemainingExtent" -> RefsAssociatedRemainingExtent(e, rc, rr)
      [] assocClass = "StorageSettingsGeneratedFromCapabilities" ->
            RefsStorageSettingsGeneratedFromCapabilities(e, rc, rr)
      [] assocClass = "BasedOn" -> RefsBasedOn(e, rc, rr)
      [] assocClass = "CompositeExtentBasedOn" -> RefsCompositeExtentBasedOn(e, rc, rr)
      [] assocClass = "AllocatedFromStoragePool" -> RefsAllocatedFromStoragePool(e, rc, rr)
      [] assocClass = "StorageElementSettingData" -> RefsStorageElementSettingData(e, rc, rr)

doReferences(e, assocClass, rc, rr) ==
    IF assocClass # NULL THEN References(e, assocClass, rc, rr)
    ELSE UNION {References(e, class, rc, rr) : class \in DOMAIN Roles}

-----------------------------------------------------------------------------
(***************************************************************************)
(* The provider and its clients                                            *)
(***************************************************************************)
NavInit == Init /\ settings = [s \in {} |-> NULL]

\* Whatever is asked first, the disks are scanned before it is answered.
FirstRead ==
    /\ call.pc = "idle" /\ needScan
    /\ ScanStorage(UNCHANGED <<call, reply>>)
    /\ settings' = SettingsAfterScan(graph')

\* The capabilities are read; nothing else that is read may change the arrays.
ShowCapability ==
    /\ Idling
    /\ \E c \in Pools : graph' = [graph EXCEPT !.pool[c].cap = CapabilityCreateInstance(c)[2][1]]
    /\ UNCHANGED <<lib, disk, needScan, call, reply, served, settings>>

\* A pool is created for the goal in a setting that the client names.
CreateByGoal ==
    /\ RequestCreate
    /\ \E s \in DOMAIN settings : call'.goal = settings[s].goal
    /\ UNCHANGED settings

\* RaidPool's steps: those that scan discard the settings of clients.
Rescanned == IF call.pc \in {"enter", "scan"} \/ needScan' THEN SettingsAfterScan(graph') ELSE settings

NavRequest ==
    \/ CreateByGoal
    \/ RequestDelete /\ UNCHANGED settings
    \/ UsePool /\ settings' = SettingsAfterScan(graph')

NavNext ==
    \/ served < MaxRequests /\ served' = served + 1 /\ NavRequest
    \/ (Step \/ Stopped) /\ UNCHANGED served /\ settings' = Rescanned
    \/ FirstRead /\ UNCHANGED served
    \/ ShowCapability
    \/ (CapabilityCreateSetting \/ SetInstance)

NavSpec == NavInit /\ [][NavNext]_navVars

-----------------------------------------------------------------------------
(***************************************************************************)
(* Properties.  They are about the objects between two calls.              *)
(***************************************************************************)
Ready == Idling

DeviceClasses == {"LogicalDiskDevice", "StorageVolumeDevice"}
ObjectClasses == {"StorageConfigurationService", "StorageConfigurationCapabilities", "SystemStorageCapabilities",
                  "StorageCapabilities", "StoragePool", "StorageExtent", "CompositeExtent", "LogicalDisk",
                  "StorageVolume", "StorageSettingWithHints"}
AssocClasses == DOMAIN Roles
Objects == {System} \cup UNION {EnumInstanceNames(class) : class \in ObjectClasses}

\* Every setting a client can name hangs on objects that are there: its
\* capability and, for the setting of a volume, the volume.
SettingsAreAnchored ==
    Ready => \A s \in DOMAIN settings :
        /\ settings[s].cap \in Pools
        /\ settings[s].vol # NULL => settings[s].vol \in Volumes /\ graph.vol[settings[s].vol].pool = settings[s].cap
        /\ \A v \in Volumes : VolumeSetting(v) \in DOMAIN settings

\* Names and instances are two walks over the arrays, and agree for every
\* class but those of the devices, whose instances name the wrong class.
NamesAreInstances ==
    Ready => \A class \in (ObjectClasses \cup AssocClasses) \ DeviceClasses :
        EnumInstanceNames(class) = {NameOf(i) : i \in EnumInstances(class)}

\* A client that asks for the instance of a name it was given gets the one it
\* would have been given with all others.
NamesCanBeGot ==
    Ready => \A class \in (ObjectClasses \cup AssocClasses) \ DeviceClasses :
        EnumInstances(class) = UNION {GetInstance(name) : name \in EnumInstanceNames(class)}

EndsOf(name) == {name[2], name[3]}
SettingOfStorageVolume(name) == Class(name) = "StorageElementSettingData" /\ Class(name[2]) = "StorageVolume"

\* An association is found from both of its ends, and from no other object.
\* (Not the devices, which the system finds in both classes, and not the
\* setting of a storage volume, which the volume does not find.)
EndsAgree ==
    Ready => \A class \in AssocClasses \ DeviceClasses : \A e \in Objects :
        doReferences(e, class, NULL, NULL) =
            {i \in EnumInstances(class) : e \in EndsOf(NameOf(i)) /\ ~(e = NameOf(i)[2] /\ SettingOfStorageVolume(NameOf(i)))}

\* Naming the role of the other end leaves out nothing but associations with
\* another role.  (Not from volumes, which find
\* their extent only when no role is asked for.)
RolesSelectEnds ==
    Ready => \A class \in AssocClasses \ DeviceClasses : \A e \in Objects, end \in {1, 2} :
        Class(e) \notin VolumeClasses =>
            doReferences(e, class, NULL, Roles[class][end]) =
                {i \in doReferences(e, class, NULL, NULL) : NameOf(i)[end + 1] # e}

\* Looking does not change what is looked at: the capability whose instance
\* the provider completes before showing it has the value already.
ShowingChangesNothing == [][ShowCapability => UNCHANGED graph]_navVars

\* An extent can be shown: its redundancy is that of a pool that is there, or
\* there is none to show ("No capability found for composite extent").
ExtentsCanBeShown == Ready => \A x \in Extents : ExtentShowsPool(x) \in Pools \cup {"none"}

\* The navigation a client of the array profile does first: from a volume to
\* its pool and its extent, from there down to disks of the primordial pool.
\* Each step is an association the provider gives, so none may be missing.
DisksAreReached ==
    Ready => \A v \in Volumes :
        LET start == VolumeCreateObjectPath(VolumeClass(v), v)
            down(e) == {NameOf(i)[2] : i \in {j \in doReferences(e, "BasedOn", NULL, NULL)
                                                    \cup doReferences(e, "CompositeExtentBasedOn", NULL, NULL) : NameOf(j)[3] = e}}
            level[n \in 0..6] == IF n = 0 THEN {start} ELSE UNION {down(e) : e \in level[n - 1]}
            leaves == {e \in UNION {level[n] : n \in 0..6} : down(e) = {}}
        IN  /\ leaves # {} /\ level[6] = {}
            /\ \A e \in leaves : \E i \in doReferences(e, "AssociatedComponentExtent", NULL, "GroupComponent") :
                  NameOf(i)[2] = PoolCreateObjectPath(Primordial)
=============================================================================
