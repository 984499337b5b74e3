------------------------- MODULE ServerProfile_proofs -------------------------
(***************************************************************************)
(* Proofs about the server profile, for any set of object managers.  The   *)
(* only invariant needed is the type invariant; the other properties hold  *)
(* of every state that has it.  Their proofs rest on what each class and   *)
(* each association of the profile consists of, found once for all in the  *)
(* lemmas about the enumerations.                                          *)
(***************************************************************************)
EXTENDS ServerProfile, FiniteSetTheorems, TLAPS

Element(p) == IF p = "Server" THEN ManagerPath(managers[1]) ELSE ComputerSystem
Conforms(p) == Assoc("ElementConformsToSMIProfile", Element(p), RegisteredProfileCreateObjectPath(p))
Requires(p, sub) ==
    Assoc("SMISubProfileRequiresProfile", RegisteredProfileCreateObjectPath(sub), RegisteredProfileCreateObjectPath(p))
Identity(s, p) ==
    Assoc("SMIElementSoftwareIdentity", SoftwareIdentityCreateObjectPath(s), RegisteredProfileCreateObjectPath(p))

\* The first of some object managers is one of them.
LEMMA ManagersAreSome ==
    ASSUME NEW some \in SUBSET Managers, NEW seq \in SetToSeqs(some)
    PROVE  /\ seq = <<>> \/ seq[1] \in Managers
           /\ seq # <<>> => seq[1] \in Managers
<1>1. IsFiniteSet(some)
  BY ManagerAssumption, FS_Subset
<1>2. Cardinality(some) \in Nat
  BY <1>1, FS_CardinalityType
<1>3. seq \in [1..Cardinality(some) -> some]
  BY DEF SetToSeqs
<1>4. CASE Cardinality(some) = 0
  <2>1. seq \in [1..0 -> some]
    BY <1>3, <1>4
  <2>2. 1..0 = {}
    OBVIOUS
  <2>3. seq = <<>>
    BY <2>1, <2>2
  <2> QED
    BY <2>3
<1>5. CASE Cardinality(some) # 0
  <2>1. 1 \in 1..Cardinality(some)
    BY <1>2, <1>5
  <2> QED
    BY <2>1, <1>3
<1> QED
  BY <1>4, <1>5

LEMMA FirstManager ==
    ASSUME TypeOK, managers # <<>>
    PROVE  managers[1] \in Managers
BY ManagersAreSome DEF TypeOK

\* An association of a profile with what conforms to it: NULL only for the
\* server profile, and then because there is no object manager.
LEMMA ConformsOrNull ==
    ASSUME TypeOK, NEW p \in Profiles
    PROVE  /\ p # "Server" \/ managers # <<>> => ElementConforms(p) = Conforms(p) /\ Conforms(p) # NULL
           /\ p = "Server" /\ managers = <<>> => ElementConforms(p) = NULL
           /\ managers # <<>> \/ p # "Server" => Element(p) \in AllObjects
<1>1. ComputerSystem \in AllObjects /\ ComputerSystem # NULL
  BY NullAssumption DEF AllObjects
<1>2. ASSUME managers # <<>> PROVE ManagerPath(managers[1]) \in AllObjects /\ ManagerPath(managers[1]) # NULL
  BY <1>2, FirstManager, NullAssumption DEF AllObjects
<1>3. ASSUME p # "Server" \/ managers # <<>> PROVE Element(p) \in AllObjects /\ Element(p) # NULL
  BY <1>1, <1>2, <1>3 DEF Element
<1>4. ASSUME p # "Server" \/ managers # <<>> PROVE ElementConforms(p) = Conforms(p)
  BY <1>3, <1>4 DEF ElementConforms, Conforms, Element, GetObjectManagerObjectPath
<1>5. ASSUME p # "Server" \/ managers # <<>> PROVE Conforms(p) # NULL
  BY <1>3, <1>5, NullAssumption DEF Conforms
<1>6. p = "Server" /\ managers = <<>> => ElementConforms(p) = NULL
  BY DEF ElementConforms, GetObjectManagerObjectPath
<1> QED
  BY <1>3, <1>4, <1>5, <1>6
(***************************************************************************)
(* What the classes and associations consist of.                           *)
(***************************************************************************)
ProfilesOf(s) == {"Server", OwnProfile(s)} \cup SubProfiles

LEMMA ClassesDiffer ==
    /\ ObjectClasses = {"RegisteredSMIProfile", "RegisteredSMISubProfile",
                        "SMIVolumeManagementSoftware", "SMIArraySoftware"}
    /\ SoftwareClasses = {"SMIVolumeManagementSoftware", "SMIArraySoftware"}
    /\ ObjectClasses \cap AssocClasses = {}
<1>1. SoftwareClasses = {"SMIVolumeManagementSoftware", "SMIArraySoftware"}
  BY DEF SoftwareClasses, SoftwareClass, Software
<1> QED
  BY <1>1 DEF ObjectClasses, AssocClasses

\* The two ways to write the name of an object agree.
LEMMA PathsAgree ==
    /\ \A p \in Profiles \cup SubProfiles : RegisteredProfileCreateInstance(p) = RegisteredProfileCreateObjectPath(p)
    /\ \A s \in Software : /\ SoftwareIdentityCreateInstance(s) = SoftwareIdentityCreateObjectPath(s)
                           /\ SoftwareIdentityCreateObjectPath(s) = Path(SoftwareClass(s), s)
BY DEF RegisteredProfileCreateInstance, RegisteredProfileCreateObjectPath, SoftwareIdentityCreateInstance,
       SoftwareIdentityCreateObjectPath, Software, SoftwareClass

\* What an association that is found by its name and by its instance is.
LEMMA AssociationsAgree ==
    /\ \A p, sub : /\ RegisteredProfileCreateSubProfileRequiresAssocObjectPath(p, sub) = Requires(p, sub)
                   /\ RegisteredProfileCreateSubProfileRequiresAssocInstance(p, sub) = Requires(p, sub)
    /\ \A s, p : /\ SoftwareIdentityCreateElementAssocObjectPath(s, p) = Identity(s, p)
                 /\ SoftwareIdentityCreateElementAssocInstance(s, p) = Identity(s, p)
BY DEF RegisteredProfileCreateSubProfileRequiresAssocObjectPath, Requires, Identity,
       RegisteredProfileCreateSubProfileRequiresAssocInstance, SoftwareIdentityCreateElementAssocObjectPath,
       SoftwareIdentityCreateElementAssocInstance

LEMMA EnumeratedConforms ==
    ASSUME TypeOK
    PROVE  LET A == "ElementConformsToSMIProfile" IN
           /\ EnumInstances(A) = IF managers = <<>> THEN Failed ELSE OK({Conforms(p) : p \in Profiles})
           /\ EnumInstanceNames(A) = EnumInstances(A)
<1> DEFINE made == {ElementConforms(p) : p \in Profiles}
<1>1. "Server" \in Profiles
  BY DEF Profiles
<1>2. managers = <<>> => NULL \in made
  BY <1>1, ConformsOrNull
<1>3. managers # <<>> => NULL \notin made /\ made = {Conforms(p) : p \in Profiles}
  BY ConformsOrNull
<1>4. AllOrFailed(made) = IF managers = <<>> THEN Failed ELSE OK({Conforms(p) : p \in Profiles})
  BY <1>2, <1>3 DEF AllOrFailed
<1>5. /\ EnumInstances("ElementConformsToSMIProfile") = AllOrFailed(made)
      /\ EnumInstanceNames("ElementConformsToSMIProfile") = AllOrFailed(made)
  BY DEF EnumInstances, EnumInstanceNames, InstancesOfAssociations, NamesOfAssociations, AssocClasses,
         RegisteredProfileCreateElementConformsAssocObjectPath,
         RegisteredProfileCreateElementConformsAssocInstance
<1> QED
  BY <1>4, <1>5

LEMMA EnumeratedRequires ==
    LET A == "SMISubProfileRequiresProfile" IN
    /\ EnumInstances(A) = OK({Requires(p, sub) : p \in {"VolumeManagement", "Array"}, sub \in SubProfiles})
    /\ EnumInstanceNames(A) = EnumInstances(A)
BY AssociationsAgree DEF EnumInstances, EnumInstanceNames, InstancesOfAssociations, NamesOfAssociations, AssocClasses

LEMMA EnumeratedIdentity ==
    LET A == "SMIElementSoftwareIdentity" IN
    /\ EnumInstances(A) = OK(UNION {{Identity(s, p) : p \in ProfilesOf(s)} : s \in Software})
    /\ EnumInstanceNames(A) = EnumInstances(A)
BY AssociationsAgree DEF EnumInstances, EnumInstanceNames, InstancesOfAssociations, NamesOfAssociations,
                         AssocClasses, ProfilesOf

LEMMA EnumeratedObjects ==
    /\ EnumInstances("RegisteredSMIProfile") = OK({RegisteredProfileCreateObjectPath(p) : p \in Profiles})
    /\ EnumInstances("RegisteredSMISubProfile") = OK({RegisteredProfileCreateObjectPath(p) : p \in SubProfiles})
    /\ \A s \in Software : EnumInstances(SoftwareClass(s)) = OK({SoftwareIdentityCreateObjectPath(s)})
    /\ \A class \in ObjectClasses : EnumInstanceNames(class) = EnumInstances(class)
<1>1. /\ EnumInstances("RegisteredSMIProfile") = OK({RegisteredProfileCreateObjectPath(p) : p \in Profiles})
      /\ EnumInstanceNames("RegisteredSMIProfile") = EnumInstances("RegisteredSMIProfile")
  <2>1. {RegisteredProfileCreateInstance(p) : p \in Profiles} = {RegisteredProfileCreateObjectPath(p) : p \in Profiles}
    BY PathsAgree
  <2> QED
    BY <2>1 DEF EnumInstances, EnumInstanceNames, InstancesOf, NamesOf, AssocClasses
<1>2. /\ EnumInstances("RegisteredSMISubProfile") = OK({RegisteredProfileCreateObjectPath(p) : p \in SubProfiles})
      /\ EnumInstanceNames("RegisteredSMISubProfile") = EnumInstances("RegisteredSMISubProfile")
  <2>1. {RegisteredProfileCreateInstance(p) : p \in SubProfiles} = {RegisteredProfileCreateObjectPath(p) : p \in SubProfiles}
    BY PathsAgree
  <2> QED
    BY <2>1 DEF EnumInstances, EnumInstanceNames, InstancesOf, NamesOf, AssocClasses
<1>3. \A s \in Software : /\ EnumInstances(SoftwareClass(s)) = OK({SoftwareIdentityCreateObjectPath(s)})
                          /\ EnumInstanceNames(SoftwareClass(s)) = EnumInstances(SoftwareClass(s))
  BY PathsAgree DEF EnumInstances, EnumInstanceNames, InstancesOf, NamesOf, AssocClasses, Software, SoftwareClass
<1> QED
  BY <1>1, <1>2, <1>3, ClassesDiffer DEF Software, SoftwareClass

\* The enumeration of the names of a class and that of its instances, which
\* are written out separately in the provider, always agree.
THEOREM EnumerationsAgree ==
    ASSUME TypeOK
    PROVE  ProfileNamesAreInstances
BY EnumeratedConforms, EnumeratedRequires, EnumeratedIdentity, EnumeratedObjects
   DEF ProfileNamesAreInstances, AssocClasses
(***************************************************************************)
(* The type invariant.  A client holds what an answer showed, and every    *)
(* end of every association is an object.                                  *)
(***************************************************************************)
ProfileOf(p) == RegisteredProfileCreateObjectPath(p)
SoftwareOf(s) == SoftwareIdentityCreateObjectPath(s)

\* An object is known by its class and its name.
LEMMA ObjectCases ==
    /\ \A p \in Profiles : ProfileOf(p) = <<"RegisteredSMIProfile", p>> /\ ProfileOf(p) \in AllObjects
    /\ \A p \in SubProfiles : ProfileOf(p) = <<"RegisteredSMISubProfile", p>> /\ ProfileOf(p) \in AllObjects
    /\ \A s \in Software : SoftwareOf(s) = <<SoftwareClass(s), s>> /\ SoftwareOf(s) \in AllObjects
    /\ ComputerSystem = <<"Linux_ComputerSystem", "host">> /\ ComputerSystem \in AllObjects
    /\ \A m \in Managers : ManagerPath(m) = <<"CIM_ObjectManager", m>> /\ ManagerPath(m) \in AllObjects
    /\ \A e \in AllObjects : \/ \E p \in Profiles \cup SubProfiles : e = ProfileOf(p)
                             \/ \E s \in Software : e = SoftwareOf(s)
                             \/ e = ComputerSystem
                             \/ \E m \in Managers : e = ManagerPath(m)
<1>1. \A p \in Profiles : ProfileOf(p) = <<"RegisteredSMIProfile", p>>
  BY DEF ProfileOf, RegisteredProfileCreateObjectPath, Path
<1>2. \A p \in SubProfiles : ProfileOf(p) = <<"RegisteredSMISubProfile", p>>
  BY DEF ProfileOf, RegisteredProfileCreateObjectPath, Path, SubProfiles, Profiles
<1>3. \A s \in Software : SoftwareOf(s) = <<SoftwareClass(s), s>>
  BY PathsAgree DEF SoftwareOf, Path
<1>4. ComputerSystem = <<"Linux_ComputerSystem", "host">>
  BY DEF ComputerSystem, Path
<1>5. \A m \in Managers : ManagerPath(m) = <<"CIM_ObjectManager", m>>
  BY DEF ManagerPath, Path
<1>6. AllObjects = {ProfileOf(p) : p \in Profiles \cup SubProfiles} \cup {SoftwareOf(s) : s \in Software}
                   \cup {ComputerSystem} \cup {ManagerPath(m) : m \in Managers}
  BY DEF AllObjects, ProfileOf, SoftwareOf
<1> QED
  BY <1>1, <1>2, <1>3, <1>4, <1>5, <1>6

LEMMA EndsAreObjects ==
    ASSUME TypeOK
    PROVE  /\ \A p \in Profiles : p # "Server" \/ managers # <<>> =>
                  Conforms(p)[2] \in AllObjects /\ Conforms(p)[3] \in AllObjects
           /\ \A p \in {"VolumeManagement", "Array"}, sub \in SubProfiles :
                  Requires(p, sub)[2] \in AllObjects /\ Requires(p, sub)[3] \in AllObjects
           /\ \A s \in Software, p \in Profiles \cup SubProfiles :
                  Identity(s, p)[2] \in AllObjects /\ Identity(s, p)[3] \in AllObjects
<1>1. \A p \in Profiles : p # "Server" \/ managers # <<>> =>
          Conforms(p)[2] \in AllObjects /\ Conforms(p)[3] \in AllObjects
  BY ConformsOrNull, ObjectCases DEF Conforms, Assoc, ProfileOf
<1>2. \A p \in {"VolumeManagement", "Array"}, sub \in SubProfiles :
          Requires(p, sub)[2] \in AllObjects /\ Requires(p, sub)[3] \in AllObjects
  BY ObjectCases DEF Requires, Assoc, ProfileOf, Profiles
<1>3. \A s \in Software, p \in Profiles \cup SubProfiles :
          Identity(s, p)[2] \in AllObjects /\ Identity(s, p)[3] \in AllObjects
  BY ObjectCases DEF Identity, Assoc, ProfileOf, SoftwareOf
<1> QED
  BY <1>1, <1>2, <1>3

IsReply(a) ==
    /\ a.rc \in {"OK", "FAILED", "NOT_FOUND", "died"}
    /\ \A i \in a.found : i[2] \in AllObjects /\ i[3] \in AllObjects

LEMMA ReferencesOfConforms ==
    ASSUME TypeOK, NEW e \in AllObjects, NEW rc, NEW rr
    PROVE  IsReply(RefsElementConformsToSMIProfile(e, rc, rr))
<1>1. CASE e = ComputerSystem
  <2>1. \A p \in {"VolumeManagement", "Array"} :
            /\ p \in Profiles
            /\ RegisteredProfileCreateElementConformsAssocInstance(p) = Conforms(p)
            /\ Conforms(p)[2] \in AllObjects /\ Conforms(p)[3] \in AllObjects
    BY ConformsOrNull, EndsAreObjects DEF Profiles, RegisteredProfileCreateElementConformsAssocInstance
  <2> QED
    BY <1>1, <2>1, ObjectCases DEF RefsElementConformsToSMIProfile, OK, Only, IsReply
<1>2. CASE e[1] = "CIM_ObjectManager"
  <2>1. managers # <<>> => /\ RegisteredProfileCreateElementConformsAssocInstance("Server") = Conforms("Server")
                           /\ Conforms("Server")[2] \in AllObjects /\ Conforms("Server")[3] \in AllObjects
    BY ConformsOrNull, EndsAreObjects DEF Profiles, RegisteredProfileCreateElementConformsAssocInstance
  <2>2. IsReply(FromObjectManager(e, rc, rr))
    BY <2>1 DEF FromObjectManager, OK, Only, IsReply, Died
  <2> QED
    BY <1>2, <2>2, ObjectCases DEF RefsElementConformsToSMIProfile
<1>3. CASE e[1] = "RegisteredSMIProfile"
  <2> DEFINE made(S) == {RegisteredProfileCreateElementConformsAssocInstance(p) : p \in S}
  <2>1. ASSUME NEW S \in SUBSET Profiles
        PROVE  IsReply(AllOrFailed(made(S)))
    <3>1. CASE NULL \in made(S)
      BY <3>1 DEF AllOrFailed, Failed, IsReply
    <3>2. CASE NULL \notin made(S)
      <4>1. \A i \in made(S) : i[2] \in AllObjects /\ i[3] \in AllObjects
        BY <3>2, ConformsOrNull, EndsAreObjects DEF RegisteredProfileCreateElementConformsAssocInstance
      <4> HIDE DEF made
      <4> QED
        BY <3>2, <4>1 DEF AllOrFailed, OK, IsReply
    <3> QED
      BY <3>1, <3>2
  <2>2. IsReply(FromProfile(e, rc, rr))
    <3> DEFINE om == Alone("CIM_ObjectManager", "Linux_ComputerSystem", rc) /\ Asked(rr, "ManagedElement")
               cs == Alone("Linux_ComputerSystem", "CIM_ObjectManager", rc) /\ Asked(rr, "ManagedElement")
               S == {q \in Profiles : e[2] = q /\ IF q = "Server" THEN om ELSE cs}
    <3>1. FromProfile(e, rc, rr) = AllOrFailed(made(S))
      BY DEF FromProfile
    <3>2. S \in SUBSET Profiles
      OBVIOUS
    <3> HIDE DEF S, made
    <3> QED
      BY <2>1, <3>1, <3>2
  <2>3. RefsElementConformsToSMIProfile(e, rc, rr) = FromProfile(e, rc, rr)
    BY <1>3, ObjectCases DEF RefsElementConformsToSMIProfile
  <2> QED
    BY <2>2, <2>3
<1>4. CASE e # ComputerSystem /\ e[1] # "CIM_ObjectManager" /\ e[1] # "RegisteredSMIProfile"
  BY <1>4 DEF RefsElementConformsToSMIProfile, OK, IsReply
<1> QED
  BY <1>1, <1>2, <1>3, <1>4

LEMMA ReferencesOfRequires ==
    ASSUME TypeOK, NEW e, NEW rc, NEW rr
    PROVE  IsReply(RefsSMISubProfileRequiresProfile(e, rc, rr))
<1>1. \A i \in RefsSMISubProfileRequiresProfile(e, rc, rr).found :
          \E p \in {"VolumeManagement", "Array"}, sub \in SubProfiles : i = Requires(p, sub)
  BY AssociationsAgree DEF RefsSMISubProfileRequiresProfile, OK
<1>2. RefsSMISubProfileRequiresProfile(e, rc, rr).rc = "OK"
  BY DEF RefsSMISubProfileRequiresProfile, OK
<1> QED
  BY <1>1, <1>2, EndsAreObjects DEF IsReply

LEMMA ReferencesOfIdentity ==
    ASSUME TypeOK, NEW e \in AllObjects, NEW rc, NEW rr
    PROVE  IsReply(RefsSMIElementSoftwareIdentity(e, rc, rr))
<1>1. \A s \in Software : \A i \in FromSoftware(s, rc, rr) :
          i[2] \in AllObjects /\ i[3] \in AllObjects
  <2>1. \A s \in Software : {"Server", OwnProfile(s)} \cup SubProfiles \subseteq Profiles \cup SubProfiles
    BY DEF OwnProfile, Profiles
  <2> QED
    BY <2>1, AssociationsAgree, EndsAreObjects DEF FromSoftware, Only
<1>2. \A p \in Profiles \cup SubProfiles : \A i \in ToSoftware(p, rc, rr) :
          i[2] \in AllObjects /\ i[3] \in AllObjects
  BY AssociationsAgree, EndsAreObjects DEF ToSoftware, Only
<1>3. CASE e[1] \in SoftwareClasses
  <2>1. e[2] \in Software
    BY <1>3, ObjectCases, ClassesDiffer
  <2>2. RefsSMIElementSoftwareIdentity(e, rc, rr) = OK(FromSoftware(e[2], rc, rr))
    BY <1>3, ClassesDiffer DEF RefsSMIElementSoftwareIdentity
  <2> QED
    BY <1>1, <2>1, <2>2 DEF OK, IsReply
<1>4. CASE e[1] \in {"RegisteredSMIProfile", "RegisteredSMISubProfile"}
  <2>1. e[2] \in Profiles \cup SubProfiles
    BY <1>4, ObjectCases DEF SoftwareClass
  <2>2. RefsSMIElementSoftwareIdentity(e, rc, rr) = OK(ToSoftware(e[2], rc, rr))
    BY <1>4, ClassesDiffer DEF RefsSMIElementSoftwareIdentity
  <2> QED
    BY <1>2, <2>1, <2>2 DEF OK, IsReply
<1>5. CASE e[1] \notin SoftwareClasses \cup {"RegisteredSMIProfile", "RegisteredSMISubProfile"}
  <2>1. RefsSMIElementSoftwareIdentity(e, rc, rr) = OK({})
    BY <1>5 DEF RefsSMIElementSoftwareIdentity
  <2> QED
    BY <2>1 DEF OK, IsReply
<1> QED
  BY <1>3, <1>4, <1>5
LEMMA EnumeratedAreObjects ==
    ASSUME TypeOK, NEW class \in ObjectClasses \cup AssocClasses
    PROVE  /\ EnumInstanceNames(class) = EnumInstances(class)
           /\ EnumInstances(class).rc \in {"OK", "FAILED"}
           /\ Objects(EnumInstances(class).found) \subseteq AllObjects
<1>1. EnumInstanceNames(class) = EnumInstances(class)
  BY EnumerationsAgree DEF ProfileNamesAreInstances
<1>2. CASE class \in ObjectClasses
  <2>1. /\ {ProfileOf(p) : p \in Profiles} \subseteq AllObjects
        /\ {ProfileOf(p) : p \in SubProfiles} \subseteq AllObjects
        /\ \A s \in Software : {SoftwareOf(s)} \subseteq AllObjects
    BY ObjectCases
  <2> QED
    BY <1>1, <1>2, <2>1, EnumeratedObjects, ClassesDiffer
       DEF OK, Objects, ProfileOf, SoftwareOf, SoftwareClass, Software
<1>3. CASE class = "ElementConformsToSMIProfile"
  BY <1>1, <1>3, EnumeratedConforms, ClassesDiffer DEF OK, Failed, Objects, Conforms, Assoc, AssocClasses
<1>4. CASE class = "SMISubProfileRequiresProfile"
  BY <1>1, <1>4, EnumeratedRequires, ClassesDiffer DEF OK, Objects, Requires, Assoc, AssocClasses
<1>5. CASE class = "SMIElementSoftwareIdentity"
  BY <1>1, <1>5, EnumeratedIdentity, ClassesDiffer DEF OK, Objects, Identity, Assoc, AssocClasses
<1> QED
  BY <1>2, <1>3, <1>4, <1>5 DEF AssocClasses

LEMMA TypeOKInit == Init => TypeOK
<1> SUFFICES ASSUME Init PROVE TypeOK
  OBVIOUS
<1>1. \E some \in SUBSET Managers : managers \in SetToSeqs(some)
  <2>1. CASE managers = <<>>
    <3>1. Cardinality({}) = 0
      BY FS_EmptySet
    <3>2. <<>> \in SetToSeqs({})
      BY <3>1 DEF SetToSeqs
    <3> QED
      BY <2>1, <3>2
  <2>2. ASSUME NEW m \in Managers, managers = <<m>> PROVE managers \in SetToSeqs({m})
    <3>1. Cardinality({m}) = 1
      BY FS_Singleton
    <3> QED
      BY <2>2, <3>1 DEF SetToSeqs
  <2> QED
    BY <2>1, <2>2 DEF Init
<1> QED
  BY <1>1 DEF Init, TypeOK, OK

LEMMA TypeOKNext == TypeOK /\ [Next]_vars => TypeOK'
<1> SUFFICES ASSUME TypeOK, [Next]_vars PROVE TypeOK'
  OBVIOUS
<1>1. CASE CimomChanges
  BY <1>1 DEF CimomChanges, TypeOK
<1>2. CASE Enumerate
  <2>1. PICK class \in ObjectClasses \cup AssocClasses :
            Answered(EnumInstanceNames(class)) \/ Answered(EnumInstances(class))
    BY <1>2 DEF Enumerate
  <2>2. Answered(EnumInstances(class))
    BY <2>1, EnumeratedAreObjects
  <2>3. Objects(answer'.found) \subseteq AllObjects /\ answer'.rc \in {"OK", "FAILED"}
    BY <2>2, EnumeratedAreObjects DEF Answered
  <2> QED
    BY <1>2, <2>2, <2>3 DEF Enumerate, Answered, TypeOK
<1>3. CASE Get
  <2>1. GetInstance(held).rc \in {"OK", "NOT_FOUND"}
    BY DEF GetInstance, OK, NotFound
  <2> QED
    BY <1>3, <2>1 DEF Get, Answered, TypeOK
<1>4. CASE Follow
  <2>1. held \in AllObjects
    BY <1>4 DEF Follow, TypeOK
  <2>2. PICK class \in AssocClasses, rc \in ResultClasses, role \in {1, 2, 3} :
            Answered(doReferences(held, class, rc, (Append(Roles[class], NULL))[role]))
    BY <1>4 DEF Follow
  <2> DEFINE rr == (Append(Roles[class], NULL))[role]
  <2>3. IsReply(doReferences(held, class, rc, rr))
    <3> HIDE DEF rr
    <3> QED
      BY <2>1, ReferencesOfConforms, ReferencesOfRequires, ReferencesOfIdentity DEF AssocClasses, doReferences
  <2> HIDE DEF rr
  <2>4. IsReply(answer')
    BY <2>2, <2>3 DEF Answered, rr
  <2>5. UNION {{i[2], i[3]} : i \in answer'.found} \subseteq AllObjects
    BY <2>4 DEF IsReply
  <2>6. held' \in AllObjects
    BY <1>4, <2>1, <2>5 DEF Follow
  <2> QED
    BY <2>2, <2>4, <2>6 DEF Answered, IsReply, TypeOK
<1>5. CASE UNCHANGED vars
  BY <1>5 DEF vars, TypeOK
<1> QED
  BY <1>1, <1>2, <1>3, <1>4, <1>5 DEF Next

\* Whatever the CIMOM's object managers become, a client only ever holds the
\* name of an object of the profile, of the system or of the CIMOM.
THEOREM ServerProfileTyped == Spec => []TypeOK
BY TypeOKInit, TypeOKNext, PTL DEF Spec

\* The separately written enumerations of every class always agree.
THEOREM NamesAreAlwaysInstances == Spec => []ProfileNamesAreInstances
BY ServerProfileTyped, EnumerationsAgree, PTL
(***************************************************************************)
(* Names and instances                                                     *)
(***************************************************************************)
LEMMA ObjectCanBeGot ==
    /\ \A p \in Profiles \cup SubProfiles : GetInstance(ProfileOf(p)) = OK({ProfileOf(p)})
    /\ \A s \in Software : GetInstance(SoftwareOf(s)) = OK({SoftwareOf(s)})
<1>1. ASSUME NEW p \in Profiles PROVE GetInstance(ProfileOf(p)) = OK({ProfileOf(p)})
  <2>1. {RegisteredProfileCreateInstance(q) : q \in Profiles \cap {p}} = {ProfileOf(p)}
    BY PathsAgree DEF ProfileOf
  <2>2. ProfileOf(p) = <<"RegisteredSMIProfile", p>>
    BY ObjectCases
  <2>3. GetInstance(ProfileOf(p)) = OK({RegisteredProfileCreateInstance(q) : q \in Profiles \cap {p}})
    BY <2>2, ClassesDiffer DEF GetInstance, AssocClasses
  <2> QED
    BY <2>1, <2>3
<1>2. ASSUME NEW p \in SubProfiles PROVE GetInstance(ProfileOf(p)) = OK({ProfileOf(p)})
  <2>1. {RegisteredProfileCreateInstance(q) : q \in SubProfiles \cap {p}} = {ProfileOf(p)}
    BY PathsAgree DEF ProfileOf
  <2>2. ProfileOf(p) = <<"RegisteredSMISubProfile", p>>
    BY ObjectCases
  <2>3. GetInstance(ProfileOf(p)) = OK({RegisteredProfileCreateInstance(q) : q \in SubProfiles \cap {p}})
    BY <2>2, ClassesDiffer DEF GetInstance, AssocClasses
  <2> QED
    BY <2>1, <2>3
<1>3. ASSUME NEW s \in Software PROVE GetInstance(SoftwareOf(s)) = OK({SoftwareOf(s)})
  <2>1. {SoftwareIdentityCreateInstance(t) : t \in {u \in Software \cap {s} : SoftwareClass(u) = SoftwareClass(s)}}
            = {SoftwareOf(s)}
    BY PathsAgree DEF SoftwareOf
  <2>2. SoftwareOf(s) = <<SoftwareClass(s), s>> /\ SoftwareClass(s) \in SoftwareClasses
    BY ObjectCases DEF SoftwareClasses
  <2>3. GetInstance(SoftwareOf(s)) =
            OK({SoftwareIdentityCreateInstance(t) : t \in {u \in Software \cap {s} : SoftwareClass(u) = SoftwareClass(s)}})
    BY <2>2, ClassesDiffer DEF GetInstance, AssocClasses
  <2> QED
    BY <2>1, <2>3
<1> QED
  BY <1>1, <1>2, <1>3

LEMMA NamesLead ==
    ASSUME TypeOK
    PROVE  ProfileNamesCanBeGot
<1> SUFFICES ASSUME NEW class \in ObjectClasses \cup AssocClasses,
                    NEW name \in EnumInstanceNames(class).found
             PROVE  GetInstance(name) = OK({name})
  BY DEF ProfileNamesCanBeGot
<1>1. name \in EnumInstances(class).found
  BY EnumeratedAreObjects
<1>2. CASE class \in ObjectClasses
  <2>1. \/ \E p \in Profiles \cup SubProfiles : name = ProfileOf(p)
        \/ \E s \in Software : name = SoftwareOf(s)
    BY <1>1, <1>2, EnumeratedObjects, ClassesDiffer DEF OK, ProfileOf, SoftwareOf, SoftwareClass, Software
  <2> QED
    BY <2>1, ObjectCanBeGot
<1>3. CASE class \in AssocClasses
  <2>1. name[1] \in AssocClasses
    <3>1. CASE class = "ElementConformsToSMIProfile"
      BY <1>1, <3>1, EnumeratedConforms DEF OK, Failed, Conforms, Assoc, AssocClasses
    <3>2. CASE class = "SMISubProfileRequiresProfile"
      BY <1>1, <3>2, EnumeratedRequires DEF OK, Requires, Assoc, AssocClasses
    <3>3. CASE class = "SMIElementSoftwareIdentity"
      BY <1>1, <3>3, EnumeratedIdentity DEF OK, Identity, Assoc, AssocClasses
    <3> QED
      BY <1>3, <3>1, <3>2, <3>3 DEF AssocClasses
  <2> QED
    BY <2>1, ClassesDiffer DEF GetInstance
<1> QED
  BY <1>2, <1>3

\* Every name the provider hands out leads to the instance shown under it.
THEOREM NamesCanAlwaysBeGot == Spec => []ProfileNamesCanBeGot
BY ServerProfileTyped, NamesLead, PTL

(***************************************************************************)
(* Following an association: what doReferences finds of each, in the role  *)
(* asked for, when no class is asked for and there is an object manager.   *)
(***************************************************************************)
LEMMA AnyClass ==
    /\ \A class : Derived(class, NULL)
    /\ \A class, other : Alone(class, other, NULL)
    /\ \A role : Asked(NULL, role)
BY DEF Derived, Alone, Asked

LEMMA RolesDiffer ==
    /\ Roles["ElementConformsToSMIProfile"] = <<"ManagedElement", "ConformantStandard">>
    /\ Roles["SMISubProfileRequiresProfile"] = <<"Dependent", "Antecedent">>
    /\ Roles["SMIElementSoftwareIdentity"] = <<"Antecedent", "Dependent">>
    /\ \A role, other \in RoleNames : Asked(role, other) <=> role = other
BY NullAssumption DEF Roles, AssocClasses, RoleNames, Asked

LEMMA FoundConforms ==
    ASSUME TypeOK, managers # <<>>, NEW e \in AllObjects, NEW rr
    PROVE  RefsElementConformsToSMIProfile(e, NULL, rr) =
               OK({Conforms(p) : p \in {q \in Profiles : \/ e = Element(q) /\ Asked(rr, "ConformantStandard")
                                                         \/ e = ProfileOf(q) /\ Asked(rr, "ManagedElement")}})
<1>1. \A p \in Profiles : /\ ElementConforms(p) = Conforms(p) /\ Conforms(p) # NULL
                          /\ RegisteredProfileCreateElementConformsAssocInstance(p) = Conforms(p)
  BY ConformsOrNull DEF RegisteredProfileCreateElementConformsAssocInstance
<1>2. /\ \A q \in Profiles : e = ComputerSystem => (e = Element(q) <=> q # "Server") /\ e # ProfileOf(q)
      /\ \A q \in Profiles : e[1] = "CIM_ObjectManager" =>
            (e = Element(q) <=> q = "Server" /\ e[2] = managers[1]) /\ e # ProfileOf(q)
      /\ \A q \in Profiles : e[1] = "RegisteredSMIProfile" => e # Element(q) /\ (e = ProfileOf(q) <=> e[2] = q)
      /\ \A q \in Profiles : e[1] \notin {"Linux_ComputerSystem", "CIM_ObjectManager", "RegisteredSMIProfile"} =>
            e # Element(q) /\ e # ProfileOf(q)
  BY FirstManager, ObjectCases DEF Element
<1> DEFINE Found == {q \in Profiles : \/ e = Element(q) /\ Asked(rr, "ConformantStandard")
                                      \/ e = ProfileOf(q) /\ Asked(rr, "ManagedElement")}
<1>3. CASE e = ComputerSystem
  <2>1. Found = IF Asked(rr, "ConformantStandard") THEN {"VolumeManagement", "Array"} ELSE {}
    BY <1>2, <1>3 DEF Profiles
  <2>2. {RegisteredProfileCreateElementConformsAssocInstance(p) : p \in {"VolumeManagement", "Array"}}
            = {Conforms(p) : p \in {"VolumeManagement", "Array"}}
    BY <1>1 DEF Profiles
  <2>3. e[1] = "Linux_ComputerSystem"
    BY <1>3, ObjectCases
  <2> DEFINE made == {RegisteredProfileCreateElementConformsAssocInstance(p) : p \in {"VolumeManagement", "Array"}}
             wanted == Derived("RegisteredSMIProfile", NULL) /\ Asked(rr, "ConformantStandard")
  <2>4. RefsElementConformsToSMIProfile(e, NULL, rr) = OK(Only(wanted, made))
    BY <1>3, <2>3 DEF RefsElementConformsToSMIProfile
  <2>5. Only(wanted, made) = {Conforms(p) : p \in Found}
    <3>1. wanted <=> Asked(rr, "ConformantStandard")
      BY AnyClass
    <3> HIDE DEF Found, wanted, made
    <3>2. CASE wanted
      BY <2>1, <2>2, <3>1, <3>2 DEF Only, made
    <3>3. CASE ~wanted
      BY <2>1, <3>1, <3>3 DEF Only
    <3> QED
      BY <3>2, <3>3
  <2> QED
    BY <2>4, <2>5
<1>4. CASE e[1] = "CIM_ObjectManager"
  <2>1. Found = IF Asked(rr, "ConformantStandard") /\ e[2] = managers[1] THEN {"Server"} ELSE {}
    BY <1>2, <1>4 DEF Profiles
  <2>2. RefsElementConformsToSMIProfile(e, NULL, rr) = FromObjectManager(e, NULL, rr)
    BY <1>4, ObjectCases DEF RefsElementConformsToSMIProfile
  <2>3. FromObjectManager(e, NULL, rr) =
            OK(IF Asked(rr, "ConformantStandard") /\ e[2] = managers[1] THEN {Conforms("Server")} ELSE {})
    BY <1>1, AnyClass DEF FromObjectManager, Only, Profiles
  <2> QED
    BY <2>1, <2>2, <2>3
<1>5. CASE e[1] = "RegisteredSMIProfile"
  <2>1. Found = {q \in Profiles : e[2] = q /\ Asked(rr, "ManagedElement")}
    BY <1>2, <1>5
  <2>2. RefsElementConformsToSMIProfile(e, NULL, rr) = FromProfile(e, NULL, rr)
    BY <1>5, ObjectCases DEF RefsElementConformsToSMIProfile
  <2>3. FromProfile(e, NULL, rr) =
            AllOrFailed({RegisteredProfileCreateElementConformsAssocInstance(p) :
                            p \in {q \in Profiles : e[2] = q /\ Asked(rr, "ManagedElement")}})
    BY AnyClass DEF FromProfile
  <2>4. {RegisteredProfileCreateElementConformsAssocInstance(p) : p \in Found} = {Conforms(p) : p \in Found}
    BY <1>1
  <2>5. NULL \notin {Conforms(p) : p \in Found}
    BY <1>1
  <2> HIDE DEF Found
  <2> QED
    BY <2>1, <2>2, <2>3, <2>4, <2>5 DEF AllOrFailed, Found
<1>6. CASE e[1] \notin {"Linux_ComputerSystem", "CIM_ObjectManager", "RegisteredSMIProfile"}
  <2>1. Found = {}
    BY <1>2, <1>6
  <2>2. RefsElementConformsToSMIProfile(e, NULL, rr) = OK({})
    BY <1>6, ObjectCases DEF RefsElementConformsToSMIProfile
  <2> QED
    BY <2>1, <2>2
<1> QED
  BY <1>3, <1>4, <1>5, <1>6, ObjectCases DEF SoftwareClass
LEMMA FoundRequires ==
    ASSUME NEW e, NEW rr
    PROVE  RefsSMISubProfileRequiresProfile(e, NULL, rr) =
               OK({i \in EnumInstances("SMISubProfileRequiresProfile").found :
                     \/ e = i[3] /\ Asked(rr, "Dependent")
                     \/ e = i[2] /\ Asked(rr, "Antecedent")})
<1> DEFINE some == RefsSMISubProfileRequiresProfile(e, NULL, rr).found
           every == EnumInstances("SMISubProfileRequiresProfile").found
<1>1. RefsSMISubProfileRequiresProfile(e, NULL, rr) = OK(some)
  BY DEF RefsSMISubProfileRequiresProfile, OK
<1>2. \A p, sub : Requires(p, sub)[2] = ProfileOf(sub) /\ Requires(p, sub)[3] = ProfileOf(p)
  BY DEF Requires, Assoc, ProfileOf
<1>3. \A i : i \in some <=> \E p \in {"VolumeManagement", "Array"}, sub \in SubProfiles :
                                /\ i = Requires(p, sub)
                                /\ \/ e = ProfileOf(p) /\ Asked(rr, "Dependent")
                                   \/ e = ProfileOf(sub) /\ Asked(rr, "Antecedent")
  <2> DEFINE holds(p, sub) == \/ e = ProfileOf(p) /\ Asked(rr, "Dependent")
                              \/ e = ProfileOf(sub) /\ Asked(rr, "Antecedent")
             pairs == {q \in {"VolumeManagement", "Array"} \X SubProfiles : holds(q[1], q[2])}
  <2>1. some = {Requires(q[1], q[2]) : q \in pairs}
    BY AnyClass, AssociationsAgree DEF RefsSMISubProfileRequiresProfile, OK, ProfileOf
  <2>2. \A p \in {"VolumeManagement", "Array"}, sub \in SubProfiles : holds(p, sub) =>
            <<p, sub>> \in pairs /\ <<p, sub>>[1] = p /\ <<p, sub>>[2] = sub
    OBVIOUS
  <2>3. \A q \in pairs : q[1] \in {"VolumeManagement", "Array"} /\ q[2] \in SubProfiles /\ holds(q[1], q[2])
    OBVIOUS
  <2>4. \A i : i \in some <=> \E p \in {"VolumeManagement", "Array"}, sub \in SubProfiles :
                                i = Requires(p, sub) /\ holds(p, sub)
    <3> HIDE DEF pairs, holds, some
    <3>1. ASSUME NEW i \in some
          PROVE  \E p \in {"VolumeManagement", "Array"}, sub \in SubProfiles : i = Requires(p, sub) /\ holds(p, sub)
      <4>1. PICK q \in pairs : i = Requires(q[1], q[2])
        BY <2>1
      <4> QED
        BY <2>3, <4>1
    <3>2. ASSUME NEW p \in {"VolumeManagement", "Array"}, NEW sub \in SubProfiles, holds(p, sub)
          PROVE  Requires(p, sub) \in some
      <4> DEFINE q == <<p, sub>>
      <4>1. q \in pairs /\ q[1] = p /\ q[2] = sub
        BY <2>2, <3>2
      <4> HIDE DEF q
      <4>2. Requires(q[1], q[2]) \in some
        BY <2>1, <4>1
      <4> QED
        BY <4>1, <4>2
    <3> QED
      BY <3>1, <3>2
  <2> QED
    BY <2>4
<1>4. \A i : i \in every <=> \E p \in {"VolumeManagement", "Array"}, sub \in SubProfiles : i = Requires(p, sub)
  BY EnumeratedRequires DEF OK
<1> HIDE DEF some, every
<1>5. some = {i \in every : (e = i[3] /\ Asked(rr, "Dependent")) \/ (e = i[2] /\ Asked(rr, "Antecedent"))}
  BY <1>2, <1>3, <1>4
<1> QED
  BY <1>1, <1>5 DEF every

LEMMA FoundIdentity ==
    ASSUME NEW e \in AllObjects, NEW rr
    PROVE  RefsSMIElementSoftwareIdentity(e, NULL, rr) =
               OK({i \in EnumInstances("SMIElementSoftwareIdentity").found :
                     \/ e = i[3] /\ Asked(rr, "Antecedent")
                     \/ e = i[2] /\ Asked(rr, "Dependent")})
<1> DEFINE some == RefsSMIElementSoftwareIdentity(e, NULL, rr).found
           every == EnumInstances("SMIElementSoftwareIdentity").found
           chosen == {i \in every : (e = i[3] /\ Asked(rr, "Antecedent")) \/ (e = i[2] /\ Asked(rr, "Dependent"))}
<1>1. RefsSMIElementSoftwareIdentity(e, NULL, rr) = OK(some)
  BY DEF RefsSMIElementSoftwareIdentity, OK
<1>2. \A s, p : Identity(s, p)[2] = SoftwareOf(s) /\ Identity(s, p)[3] = ProfileOf(p)
  BY DEF Identity, Assoc, ProfileOf, SoftwareOf
<1>3. \A i : i \in every <=> \E s \in Software : \E p \in ProfilesOf(s) : i = Identity(s, p)
  BY EnumeratedIdentity DEF OK
<1>4. \A s \in Software : ProfilesOf(s) \subseteq Profiles \cup SubProfiles
  BY DEF ProfilesOf, OwnProfile, Profiles
<1>5. CASE e[1] \in SoftwareClasses
  <2>1. PICK s \in Software : e = SoftwareOf(s)
    BY <1>5, ObjectCases, ClassesDiffer
  <2>2. e[2] = s
    BY <2>1, ObjectCases
  <2>3. some = FromSoftware(s, NULL, rr)
    BY <1>5, <2>2, ClassesDiffer DEF RefsSMIElementSoftwareIdentity, OK
  <2>4. \A i : i \in some <=> \E p \in ProfilesOf(s) : i = Identity(s, p) /\ Asked(rr, "Dependent")
    BY <2>3, AnyClass, AssociationsAgree DEF FromSoftware, Only, ProfilesOf
  <2>5. /\ \A t \in Software : e = SoftwareOf(t) <=> t = s
        /\ \A p \in Profiles \cup SubProfiles : e # ProfileOf(p)
    BY <2>2, <1>5, ObjectCases, ClassesDiffer
  <2> HIDE DEF some, every
  <2>6. some = chosen
    BY <1>2, <1>3, <1>4, <2>4, <2>5
  <2> QED
    BY <1>1, <2>6 DEF every
<1>6. CASE e[1] \in {"RegisteredSMIProfile", "RegisteredSMISubProfile"}
  <2>1. PICK p \in Profiles \cup SubProfiles : e = ProfileOf(p)
    BY <1>6, ObjectCases DEF SoftwareClass
  <2>2. e[2] = p
    BY <2>1, ObjectCases
  <2>3. some = ToSoftware(p, NULL, rr)
    BY <1>6, <2>2, ClassesDiffer DEF RefsSMIElementSoftwareIdentity, OK
  <2>4. \A i : i \in some <=> \E s \in Software : p \in ProfilesOf(s) /\ i = Identity(s, p) /\ Asked(rr, "Antecedent")
    BY <2>3, AnyClass, AssociationsAgree DEF ToSoftware, Only, ProfilesOf
  <2>5. /\ \A q \in Profiles \cup SubProfiles : e = ProfileOf(q) <=> q = p
        /\ \A s \in Software : e # SoftwareOf(s)
    BY <2>2, <1>6, ObjectCases DEF SoftwareClass
  <2> HIDE DEF some, every
  <2>6. some = chosen
    BY <1>2, <1>3, <1>4, <2>1, <2>4, <2>5
  <2> QED
    BY <1>1, <2>6 DEF every
<1>7. CASE e[1] \notin SoftwareClasses \cup {"RegisteredSMIProfile", "RegisteredSMISubProfile"}
  <2>1. some = {}
    BY <1>7 DEF RefsSMIElementSoftwareIdentity, OK
  <2>2. /\ \A q \in Profiles \cup SubProfiles : e # ProfileOf(q)
        /\ \A s \in Software : e # SoftwareOf(s)
    BY <1>7, ObjectCases DEF SoftwareClasses
  <2> HIDE DEF some, every
  <2>3. some = chosen
    BY <1>2, <1>3, <1>4, <2>1, <2>2
  <2> QED
    BY <1>1, <2>3 DEF every
<1> QED
  BY <1>5, <1>6, <1>7

\* From an object one finds the associations that have it at an end, and the
\* role is that of the other end.
LEMMA FoundFromEnds ==
    ASSUME TypeOK, managers # <<>>, NEW class \in AssocClasses, NEW e \in AllObjects, NEW rr
    PROVE  doReferences(e, class, NULL, rr) =
               OK({i \in EnumInstances(class).found : \/ e = i[3] /\ Asked(rr, Roles[class][1])
                                                      \/ e = i[2] /\ Asked(rr, Roles[class][2])})
<1>1. CASE class = "ElementConformsToSMIProfile"
  <2> DEFINE some == {Conforms(p) : p \in {q \in Profiles : \/ e = Element(q) /\ Asked(rr, "ConformantStandard")
                                                            \/ e = ProfileOf(q) /\ Asked(rr, "ManagedElement")}}
             every == EnumInstances("ElementConformsToSMIProfile").found
  <2>1. \A p : Conforms(p)[2] = Element(p) /\ Conforms(p)[3] = ProfileOf(p)
    BY DEF Conforms, Assoc, ProfileOf
  <2>2. \A i : i \in every <=> \E p \in Profiles : i = Conforms(p)
    BY EnumeratedConforms DEF OK
  <2>3. doReferences(e, class, NULL, rr) = OK(some)
    BY <1>1, FoundConforms DEF doReferences
  <2>4. \A i : i \in some <=> \E p \in Profiles : /\ i = Conforms(p)
                                                  /\ \/ e = Element(p) /\ Asked(rr, "ConformantStandard")
                                                     \/ e = ProfileOf(p) /\ Asked(rr, "ManagedElement")
    OBVIOUS
  <2> HIDE DEF some, every
  <2>5. some = {i \in every : (e = i[3] /\ Asked(rr, "ManagedElement")) \/ (e = i[2] /\ Asked(rr, "ConformantStandard"))}
    BY <2>1, <2>2, <2>4
  <2> QED
    BY <1>1, <2>3, <2>5, RolesDiffer DEF every
<1>2. CASE class = "SMISubProfileRequiresProfile"
  BY <1>2, FoundRequires, RolesDiffer DEF doReferences
<1>3. CASE class = "SMIElementSoftwareIdentity"
  BY <1>3, FoundIdentity, RolesDiffer DEF doReferences
<1> QED
  BY <1>1, <1>2, <1>3 DEF AssocClasses
LEMMA EndsFound ==
    ASSUME TypeOK
    PROVE  ProfileEndsAgree
<1> SUFFICES ASSUME managers # <<>>, NEW class \in AssocClasses, NEW e \in AllObjects
             PROVE  doReferences(e, class, NULL, NULL) = OK({i \in EnumInstances(class).found : e \in {i[2], i[3]}})
  BY DEF ProfileEndsAgree
<1> DEFINE every == EnumInstances(class).found
<1>1. doReferences(e, class, NULL, NULL) =
          OK({i \in every : \/ e = i[3] /\ Asked(NULL, Roles[class][1])
                            \/ e = i[2] /\ Asked(NULL, Roles[class][2])})
  BY FoundFromEnds
<1> HIDE DEF every
<1>2. {i \in every : \/ e = i[3] /\ Asked(NULL, Roles[class][1])
                     \/ e = i[2] /\ Asked(NULL, Roles[class][2])} = {i \in every : e \in {i[2], i[3]}}
  BY AnyClass
<1> QED
  BY <1>1, <1>2 DEF every

\* With an object manager, an association is found from both of its ends and
\* from no other object.
THEOREM EndsAlwaysAgree == Spec => []ProfileEndsAgree
BY ServerProfileTyped, EndsFound, PTL

\* No association of the profile has the same object at both ends.
LEMMA EndsDiffer ==
    ASSUME TypeOK, NEW class \in AssocClasses, NEW i \in EnumInstances(class).found
    PROVE  i[2] # i[3]
<1>1. CASE class = "ElementConformsToSMIProfile"
  <2>1. PICK p \in Profiles : i = Conforms(p) /\ managers # <<>>
    BY <1>1, EnumeratedConforms DEF OK, Failed
  <2>2. i[2] = Element(p) /\ i[3] = ProfileOf(p)
    BY <2>1 DEF Conforms, Assoc, ProfileOf
  <2>3. Element(p)[1] \in {"Linux_ComputerSystem", "CIM_ObjectManager"}
    BY <2>1, FirstManager, ObjectCases DEF Element
  <2> QED
    BY <2>2, <2>3, ObjectCases
<1>2. CASE class = "SMISubProfileRequiresProfile"
  <2>1. PICK p \in Profiles, sub \in SubProfiles : i = Requires(p, sub)
    BY <1>2, EnumeratedRequires DEF OK, Profiles
  <2>2. i[2] = ProfileOf(sub) /\ i[3] = ProfileOf(p)
    BY <2>1 DEF Requires, Assoc, ProfileOf
  <2> QED
    BY <2>2, ObjectCases
<1>3. CASE class = "SMIElementSoftwareIdentity"
  <2>1. PICK s \in Software, p \in Profiles \cup SubProfiles : i = Identity(s, p)
    BY <1>3, EnumeratedIdentity DEF OK, ProfilesOf, OwnProfile, Profiles
  <2>2. i[2] = SoftwareOf(s) /\ i[3] = ProfileOf(p)
    BY <2>1 DEF Identity, Assoc, ProfileOf, SoftwareOf
  <2> QED
    BY <2>2, ObjectCases DEF SoftwareClass
<1> QED
  BY <1>1, <1>2, <1>3 DEF AssocClasses

LEMMA RolesSelect ==
    ASSUME TypeOK
    PROVE  ProfileRolesSelectEnds
<1> SUFFICES ASSUME managers # <<>>, NEW class \in AssocClasses, NEW e \in AllObjects, NEW end \in {1, 2}
             PROVE  doReferences(e, class, NULL, Roles[class][end]).found =
                        {i \in doReferences(e, class, NULL, NULL).found : i[end + 1] # e}
  BY DEF ProfileRolesSelectEnds
<1> DEFINE every == EnumInstances(class).found
           found(rr) == {i \in every : \/ e = i[3] /\ Asked(rr, Roles[class][1])
                                       \/ e = i[2] /\ Asked(rr, Roles[class][2])}
<1>1. \A rr : doReferences(e, class, NULL, rr).found = found(rr)
  BY FoundFromEnds DEF OK
<1>2. /\ Roles[class][1] \in RoleNames /\ Roles[class][2] \in RoleNames
      /\ Roles[class][1] # Roles[class][2]
  BY RolesDiffer DEF AssocClasses, RoleNames
<1>3. \A i \in every : i[2] # i[3]
  BY EndsDiffer
<1> HIDE DEF every
<1>4. \A i : i \in found(NULL) <=> i \in every /\ e \in {i[2], i[3]}
  BY AnyClass
<1>5. \A i : /\ i \in found(Roles[class][1]) <=> i \in every /\ e = i[3]
             /\ i \in found(Roles[class][2]) <=> i \in every /\ e = i[2]
  BY <1>2, RolesDiffer
<1> HIDE DEF found
<1>6. found(Roles[class][end]) = {i \in found(NULL) : i[end + 1] # e}
  <2>1. CASE end = 1
    <3>1. end + 1 = 2
      BY <2>1
    <3> QED
      BY <1>3, <1>4, <1>5, <2>1, <3>1
  <2>2. CASE end = 2
    <3>1. end + 1 = 3
      BY <2>2
    <3> QED
      BY <1>3, <1>4, <1>5, <2>2, <3>1
  <2> QED
    BY <2>1, <2>2
<1> QED
  BY <1>1, <1>6

\* With an object manager, the role of the other end selects that end.
THEOREM RolesAlwaysSelectEnds == Spec => []ProfileRolesSelectEnds
BY ServerProfileTyped, RolesSelect, PTL

(***************************************************************************)
(* Discovery goes by the software identities, which do not depend on the   *)
(* object managers: from the server profile to both, and from these to     *)
(* every profile and subprofile.                                           *)
(***************************************************************************)
LEMMA SoftwareIsNear ==
    ASSUME NEW s \in Software, NEW p \in ProfilesOf(s)
    PROVE  SoftwareOf(s) \in Neighbours(ProfileOf(p)) /\ ProfileOf(p) \in Neighbours(SoftwareOf(s))
<1> DEFINE i == Identity(s, p)
           A == "SMIElementSoftwareIdentity"
<1>1. i[2] = SoftwareOf(s) /\ i[3] = ProfileOf(p)
  BY DEF Identity, Assoc, ProfileOf, SoftwareOf
<1>2. i \in EnumInstances(A).found
  BY EnumeratedIdentity DEF OK
<1>3. SoftwareOf(s) \in AllObjects /\ ProfileOf(p) \in AllObjects
  BY ObjectCases DEF ProfilesOf, OwnProfile, Profiles
<1> HIDE DEF i
<1>4. i \in doReferences(SoftwareOf(s), A, NULL, NULL).found
  BY <1>1, <1>2, <1>3, FoundIdentity, AnyClass DEF doReferences, OK
<1>5. i \in doReferences(ProfileOf(p), A, NULL, NULL).found
  BY <1>1, <1>2, <1>3, FoundIdentity, AnyClass DEF doReferences, OK
<1>6. A \in AssocClasses
  BY DEF AssocClasses
<1> HIDE DEF A
<1> QED
  BY <1>1, <1>4, <1>5, <1>6 DEF Neighbours

LEMMA EverythingIsNear == EverythingIsDiscovered
<1> DEFINE start == {RegisteredProfileCreateObjectPath("Server")}
           two == Further(Further(start))
<1>1. \A some : some \subseteq Further(some)
  BY DEF Further
<1>2. \A s \in Software : SoftwareOf(s) \in Further(start)
  <2>1. \A s \in Software : SoftwareOf(s) \in Neighbours(ProfileOf("Server"))
    BY SoftwareIsNear DEF ProfilesOf
  <2> QED
    BY <2>1 DEF Further, ProfileOf
<1>3. \A s \in Software : SoftwareOf(s) \in two
  BY <1>1, <1>2
<1>4. \A s \in Software : \A e : e \in Neighbours(SoftwareOf(s)) => e \in two
  BY <1>2 DEF Further
<1>5. \A p \in Profiles \cup SubProfiles : \E s \in Software : p \in ProfilesOf(s)
  BY DEF Profiles, Software, ProfilesOf, OwnProfile
<1> HIDE DEF two
<1>6. \A p \in Profiles \cup SubProfiles : ProfileOf(p) \in two
  BY <1>4, <1>5, SoftwareIsNear
<1>7. two \subseteq Further(Further(two))
  BY <1>1
<1>8. \A class \in ObjectClasses : EnumInstanceNames(class).found \subseteq two
  BY <1>3, <1>6, EnumeratedObjects, ClassesDiffer DEF OK, ProfileOf, SoftwareOf, SoftwareClass, Software
<1> QED
  BY <1>7, <1>8 DEF EverythingIsDiscovered, two

\* Whether or not the CIMOM has an object manager, a client that starts from
\* the server profile gets to everything by following associations.
THEOREM EverythingIsAlwaysDiscovered == Spec => []EverythingIsDiscovered
BY EverythingIsNear, PTL

=============================================================================
