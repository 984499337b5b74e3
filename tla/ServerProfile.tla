---------------------------- MODULE ServerProfile ----------------------------
(***************************************************************************)
(* The server profile: what the provider is registered to manage.  It has  *)
(* three profiles, three subprofiles and two software identities, all      *)
(* fixed; only the object manager of the server profile is looked up in    *)
(* the CIMOM, anew for each answer.  A client enumerates, asks for an      *)
(* instance, or follows an association from an object it holds, whose name *)
(* may be out of date.                                                     *)
(*                                                                         *)
(* The name of an object is <<class, name>>, that of an association        *)
(* <<class, left, right>>.  Classes are without OMC_ (CIM_ is kept).       *)
(***************************************************************************)
EXTENDS Naturals, Sequences, FiniteSets, SequencesExt

CONSTANTS
    Managers,   \* names of object managers the CIMOM may have
    NULL

ASSUME ManagerAssumption == IsFiniteSet(Managers)

VARIABLES
    managers,   \* the CIM_ObjectManager instances of the CIMOM, in its order
    held,       \* the name the client holds
    answer,     \* the last answer: [rc, found]
    alive       \* FALSE once the provider has read through a NULL pointer

vars == <<managers, held, answer, alive>>

Profiles == {"Server", "VolumeManagement", "Array"}
SubProfiles == {"BlockServices", "CopyServices", "ExtentComposition"}
Software == {"SMIVolumeManagement", "SMIArray"}
SoftwareClass(s) == IF s = "SMIArray" THEN "SMIArraySoftware" ELSE "SMIVolumeManagementSoftware"
SoftwareClasses == {SoftwareClass(s) : s \in Software}

Path(class, name) == <<class, name>>
Assoc(class, left, right) == <<class, left, right>>

-----------------------------------------------------------------------------
(***************************************************************************)
(* Objects and associations.  An instance shows what its name says, and is *)
(* written as its name.                                                    *)
(***************************************************************************)
ComputerSystem == Path("Linux_ComputerSystem", "host")
ManagerPath(m) == Path("CIM_ObjectManager", m)

\* GetObjectManagerObjectPath: the first the CIMOM gives, or NULL.
GetObjectManagerObjectPath == IF managers = <<>> THEN NULL ELSE ManagerPath(managers[1])

RegisteredProfileCreateObjectPath(p) ==
    Path(IF p \in Profiles THEN "RegisteredSMIProfile" ELSE "RegisteredSMISubProfile", p)
RegisteredProfileCreateInstance(p) ==
    Path(IF p \in Profiles THEN "RegisteredSMIProfile" ELSE "RegisteredSMISubProfile", p)
SoftwareIdentityCreateObjectPath(s) ==
    Path(IF s = "SMIArray" THEN "SMIArraySoftware" ELSE "SMIVolumeManagementSoftware", s)
SoftwareIdentityCreateInstance(s) ==
    Path(IF s = "SMIVolumeManagement" THEN "SMIVolumeManagementSoftware" ELSE "SMIArraySoftware", s)

\* Everything a client can hold the name of.
AllObjects == {RegisteredProfileCreateObjectPath(p) : p \in Profiles \cup SubProfiles}
              \cup {SoftwareIdentityCreateObjectPath(s) : s \in Software}
              \cup {ComputerSystem} \cup {ManagerPath(m) : m \in Managers}

\* NULL is none of the names and roles it is compared with.
RoleNames == {"ManagedElement", "ConformantStandard", "Dependent", "Antecedent"}
ASSUME NullAssumption ==
    /\ NULL \notin RoleNames \cup AllObjects
    /\ \A e \in AllObjects, p \in Profiles :
          NULL # Assoc("ElementConformsToSMIProfile", e, RegisteredProfileCreateObjectPath(p))

\* The server profile is that of the object manager, the others are the
\* computer system's.  NULL: it cannot be made.
ElementConforms(p) ==
    LET element == IF p = "Server" THEN GetObjectManagerObjectPath ELSE ComputerSystem
    IN  IF element = NULL THEN NULL
        ELSE Assoc("ElementConformsToSMIProfile", element, RegisteredProfileCreateObjectPath(p))
RegisteredProfileCreateElementConformsAssocObjectPath(p) == ElementConforms(p)
RegisteredProfileCreateElementConformsAssocInstance(p) == ElementConforms(p)

RegisteredProfileCreateSubProfileRequiresAssocObjectPath(p, sub) ==
    Assoc("SMISubProfileRequiresProfile", RegisteredProfileCreateObjectPath(sub), RegisteredProfileCreateObjectPath(p))
RegisteredProfileCreateSubProfileRequiresAssocInstance(p, sub) ==
    Assoc("SMISubProfileRequiresProfile", RegisteredProfileCreateObjectPath(sub), RegisteredProfileCreateObjectPath(p))

SoftwareIdentityCreateElementAssocObjectPath(s, p) ==
    Assoc("SMIElementSoftwareIdentity", SoftwareIdentityCreateObjectPath(s), RegisteredProfileCreateObjectPath(p))
\* The mutant takes every profile for one of the main ones.
MutantSoftwareIdentityCreateElementAssocInstance(s, p) ==
    Assoc("SMIElementSoftwareIdentity", SoftwareIdentityCreateObjectPath(s), Path("RegisteredSMIProfile", p))
SoftwareIdentityCreateElementAssocInstance(s, p) ==
    Assoc("SMIElementSoftwareIdentity", SoftwareIdentityCreateObjectPath(s), RegisteredProfileCreateObjectPath(p))

\* The profile a software identity is of, beside that of the server.
OwnProfile(s) == IF s = "SMIArray" THEN "Array" ELSE "VolumeManagement"

-----------------------------------------------------------------------------
(***************************************************************************)
(* Answers                                                                 *)
(***************************************************************************)
OK(set) == [rc |-> "OK", found |-> set]
Failed == [rc |-> "FAILED", found |-> {}]
NotFound == [rc |-> "NOT_FOUND", found |-> {}]
Died == [rc |-> "died", found |-> {}]

\* An enumeration of what a list of objects makes fails as a whole, with the
\* first that cannot be made.
AllOrFailed(set) == IF NULL \in set THEN Failed ELSE OK(set)

NamesOf(class) ==
    CASE class = "RegisteredSMIProfile" -> OK({RegisteredProfileCreateObjectPath(p) : p \in Profiles})
      [] class = "RegisteredSMISubProfile" -> OK({RegisteredProfileCreateObjectPath(p) : p \in SubProfiles})
      [] class = "SMIVolumeManagementSoftware" -> OK({SoftwareIdentityCreateObjectPath("SMIVolumeManagement")})
      [] class = "SMIArraySoftware" -> OK({SoftwareIdentityCreateObjectPath("SMIArray")})
      [] OTHER -> OK({})

NamesOfAssociations(class) ==
    CASE class = "ElementConformsToSMIProfile" ->
            AllOrFailed({RegisteredProfileCreateElementConformsAssocObjectPath(p) : p \in Profiles})
      [] class = "SMISubProfileRequiresProfile" ->
            OK({RegisteredProfileCreateSubProfileRequiresAssocObjectPath(p, sub) :
                    p \in {"VolumeManagement", "Array"}, sub \in SubProfiles})
      [] class = "SMIElementSoftwareIdentity" ->
            OK(UNION {{SoftwareIdentityCreateElementAssocObjectPath(s, p) :
                    p \in {"Server", OwnProfile(s)} \cup SubProfiles} : s \in Software})

InstancesOf(class) ==
    CASE class = "RegisteredSMIProfile" -> OK({RegisteredProfileCreateInstance(p) : p \in Profiles})
      [] class = "RegisteredSMISubProfile" -> OK({RegisteredProfileCreateInstance(p) : p \in SubProfiles})
      [] class = "SMIVolumeManagementSoftware" -> OK({SoftwareIdentityCreateInstance("SMIVolumeManagement")})
      [] class = "SMIArraySoftware" -> OK({SoftwareIdentityCreateInstance("SMIArray")})
      [] OTHER -> OK({})

\* The mutant forgets that a software identity has the server profile.
MutantInstancesOfAssociations(class) ==
    CASE class = "ElementConformsToSMIProfile" ->
            AllOrFailed({RegisteredProfileCreateElementConformsAssocInstance(p) : p \in Profiles})
      [] class = "SMISubProfileRequiresProfile" ->
            OK({RegisteredProfileCreateSubProfileRequiresAssocInstance(p, sub) :
                    p \in {"VolumeManagement", "Array"}, sub \in SubProfiles})
      [] class = "SMIElementSoftwareIdentity" ->
            OK(UNION {{SoftwareIdentityCreateElementAssocInstance(s, p) :
                    p \in {OwnProfile(s)} \cup SubProfiles} : s \in Software})

InstancesOfAssociations(class) ==
    CASE class = "ElementConformsToSMIProfile" ->
            AllOrFailed({RegisteredProfileCreateElementConformsAssocInstance(p) : p \in Profiles})
      [] class = "SMISubProfileRequiresProfile" ->
            OK({RegisteredProfileCreateSubProfileRequiresAssocInstance(p, sub) :
                    p \in {"VolumeManagement", "Array"}, sub \in SubProfiles})
      [] class = "SMIElementSoftwareIdentity" ->
            OK(UNION {{SoftwareIdentityCreateElementAssocInstance(s, p) :
                    p \in {"Server", OwnProfile(s)} \cup SubProfiles} : s \in Software})

ObjectClasses == {"RegisteredSMIProfile", "RegisteredSMISubProfile"} \cup SoftwareClasses
AssocClasses == {"ElementConformsToSMIProfile", "SMISubProfileRequiresProfile", "SMIElementSoftwareIdentity"}

EnumInstanceNames(class) == IF class \in AssocClasses THEN NamesOfAssociations(class) ELSE NamesOf(class)
EnumInstances(class) == IF class \in AssocClasses THEN InstancesOfAssociations(class) ELSE InstancesOf(class)

\* An object by its name, an association as it was asked for.
MutantGetInstance(name) ==
    LET class == name[1]
    IN  CASE class \in AssocClasses -> OK({name})
          [] class = "RegisteredSMIProfile" ->
                OK({RegisteredProfileCreateInstance(p) : p \in Profiles \cap {name[2]}})
          [] class = "RegisteredSMISubProfile" ->
                OK({RegisteredProfileCreateInstance(p) : p \in {"BlockServices", "CopyServices"} \cap {name[2]}})
          [] class \in SoftwareClasses ->
                OK({SoftwareIdentityCreateInstance(s) : s \in {t \in Software \cap {name[2]} : SoftwareClass(t) = class}})
          [] OTHER -> NotFound

GetInstance(name) ==
    LET class == name[1]
    IN  CASE class \in AssocClasses -> OK({name})
          [] class = "RegisteredSMIProfile" ->
                OK({RegisteredProfileCreateInstance(p) : p \in Profiles \cap {name[2]}})
          [] class = "RegisteredSMISubProfile" ->
                OK({RegisteredProfileCreateInstance(p) : p \in SubProfiles \cap {name[2]}})
          [] class \in SoftwareClasses ->
                OK({SoftwareIdentityCreateInstance(s) : s \in {t \in Software \cap {name[2]} : SoftwareClass(t) = class}})
          [] OTHER -> NotFound

-----------------------------------------------------------------------------
(***************************************************************************)
(* doReferences, narrowed by the class and the role asked for of the other *)
(* end (NULL: any).                                                        *)
(***************************************************************************)
\* cmpiutilClassIsDerivedFrom: the classes a class is derived from.
Ancestors(class) ==
    {class, "CIM_ManagedElement"} \cup
    (CASE class = "RegisteredSMIProfile" -> {"CIM_RegisteredProfile"}
       [] class = "RegisteredSMISubProfile" -> {"CIM_RegisteredSubProfile", "CIM_RegisteredProfile"}
       [] class \in SoftwareClasses -> {"CIM_SoftwareIdentity"}
       [] OTHER -> {})
Derived(class, rc) == rc = NULL \/ rc \in Ancestors(class)
Asked(resultRole, role) == resultRole \in {NULL, role}
Only(cond, set) == IF cond THEN set ELSE {}

\* Of two classes that are both covered neither matches.
Alone(class, other, rc) == rc = NULL \/ (Derived(class, rc) /\ ~Derived(other, rc))

Roles == [c \in AssocClasses |->
            CASE c = "ElementConformsToSMIProfile" -> <<"ManagedElement", "ConformantStandard">>
              [] c = "SMISubProfileRequiresProfile" -> <<"Dependent", "Antecedent">>
              [] c = "SMIElementSoftwareIdentity" -> <<"Antecedent", "Dependent">>]

\* From an object manager: its name is compared with that of the CIMOM's
\* first one, which may be missing.
FromObjectManager(e, rc, rr) ==
    IF ~(Derived("RegisteredSMIProfile", rc) /\ Asked(rr, "ConformantStandard")) THEN OK({})
    ELSE IF managers = <<>> THEN Died
    ELSE OK(Only(e[2] = managers[1], {RegisteredProfileCreateElementConformsAssocInstance("Server")}))

FromProfile(e, rc, rr) ==
    LET cs == Alone("Linux_ComputerSystem", "CIM_ObjectManager", rc) /\ Asked(rr, "ManagedElement")
        om == Alone("CIM_ObjectManager", "Linux_ComputerSystem", rc) /\ Asked(rr, "ManagedElement")
    IN  AllOrFailed({RegisteredProfileCreateElementConformsAssocInstance(p) :
                        p \in {q \in Profiles : e[2] = q /\ IF q = "Server" THEN om ELSE cs}})

RefsElementConformsToSMIProfile(e, rc, rr) ==
    CASE e = ComputerSystem ->
            OK(Only(Derived("RegisteredSMIProfile", rc) /\ Asked(rr, "ConformantStandard"),
                    {RegisteredProfileCreateElementConformsAssocInstance(p) : p \in {"VolumeManagement", "Array"}}))
      [] e[1] = "CIM_ObjectManager" -> FromObjectManager(e, rc, rr)
      [] e[1] = "RegisteredSMIProfile" -> FromProfile(e, rc, rr)
      [] OTHER -> OK({})

\* The mutant swaps the roles of the two ends.
MutantRefsSMISubProfileRequiresProfile(e, rc, rr) ==
    LET toSub == Derived("RegisteredSMISubProfile", rc) /\ Asked(rr, "Antecedent")
        toProfile == Derived("RegisteredSMIProfile", rc) /\ Asked(rr, "Dependent")
    IN  OK({RegisteredProfileCreateSubProfileRequiresAssocInstance(p[1], p[2]) :
            p \in {q \in {"VolumeManagement", "Array"} \X SubProfiles :
                     \/ e = RegisteredProfileCreateObjectPath(q[1]) /\ toSub
                     \/ e = RegisteredProfileCreateObjectPath(q[2]) /\ toProfile}})

RefsSMISubProfileRequiresProfile(e, rc, rr) ==
    LET toSub == Derived("RegisteredSMISubProfile", rc) /\ Asked(rr, "Dependent")
        toProfile == Derived("RegisteredSMIProfile", rc) /\ Asked(rr, "Antecedent")
    IN  OK({RegisteredProfileCreateSubProfileRequiresAssocInstance(p[1], p[2]) :
            p \in {q \in {"VolumeManagement", "Array"} \X SubProfiles :
                     \/ e = RegisteredProfileCreateObjectPath(q[1]) /\ toSub
                     \/ e = RegisteredProfileCreateObjectPath(q[2]) /\ toProfile}})

\* From software to the profiles and the subprofiles.
FromSoftware(s, rc, rr) ==
    LET rp == Alone("RegisteredSMIProfile", "RegisteredSMISubProfile", rc) /\ Asked(rr, "Dependent")
        sp == Alone("RegisteredSMISubProfile", "RegisteredSMIProfile", rc) /\ Asked(rr, "Dependent")
    IN  {SoftwareIdentityCreateElementAssocInstance(s, p) :
            p \in Only(rp, {"Server", OwnProfile(s)}) \cup Only(sp, SubProfiles)}

\* And back: the class asked for must cover both kinds of software.
ToSoftware(p, rc, rr) ==
    Only((\A class \in SoftwareClasses : Derived(class, rc)) /\ Asked(rr, "Antecedent"),
         {SoftwareIdentityCreateElementAssocInstance(s, p) :
            s \in {t \in Software : p \in {"Server", OwnProfile(t)} \cup SubProfiles}})

\* The mutant takes the server profile for that of a computer system.
MutantRefsSMIElementSoftwareIdentity(e, rc, rr) ==
    OK(CASE e[1] \in SoftwareClasses -> FromSoftware(e[2], rc, rr)
         [] e[1] \in {"RegisteredSMIProfile", "RegisteredSMISubProfile"} ->
                Only(e[2] # "Server", ToSoftware(e[2], rc, rr))
         [] OTHER -> {})

RefsSMIElementSoftwareIdentity(e, rc, rr) ==
    OK(CASE e[1] \in SoftwareClasses -> FromSoftware(e[2], rc, rr)
         [] e[1] \in {"RegisteredSMIProfile", "RegisteredSMISubProfile"} -> ToSoftware(e[2], rc, rr)
         [] OTHER -> {})

doReferences(e, assocClass, rc, rr) ==
    CASE assocClass = "ElementConformsToSMIProfile" -> RefsElementConformsToSMIProfile(e, rc, rr)
      [] assocClass = "SMISubProfileRequiresProfile" -> RefsSMISubProfileRequiresProfile(e, rc, rr)
      [] assocClass = "SMIElementSoftwareIdentity" -> RefsSMIElementSoftwareIdentity(e, rc, rr)

-----------------------------------------------------------------------------
(***************************************************************************)
(* The CIMOM and a client                                                  *)
(***************************************************************************)
ResultClasses == {NULL, "CIM_ManagedElement", "CIM_RegisteredProfile"} \cup ObjectClasses

Init ==
    /\ managers \in {<<>>} \cup {<<m>> : m \in Managers}
    /\ held = NULL /\ answer = OK({}) /\ alive = TRUE

\* The object managers of the CIMOM are not the provider's.
CimomChanges ==
    /\ \E some \in SUBSET Managers : managers' \in SetToSeqs(some)
    /\ UNCHANGED <<held, answer, alive>>

Answered(a) ==
    /\ answer' = a
    /\ alive' = (a.rc # "died")
    /\ UNCHANGED managers

\* The client takes one of the names of the answer, or keeps its own.
Objects(found) == {name \in found : name[1] \in ObjectClasses}
Enumerate ==
    /\ \E class \in ObjectClasses \cup AssocClasses :
          \/ Answered(EnumInstanceNames(class))
          \/ Answered(EnumInstances(class))
    /\ held' \in {held} \cup Objects(answer'.found)

Get == held # NULL /\ Answered(GetInstance(held)) /\ UNCHANGED held

Follow ==
    /\ held # NULL
    /\ \E class \in AssocClasses, rc \in ResultClasses, role \in {1, 2, 3} :
          Answered(doReferences(held, class, rc, (Append(Roles[class], NULL))[role]))
    /\ held' \in {held} \cup UNION {{i[2], i[3]} : i \in answer'.found}

Next == CimomChanges \/ (alive /\ Enumerate) \/ (alive /\ Get) \/ (alive /\ Follow)

Spec == Init /\ [][Next]_vars

-----------------------------------------------------------------------------
(***************************************************************************)
(* Properties                                                              *)
(***************************************************************************)
\* A client holds the name of an object that the provider or the CIMOM has.
TypeOK ==
    /\ \E some \in SUBSET Managers : managers \in SetToSeqs(some)
    /\ held \in AllObjects \cup {NULL}
    /\ answer.rc \in {"OK", "FAILED", "NOT_FOUND", "died"} /\ alive \in BOOLEAN

\* The two enumerations of every class are written out separately and agree.
ProfileNamesAreInstances ==
    \A class \in ObjectClasses \cup AssocClasses : EnumInstanceNames(class) = EnumInstances(class)

\* A name that was given leads to the instance that was shown under it.
ProfileNamesCanBeGot ==
    \A class \in ObjectClasses \cup AssocClasses :
        \A name \in EnumInstanceNames(class).found : GetInstance(name) = OK({name})

\* With an object manager, associations are found from both of their ends and
\* from no other object, whichever object manager the client asks from.
ProfileEndsAgree ==
    managers # <<>> => \A class \in AssocClasses, e \in AllObjects :
        doReferences(e, class, NULL, NULL) =
            OK({i \in EnumInstances(class).found : e \in {i[2], i[3]}})

\* Naming the role of the other end selects that end.
ProfileRolesSelectEnds ==
    managers # <<>> => \A class \in AssocClasses, e \in AllObjects, end \in {1, 2} :
        doReferences(e, class, NULL, Roles[class][end]).found =
            {i \in doReferences(e, class, NULL, NULL).found : i[end + 1] # e}

\* The objects a client gets to from some by one association more.
Neighbours(e) ==
    UNION {UNION {{i[2], i[3]} : i \in doReferences(e, class, NULL, NULL).found} : class \in AssocClasses}
Further(some) == some \cup UNION {Neighbours(e) : e \in some}

\* SMI-S discovery: whatever object of the profile a client starts from, it
\* gets to every profile, subprofile and software by associations, also while
\* the CIMOM has no object manager and the server profile no element.
EverythingIsDiscovered ==
    LET Start == {RegisteredProfileCreateObjectPath("Server")}
    IN  \A class \in ObjectClasses :
            EnumInstanceNames(class).found \subseteq Further(Further(Further(Further(Start))))
=============================================================================
