----------------------------- MODULE ObjectArray -----------------------------
(***************************************************************************)
(* The global arrays of pools, volumes, extents, capabilities and settings *)
(* (PoolArray, VolumeArray, ExtentArray, CapabilityArray, SettingArray).   *)
(* The five share one text but for two lines, which are constants here.    *)
(* Objects are allocated, put into the array at once, and freed by it.     *)
(***************************************************************************)
EXTENDS Naturals

CONSTANTS
    Ids,            \* instance IDs, device IDs
    Objects,        \* the addresses malloc has for objects of this kind
    NULL,
    Chunk,          \* ..._ARRAY_SIZE_DEFAULT, the array grows by it
    RemoveFrees,    \* ...sRemove frees the object that it takes out: pools,
                    \* extents and capabilities
    GrowthLoses     \* the loop over the new slots assigns NULL to the array:
                    \* volumes

ASSUME ArrayAssumption ==
    /\ NULL \notin Ids \cup Objects
    /\ Chunk \in Nat \ {0}
    /\ RemoveFrees \in BOOLEAN /\ GrowthLoses \in BOOLEAN

VARIABLES
    slots,      \* the array, from 1
    max,        \* MaxNum...: its slots; 0 before it is allocated
    num,        \* Num...: its objects
    heap,       \* the ID of the object at an address, NULL if none is there
    fate        \* "Defined", or what happened that leaves all undefined

vars == <<slots, max, num, heap, fate>>

NoSlots == [i \in 1..0 |-> NULL]

First(S) == CHOOSE i \in S : \A j \in S : i <= j

Filled(s) == {i \in DOMAIN s : s[i] # NULL}

\* The array, allocated if this is the first time through.
Room == IF max = 0 THEN Chunk ELSE max
Slots == IF max = 0 THEN [i \in 1..Chunk |-> NULL] ELSE slots

\* The slots of array s that hold an object with ID k, the objects being in h.
Matching(s, h, k) == {i \in Filled(s) : h[s[i]] = k}
FindIn(s, h, k) == IF Matching(s, h, k) = {} THEN NULL ELSE s[First(Matching(s, h, k))]

\* ...sFind
Matches(k) == Matching(slots, heap, k)
Find(k) == FindIn(slots, heap, k)

\* ...sSize and ...sGet, with which callers loop over the array.
Size == num
Get(i) == IF max <= i THEN NULL ELSE slots[i + 1]

-----------------------------------------------------------------------------
Init ==
    /\ slots = NoSlots /\ max = 0 /\ num = 0
    /\ heap = [o \in Objects |-> NULL]
    /\ fate = "Defined"

\* Mutant: a new chunk's first object is not counted.
MutantInsert(k, o) ==
    /\ Matches(k) = {}
    /\ \/ /\ Filled(Slots) # 1..Room
          /\ slots' = [Slots EXCEPT ![First((1..Room) \ Filled(Slots))] = o]
          /\ max' = Room
          /\ num' = num + 1
       \/ /\ Filled(Slots) = 1..Room
          /\ slots' = [i \in 1..(max + Chunk) |->
                         IF i <= max THEN slots[i] ELSE IF i = max + 1 THEN o ELSE NULL]
          /\ max' = max + Chunk
          /\ num' = num
    /\ heap' = [heap EXCEPT ![o] = k]
    /\ UNCHANGED fate

\* ...sAdd of an object whose ID is new: it goes into the first empty slot,
\* or the array grows.  The array that is lost in growing is written to.
Insert(k, o) ==
    /\ Matches(k) = {}
    /\ \/ /\ Filled(Slots) # 1..Room
          /\ slots' = [Slots EXCEPT ![First((1..Room) \ Filled(Slots))] = o]
          /\ max' = Room
          /\ fate' = fate
       \/ /\ Filled(Slots) = 1..Room /\ ~GrowthLoses
          /\ slots' = [i \in 1..(max + Chunk) |->
                         IF i <= max THEN slots[i] ELSE IF i = max + 1 THEN o ELSE NULL]
          /\ max' = max + Chunk
          /\ fate' = fate
       \/ /\ Filled(Slots) = 1..Room /\ GrowthLoses
          /\ fate' = "ArrayLost"
          /\ UNCHANGED <<slots, max>>
    /\ num' = num + 1
    /\ heap' = [heap EXCEPT ![o] = k]

\* Mutant: the old object is taken out, and the new one is not put in.
MutantReplace(k, o) ==
    /\ Matches(k) # {}
    /\ slots' = [slots EXCEPT ![First(Matches(k))] = NULL]
    /\ heap' = [heap EXCEPT ![slots[First(Matches(k))]] = NULL, ![o] = k]
    /\ num' = num - 1
    /\ UNCHANGED <<max, fate>>

\* Mutant: the old object is left in its slot.
MutantKeep(k, o) ==
    /\ Matches(k) # {} /\ Filled(slots) # 1..max
    /\ slots' = [slots EXCEPT ![First((1..max) \ Filled(slots))] = o]
    /\ heap' = [heap EXCEPT ![o] = k]
    /\ num' = num + 1
    /\ UNCHANGED <<max, fate>>

\* ...sAdd of an object whose ID is in the array: the old object is taken out
\* and freed.  ...sRemove reads the ID in every slot before it, and may have
\* freed the object itself.
Replace(k, o) ==
    /\ Matches(k) # {}
    /\ LET at == First(Matches(k))
           emptied == [slots EXCEPT ![at] = NULL]
       IN  \/ /\ (1..at) \subseteq Filled(slots) /\ ~RemoveFrees
              /\ slots' = [emptied EXCEPT ![First((1..max) \ Filled(emptied))] = o]
              /\ heap' = [heap EXCEPT ![slots[at]] = NULL, ![o] = k]
              /\ fate' = fate
           \/ /\ ~((1..at) \subseteq Filled(slots)) \/ RemoveFrees
              /\ fate' = IF (1..at) \subseteq Filled(slots) THEN "FreedTwice"
                                                           ELSE "EmptySlotRead"
              /\ UNCHANGED <<slots, heap>>
    /\ UNCHANGED <<max, num>>

\* ...Alloc, then ...sAdd.
Add(k, o) ==
    /\ fate = "Defined"
    /\ heap[o] = NULL
    /\ Insert(k, o) \/ Replace(k, o)

\* ...sFree: every object in the array is freed, and the array.
Free ==
    /\ fate = "Defined"
    /\ heap' = [o \in Objects |->
                  IF \E i \in 1..max : slots[i] = o THEN NULL ELSE heap[o]]
    /\ slots' = NoSlots /\ max' = 0 /\ num' = 0
    /\ UNCHANGED fate

Next == Free \/ \E k \in Ids, o \in Objects : Add(k, o)

Spec == Init /\ [][Next]_vars

-----------------------------------------------------------------------------
TypeOK ==
    /\ max \in Nat /\ num \in Nat
    /\ slots \in [1..max -> Objects \cup {NULL}]
    /\ heap \in [Objects -> Ids \cup {NULL}]
    /\ fate \in {"Defined", "ArrayLost", "FreedTwice", "EmptySlotRead"}

\* A loop over ...sGet(0) to ...sGet(...sSize() - 1), as every enumeration and
\* the scan run it, meets every live object once: no object is behind an empty
\* slot, none is in two slots, none leaked.
LoopsMeetAll ==
    fate = "Defined" =>
        /\ {Get(i) : i \in {j \in 0..max : j < Size}} = {o \in Objects : heap[o] # NULL}
        /\ \A i, j \in 0..max : i < Size /\ j < Size /\ i # j => Get(i) # Get(j)

\* The array implements the catalogue, through replacements and growth.
C == INSTANCE Catalogue WITH entry <- [k \in Ids |-> Find(k)]
ImplementsCatalogue == C!Spec

\* And it implements it step by step: what is found after ...sAdd is the
\* object just added, with the others where they were.
AddPuts ==
    [][\A k \in Ids, o \in Objects :
         Add(k, o) /\ fate' = "Defined" => C!Put(k, o)]_vars
=============================================================================
