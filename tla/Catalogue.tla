------------------------------ MODULE Catalogue ------------------------------
(***************************************************************************)
(* What an array of objects promises its callers: the object last added    *)
(* under an ID is found under it until it is replaced or all are freed.    *)
(***************************************************************************)
CONSTANTS
    Ids,        \* instance IDs, device IDs
    Objects,    \* objects, as their addresses
    NULL        \* not an object

VARIABLE entry  \* the object under each ID, or NULL

Init == entry = [k \in Ids |-> NULL]

\* An object that is in the catalogue already is not added again.
Put(k, o) ==
    /\ \A j \in Ids : entry[j] # o
    /\ entry' = [entry EXCEPT ![k] = o]

Clear == entry' = [k \in Ids |-> NULL]

Next == Clear \/ \E k \in Ids, o \in Objects : Put(k, o)

Spec == Init /\ [][Next]_entry
=============================================================================
