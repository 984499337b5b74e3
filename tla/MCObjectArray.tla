--------------------------- MODULE MCObjectArray ---------------------------
(***************************************************************************)
(* Small instances of ObjectArray for TLC: four IDs over chunks of two     *)
(* slots, so that the array is allocated, filled and grown, and five       *)
(* addresses, so that a full array has one to replace an object with.      *)
(***************************************************************************)
EXTENDS ObjectArray

CONSTANTS k1, k2, k3, k4, o1, o2, o3, o4, o5

MCIds == {k1, k2, k3, k4}
MCObjects == {o1, o2, o3, o4, o5}
=============================================================================
