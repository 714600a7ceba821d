---------------------------- MODULE MCKeyCustody -----------------------------
(***************************************************************************)
(* Small instances of KeyCustody: a tenant, 'system' and an absent tenant, *)
(* two contexts, three calls that encrypt, rotate and decrypt in any       *)
(* order, in one instance of the service and, after a restart, the next.   *)
(***************************************************************************)
EXTENDS KeyCustody, TLC

CONSTANTS g1, sys, t1, users, files, c1, c2, c3

ListOfTwo == <<users, files>>
Symmetry  == Permutations(Calls)
===============================================================================
