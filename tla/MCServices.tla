----------------------------- MODULE MCServices ------------------------------
(***************************************************************************)
(* Small instances of the services of Services.  One exploration checks    *)
(* them all, each with the constants of the cfg.  Calls are                *)
(* interchangeable everywhere; the other values are not declared           *)
(* symmetric.                                                              *)
(***************************************************************************)
EXTENDS Services, TLC

CONSTANTS c1, c2, c3, ann, bob, p1, p2, s1, update, t1, t2, u1, x1, r1, ip1, a1, d1, d2

Symmetry == Permutations(Calls)
===============================================================================
