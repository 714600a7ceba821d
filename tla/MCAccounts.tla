----------------------------- MODULE MCAccounts ------------------------------
(***************************************************************************)
(* One email free to register and one registration at a time: enough to    *)
(* compare what register stores with what login checks.                    *)
(***************************************************************************)
EXTENDS Accounts, TLC

CONSTANTS ann, bob, p1, p2, s1, c1, c2
===============================================================================
