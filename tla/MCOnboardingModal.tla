-------------------------- MODULE MCOnboardingModal --------------------------
(***************************************************************************)
(* Two store names, one of them too short to be looked up, two launches    *)
(* and two lookups.                                                        *)
(***************************************************************************)
EXTENDS OnboardingModal, TLC

CONSTANTS d1, d2
===============================================================================
