--------------------------- MODULE MCLoginThrottle ---------------------------
(***************************************************************************)
(* Small instances of LoginThrottle.  Logins for different emails share    *)
(* only the connection, whose loss is a step of its own, so one email is    *)
(* enough; the limit of 5 becomes 2, which three logins at once overshoot. *)
(* No symmetry: liveness is checked.                                       *)
(***************************************************************************)
EXTENDS LoginThrottle

CONSTANTS e1, r1, r2, r3
===============================================================================
