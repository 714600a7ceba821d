---------------------------- MODULE MCSchemaNames ----------------------------
(***************************************************************************)
(* All pairs of ids of up to four characters, where the form allows two or *)
(* three and the slice three: ids below, at and past both limits.          *)
(***************************************************************************)
EXTENDS SchemaNames
===============================================================================
