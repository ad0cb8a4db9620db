------------------------- MODULE MCRequestProjection -------------------------
(***************************************************************************)
(* Small instances of RequestProjection for TLC.                           *)
(***************************************************************************)
EXTENDS RequestProjectionProperties

CONSTANTS q1, q2, s1, s2
=============================================================================
