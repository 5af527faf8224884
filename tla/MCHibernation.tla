--------------------------- MODULE MCHibernation ---------------------------
(* Instances of Hibernation for TLC. *)
EXTENDS Hibernation

CONSTANTS u1
=============================================================================
