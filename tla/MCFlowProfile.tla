--------------------------- MODULE MCFlowProfile ---------------------------
(***************************************************************************)
(* Two FlowProfiles with one UUID: documents 1 and 2 are valid, the        *)
(* operator rejects 3, and the application rejects 4.                      *)
(***************************************************************************)
EXTENDS FlowProfile, TLC

CONSTANTS p1, p2

\* Names only break ties, so without ties they are interchangeable.
MCSymmetry == Permutations({p1, p2})

MCRank == (p1 :> 2) @@ (p2 :> 1)
=============================================================================
