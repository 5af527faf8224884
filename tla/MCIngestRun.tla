---------------------------- MODULE MCIngestRun ----------------------------
(* Instances of IngestRun for TLC. *)
EXTENDS IngestRun

CONSTANTS r1, r2, r3

NoParents == [r \in Runs |-> NoRun]
RetryChain == [r \in Runs |-> IF r = r2 THEN r1 ELSE NoRun]
=============================================================================
