----------------------------- MODULE MCIdentity -----------------------------
(* One instance and everybody else in the Authentik it uses.             *)
EXTENDS Identity

CONSTANTS a, r1, r2, r3, r4, r5

MCNamespace == [r \in Revs |-> IF r = r2 THEN "elsewhere" ELSE "platform"]

=============================================================================
