-------------------------- MODULE MCStorageBackend --------------------------
(***************************************************************************)
(* The default RustFS backend of a Tamoss, and an external media backend   *)
(* and a hibernation destination of a user.                                *)
(***************************************************************************)
EXTENDS StorageBackend, TLC

CONSTANTS d, u, h

MCProvider == (d :> "rustfs") @@ (u :> "external") @@ (h :> "hibernate")
=============================================================================
