------------------------------ MODULE Release ------------------------------
(***************************************************************************)
(* What the release machinery of the operator promises about one Tamoss    *)
(* instance (docs/operations/upgrades.md, "Status and failed upgrades"):   *)
(* one upgrade at a time, along the paths of the catalogue; the database   *)
(* schema only moves to the schema of the upgrade that is under way; the   *)
(* instance reports a release only once its database carries that          *)
(* release's schema.  Upgrade.tla implements this specification.           *)
(***************************************************************************)
EXTENDS Naturals

CONSTANTS
    Releases,     \* the versions of the catalogue
    NoVersion,    \* the empty version
    SchemaOf,     \* the schema each release needs, a number counting from 1
    UpgradeFrom   \* the releases each release may be reached from

VARIABLES
    current,   \* the release the instance reports
    pending,   \* the release an upgrade is under way to
    schema     \* the schema the database carries, 0 before the first migration

vars == <<current, pending, schema>>

\* A fresh installation, or one that predates status.currentVersion.
Init ==
    /\ current = NoVersion
    /\ pending = NoVersion
    /\ schema \in {0} \cup {SchemaOf[v] : v \in Releases}

Begin(v) ==
    /\ pending = NoVersion
    /\ current # v
    /\ current = NoVersion \/ current \in UpgradeFrom[v]
    /\ pending' = v
    /\ UNCHANGED <<current, schema>>

Migrate ==
    /\ pending # NoVersion
    /\ schema < SchemaOf[pending]
    /\ schema' = SchemaOf[pending]
    /\ UNCHANGED <<current, pending>>

Complete ==
    /\ pending # NoVersion
    /\ schema = SchemaOf[pending]
    /\ current' = pending
    /\ pending' = NoVersion
    /\ UNCHANGED schema

Next ==
    \/ \E v \in Releases : Begin(v)
    \/ Migrate
    \/ Complete

Spec == Init /\ [][Next]_vars
=============================================================================
