----------------------------- MODULE MCUpgrade -----------------------------
(* A catalogue of three releases: r1 installs schema 1, r2 is a patch release
   with the same schema, r3 migrates from schema 1 to schema 2. *)
EXTENDS Upgrade

MCReleases       == {"r1", "r2", "r3"}
MCSchemaOf       == [v \in MCReleases |-> IF v = "r3" THEN 2 ELSE 1]
MCPreviousSchema == [v \in MCReleases |-> IF v = "r3" THEN 1 ELSE 0]
MCUpgradeFrom    == [v \in MCReleases |->
                        CASE v = "r1" -> {} [] v = "r2" -> {"r1"} [] v = "r3" -> {"r1", "r2"}]
=============================================================================
