----------------------------- MODULE MCMigrator -----------------------------
(* Values for the constants of Migrator.                                   *)
EXTENDS Migrator, TLC

CONSTANTS o1, o2, o3        \* objects

v1alpha2 == "v1alpha2"
v1beta1  == "v1beta1"
v1       == "v1"

\* Two objects of the first CRD, one of the second.
TwoCrds == o1 :> 1 @@ o2 :> 1 @@ o3 :> 2

OneCrd == o1 :> 1 @@ o2 :> 1

\* Upgrades of cert-manager: the storage version moves towards the target.
Upgrades == {<<v1alpha2, v1beta1>>, <<v1beta1, v1>>, <<v1alpha2, v1>>}

UpgradesOfTwo == {<<v1beta1, v1>>}

\* Rollbacks only: each version can be left for an older one.
Rollbacks == {<<w, v>> : <<v, w>> \in Upgrades}
=============================================================================
