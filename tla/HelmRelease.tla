---------------------------- MODULE HelmRelease ----------------------------
(***************************************************************************)
(* `cmctl x install` (pkg/install) and `cmctl x uninstall`                 *)
(* (pkg/uninstall): what they do to the CRDs of cert-manager and to its    *)
(* Helm release, together with other runs of theirs and with helm itself.  *)
(***************************************************************************)
EXTENDS Naturals, FiniteSets

CONSTANTS
    Crds,           \* the CRDs of the chart
    Runs,           \* runs of the two commands, each may be repeated
    MaxRevision,    \* bound: revisions of a release
    StoreMayFail,   \* whether helm's storage may fail to update a release
    HelmConcurrent  \* whether helm is used while one of the runs is

ASSUME HelmReleaseAssumption ==
    /\ MaxRevision \in Nat \ {0}
    /\ StoreMayFail \in BOOLEAN
    /\ HelmConcurrent \in BOOLEAN

VARIABLES
    crds,       \* CRD -> whether it is there, and whose it is
    release,    \* the last revision of the release, as helm stores it
    pc,         \* run -> where it is
    originalCRDs,   \* run -> the CRDs FetchResources found, until CreateCRDs is over
    last        \* run -> the release as uninstall read it, while it needs it

cluster == <<crds, release>>
reads == <<originalCRDs, last>>
local == <<pc, reads>>
vars == <<cluster, local>>

\* merged: whether CreateCRDs merged the chart's CRD into one that was there.
CrdStates == [is : {"absent", "owned", "bare"}, merged : BOOLEAN]
Absent == [is |-> "absent", merged |-> FALSE]
Owned == [is |-> "owned", merged |-> FALSE]
Bare == [is |-> "bare", merged |-> FALSE]
Merged(crd) == [crd EXCEPT !.merged = TRUE]

\* crds: those in the manifest.  kept: those annotated helm.sh/resource-policy: keep.
Releases ==
    [revision : 0..MaxRevision, status : {"none", "pending", "deployed", "failed", "uninstalling"},
     by : {"none", "cmctl", "helm"}, crds : SUBSET Crds, kept : SUBSET Crds]

NoRelease == [revision |-> 0, status |-> "none", by |-> "none", crds |-> {}, kept |-> {}]

\* What helm uninstall deletes: the CRDs of the manifest that are not kept.
Deletable == release.crds \ release.kept

Released == release.revision # 0
Present == {c \in Crds : crds[c] # Absent}
With(S, how) == [c \in Crds |-> IF c \in S THEN how ELSE crds[c]]

Uninstalled == crds' = With(Deletable, Absent) /\ release' = NoRelease

TypeOK ==
    /\ crds \in [Crds -> CrdStates]
    /\ release \in Releases
    /\ pc \in [Runs -> {"idle", "fetch", "crds", "chart", "deploy", "read", "annotate", "remove",
                    "uninstalled"}]
    /\ originalCRDs \in [Runs -> SUBSET Crds]
    /\ last \in [Runs -> Releases]

Init ==
    /\ crds = [c \in Crds |-> Absent]
    /\ release = NoRelease
    /\ pc = [r \in Runs |-> "idle"]
    /\ originalCRDs = [r \in Runs |-> {}]
    /\ last = [r \in Runs |-> NoRelease]

Idle(r) == pc[r] \in {"idle", "uninstalled"}

Goes(r, where) == pc' = [pc EXCEPT ![r] = where]

\* The command returns an error, or anything but "uninstalled".
Ends(r) == Goes(r, "idle")

-----------------------------------------------------------------------------
\* runInstall up to the dry run, whose manifest has all the CRDs, changes nothing; with
\* --dry-run, or when no chart is found, nothing follows.
StartInstall(r) ==
    /\ Idle(r)
    /\ Goes(r, "fetch")
    /\ UNCHANGED <<cluster, reads>>

\* FetchResources: which CRDs of the chart are in the cluster.
Fetch(r) ==
    /\ pc[r] = "fetch"
    /\ \/ /\ originalCRDs' = [originalCRDs EXCEPT ![r] = Present]
          /\ Goes(r, "crds")
       \/ Ends(r) /\ UNCHANGED originalCRDs
    /\ UNCHANGED <<cluster, last>>

\* "Found existing installed cert-manager CRDs!"
Refuse(r) ==
    /\ pc[r] = "crds"
    /\ originalCRDs[r] # {}
    /\ Ends(r)
    /\ originalCRDs' = [originalCRDs EXCEPT ![r] = {}]
    /\ UNCHANGED <<cluster, last>>

\* CreateCRDs.  helm's Create applies on the server: a CRD that is there by now is merged
\* with that of the chart, or is like it already, or another's fields conflict.  A CRD that
\* fails, or is not established in time, ends the command and leaves the others.
CreateCRDs(r) ==
    /\ pc[r] = "crds"
    /\ originalCRDs[r] = {}
    /\ \E applied \in SUBSET Crds : \E merged \in SUBSET (applied \cap Present) :
           /\ crds' = [c \in Crds |-> IF c \in merged THEN Merged(crds[c])
                                      ELSE IF c \in applied \ Present THEN Bare ELSE crds[c]]
           /\ IF applied = Crds THEN Goes(r, "chart") \/ Ends(r) ELSE Ends(r)
    /\ UNCHANGED <<release, reads>>

\* Variant: installCRDs is still set.
ManifestWithCrds == Crds

\* The CRDs of the chart rendered with installCRDs = false.
ManifestCrds == {}

\* helm install: stores a pending release first, unless the name is taken or an object
\* of its manifest is there and not its own.
Install(r) ==
    /\ pc[r] = "chart"
    /\ \/ /\ ~Released
          /\ \A c \in ManifestCrds : crds[c] = Absent
          /\ release' = [revision |-> 1, status |-> "pending", by |-> "cmctl",
                         crds |-> ManifestCrds, kept |-> {}]
          /\ crds' = With(ManifestCrds, Owned)
          /\ Goes(r, "deploy")
       \/ Ends(r) /\ UNCHANGED cluster
    /\ UNCHANGED reads

\* The objects of the release are created, or not all of them: then the release has
\* failed, or with --wait is rolled back.
Deploy(r) ==
    /\ pc[r] = "deploy"
    /\ \/ /\ Released
          /\ \E how \in {"deployed", "failed"} : release' = [release EXCEPT !.status = how]
          /\ UNCHANGED crds
       \/ Uninstalled
       \/ UNCHANGED cluster
    /\ Ends(r)
    /\ UNCHANGED reads

-----------------------------------------------------------------------------
\* --dry-run writes nothing.
StartUninstall(r) ==
    /\ Idle(r)
    /\ Goes(r, "read")
    /\ UNCHANGED <<cluster, reads>>

\* The first half of addCRDAnnotations.
Read(r) ==
    /\ pc[r] = "read"
    /\ \/ /\ release.status = "deployed"
          /\ Deletable # {}
          /\ last' = [last EXCEPT ![r] = release]
          /\ Goes(r, "annotate")
       \/ /\ release.status = "deployed"
          /\ Deletable = {}
          /\ Goes(r, "remove")
          /\ UNCHANGED last
       \/ Ends(r) /\ UNCHANGED last
    /\ UNCHANGED <<cluster, originalCRDs>>

\* Variant: only a CRD that is not annotated ends the search for more.
AnnotatedFirst(rel) ==
    [rel EXCEPT !.kept = @ \cup {CHOOSE c \in rel.crds : c \notin rel.kept}]

\* The manifest with "keep" on every CRD.
Annotated(rel) == [rel EXCEPT !.kept = rel.crds]

\* The second half: helm stores the release by its name and revision; a failure is only
\* logged.
Annotate(r) ==
    /\ pc[r] = "annotate"
    /\ \/ Released /\ release.revision = last[r].revision /\ release' = Annotated(last[r])
       \/ (StoreMayFail \/ release.revision # last[r].revision) /\ UNCHANGED release
    /\ Goes(r, "remove")
    /\ last' = [last EXCEPT ![r] = NoRelease]
    /\ UNCHANGED <<crds, originalCRDs>>

\* run drops the errors of helm: what was not deleted is reported as uninstalled.
Remove(r) ==
    /\ pc[r] = "remove"
    /\ \/ Uninstalled
       \/ /\ Released
          /\ \E deleted \in SUBSET Deletable : crds' = With(deleted, Absent)
          /\ release' = [release EXCEPT !.status = "uninstalling"]
       \/ UNCHANGED cluster
    /\ Goes(r, "uninstalled")
    /\ UNCHANGED reads

Kill(r) ==
    /\ ~Idle(r)
    /\ Goes(r, "idle")
    /\ originalCRDs' = [originalCRDs EXCEPT ![r] = {}]
    /\ last' = [last EXCEPT ![r] = NoRelease]
    /\ UNCHANGED cluster

Command(r) ==
    \/ StartInstall(r)
    \/ Fetch(r)
    \/ Refuse(r)
    \/ CreateCRDs(r)
    \/ Install(r)
    \/ Deploy(r)
    \/ StartUninstall(r)
    \/ Read(r)
    \/ Annotate(r)
    \/ Remove(r)
    \/ Kill(r)

-----------------------------------------------------------------------------
\* helm install and helm upgrade with a chart that has the CRDs in its manifest.
HelmUpgrades(inManifest, kept) ==
    /\ release.revision < MaxRevision
    /\ release.status \in {"none", "deployed", "failed"}
    /\ \A c \in inManifest : crds[c].is # "bare"
    /\ crds' = [c \in Crds |-> IF c \in inManifest THEN Owned
                               ELSE IF c \in Deletable THEN Absent ELSE crds[c]]
    /\ release' = [revision |-> release.revision + 1, status |-> "deployed", by |-> "helm",
                   crds |-> inManifest, kept |-> kept]

HelmUninstalls ==
    /\ Released
    /\ Uninstalled

Helm ==
    /\ HelmConcurrent \/ \A r \in Runs : Idle(r)
    /\ \/ \E S \in SUBSET Crds : \E kept \in SUBSET S : HelmUpgrades(S, kept)
       \/ HelmUninstalls
    /\ UNCHANGED local

\* An administrator deletes or applies a CRD.
Administrator ==
    /\ \E c \in Crds : crds' = [crds EXCEPT ![c] = IF @ = Absent THEN Bare ELSE Absent]
    /\ UNCHANGED <<release, local>>

Next == Helm \/ Administrator \/ \E r \in Runs : Command(r)

Spec == Init /\ [][Next]_vars

-----------------------------------------------------------------------------
\* No run deletes a CRD that is in the cluster: "it will not delete any of the cert-manager
\* CRDs even if they were installed as part of the Helm release" (uninstall.go:63-64).  And
\* none changes one, but that an install may merge the chart's into a CRD that was not there
\* when it looked for them (install.go:235-245, applycrd.go:28-37).
CrdsUntouched ==
    [][\A r \in Runs : Command(r) =>
           \A c \in Present :
               \/ crds'[c] = crds[c]
               \/ /\ pc[r] = "crds" /\ c \notin originalCRDs[r]
                  /\ crds'[c] = Merged(crds[c])]_vars

\* A release that install made has no CRD, so that no uninstall of it removes one: "CRDs
\* are not removed by a subsequent helm uninstall" (install.go:139-142).
ReleaseWithoutCrds == release.by = "cmctl" => release.crds = {}

\* CrdsUntouched rests on this: unless other Helm clients interfere, what a run is about
\* to remove is annotated, what it is about to annotate is the release it read or one that
\* removes no CRD (uninstall.go:149-155, 253), and what it may roll back removes none
\* (install.go:258, 267).
ReleaseInv ==
    /\ TypeOK
    /\ \A r \in Runs :
           /\ pc[r] \in {"deploy", "remove"} => Deletable = {}
           /\ pc[r] = "annotate" => Deletable = {} \/ release.revision = last[r].revision
=============================================================================
