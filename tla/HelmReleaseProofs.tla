------------------------- MODULE HelmReleaseProofs -------------------------
(***************************************************************************)
(* While helm's storage works and no other Helm client is used, install    *)
(* and uninstall delete no CRD, and change none but one that came after    *)
(* install looked for them, for any set of CRDs and any number of runs.    *)
(***************************************************************************)
EXTENDS HelmRelease, TLAPS

\* No Helm client and no failure of its storage comes between the steps of a run.
Undisturbed == ~StoreMayFail /\ ~HelmConcurrent

\* The release that install stores (install.go:267) removes no CRD.
LEMMA InstalledType ==
    ASSUME HelmReleaseAssumption
    PROVE  /\ NoRelease \in Releases
           /\ [revision |-> 1, status |-> "pending", by |-> "cmctl",
               crds |-> ManifestCrds, kept |-> {}] \in Releases
BY DEF HelmReleaseAssumption, NoRelease, Releases, ManifestCrds

\* What uninstall stores (uninstall.go:248-253) is a release that removes no CRD.
LEMMA AnnotatedRemovesNothing ==
    ASSUME NEW rel \in Releases
    PROVE  /\ Annotated(rel) \in Releases
           /\ Annotated(rel).crds \ Annotated(rel).kept = {}
           /\ Annotated(rel).revision = rel.revision
BY DEF Annotated, Releases

\* The release that helm stores for an upgrade.
LEMMA UpgradeType ==
    ASSUME HelmReleaseAssumption, release \in Releases, release.revision < MaxRevision,
           NEW S \in SUBSET Crds, NEW kept \in SUBSET S
    PROVE  [revision |-> release.revision + 1, status |-> "deployed", by |-> "helm",
            crds |-> S, kept |-> kept] \in Releases
BY DEF HelmReleaseAssumption, Releases

\* The states a CRD is set to are states of a CRD.
LEMMA StatesType ==
    /\ Absent \in CrdStates /\ Owned \in CrdStates /\ Bare \in CrdStates
    /\ \A crd \in CrdStates : Merged(crd) \in CrdStates
BY DEF Absent, Owned, Bare, Merged, CrdStates

\* A CRD keeps one of its states when some of them are set to one.
LEMMA WithType ==
    ASSUME TypeOK, NEW S, NEW how \in CrdStates
    PROVE  With(S, how) \in [Crds -> CrdStates]
BY DEF TypeOK, With

\* Setting none of the CRDs changes none.
LEMMA WithNone ==
    ASSUME TypeOK, NEW S, S = {}, NEW how
    PROVE  With(S, how) = crds
BY DEF TypeOK, With

LEMMA ReleaseInit ==
    ASSUME HelmReleaseAssumption, Init
    PROVE  ReleaseInv
BY InstalledType, StatesType DEF Init, ReleaseInv, TypeOK

\* A step of a run leaves the variables well typed.
LEMMA CommandType ==
    ASSUME HelmReleaseAssumption, TypeOK, NEW r \in Runs, Command(r)
    PROVE  TypeOK'
<1> USE DEF Goes, Ends, cluster, local, reads
<1>1. CASE StartInstall(r) \/ Fetch(r) \/ Refuse(r) \/ StartUninstall(r) \/ Read(r)
  <2>1. Present \in SUBSET Crds
    BY DEF Present
  <2> QED
    BY <1>1, <2>1 DEF StartInstall, Fetch, Refuse, StartUninstall, Read, TypeOK
<1>2. CASE CreateCRDs(r)
  <2>0. PICK applied \in SUBSET Crds : \E merged \in SUBSET (applied \cap Present) :
            crds' = [c \in Crds |-> IF c \in merged THEN Merged(crds[c])
                                    ELSE IF c \in applied \ Present THEN Bare ELSE crds[c]]
    BY <1>2 DEF CreateCRDs
  <2>1. PICK merged \in SUBSET (applied \cap Present) :
            crds' = [c \in Crds |-> IF c \in merged THEN Merged(crds[c])
                                    ELSE IF c \in applied \ Present THEN Bare ELSE crds[c]]
    BY <2>0
  <2>2. crds' \in [Crds -> CrdStates]
    BY <2>1, StatesType DEF TypeOK
  <2>3. UNCHANGED <<release, last, originalCRDs>>
    BY <1>2 DEF CreateCRDs
  <2>4. pc' = [pc EXCEPT ![r] = "chart"] \/ pc' = [pc EXCEPT ![r] = "idle"]
    BY <1>2 DEF CreateCRDs
  <2> QED BY <2>2, <2>3, <2>4 DEF TypeOK
<1>3. CASE Install(r)
  <2>1. release' \in Releases
    BY <1>3, InstalledType DEF Install, TypeOK
  <2>2. crds' \in [Crds -> CrdStates]
    BY <1>3, WithType, StatesType DEF Install, TypeOK
  <2>3. UNCHANGED <<last, originalCRDs>> /\ pc' \in {[pc EXCEPT ![r] = "deploy"], [pc EXCEPT ![r] = "idle"]}
    BY <1>3 DEF Install
  <2> QED BY <2>1, <2>2, <2>3 DEF TypeOK
<1>4. CASE Deploy(r)
  <2>1. release' \in Releases
    BY <1>4, InstalledType DEF Deploy, Uninstalled, TypeOK, Releases
  <2>2. crds' \in [Crds -> CrdStates]
    BY <1>4, WithType, StatesType DEF Deploy, Uninstalled, TypeOK
  <2> QED BY <1>4, <2>1, <2>2 DEF Deploy, TypeOK
<1>5. CASE Annotate(r)
  <2>1. last[r] \in Releases
    BY DEF TypeOK
  <2>2. release' \in Releases
    BY <1>5, <2>1, AnnotatedRemovesNothing DEF Annotate, TypeOK
  <2> QED BY <1>5, <2>2, InstalledType DEF Annotate, TypeOK
<1>6. CASE Remove(r)
  <2>1. release' \in Releases
    BY <1>6, InstalledType DEF Remove, Uninstalled, TypeOK, Releases
  <2>2. crds' \in [Crds -> CrdStates]
    BY <1>6, WithType, StatesType DEF Remove, Uninstalled, TypeOK
  <2> QED BY <1>6, <2>1, <2>2 DEF Remove, TypeOK
<1>7. CASE Kill(r)
  BY <1>7, InstalledType DEF Kill, TypeOK
<1> QED
  BY <1>1, <1>2, <1>3, <1>4, <1>5, <1>6, <1>7 DEF Command

\* So does helm, and so does an administrator.
LEMMA StepType ==
    ASSUME HelmReleaseAssumption, TypeOK, [Next]_vars
    PROVE  TypeOK'
<1>1. CASE UNCHANGED vars
  BY <1>1 DEF TypeOK, vars, cluster, local, reads
<1>2. CASE Administrator
  BY <1>2, StatesType DEF Administrator, TypeOK, local, reads
<1>3. CASE Helm
  <2>1. UNCHANGED <<pc, last, originalCRDs>>
    BY <1>3 DEF Helm, local, reads
  <2>2. CASE HelmUninstalls
    BY <2>1, <2>2, InstalledType, WithType, StatesType DEF TypeOK, HelmUninstalls, Uninstalled
  <2>3. CASE \E S \in SUBSET Crds : \E kept \in SUBSET S : HelmUpgrades(S, kept)
    <3>1. PICK S \in SUBSET Crds : \E kept \in SUBSET S : HelmUpgrades(S, kept)
      BY <2>3
    <3>2. PICK kept \in SUBSET S : HelmUpgrades(S, kept)
      BY <3>1
    <3>3. release' \in Releases
      BY <3>2, UpgradeType DEF TypeOK, HelmUpgrades
    <3>4. crds' \in [Crds -> CrdStates]
      BY <3>2, StatesType DEF TypeOK, HelmUpgrades
    <3> QED BY <2>1, <3>3, <3>4 DEF TypeOK
  <2> QED BY <1>3, <2>2, <2>3 DEF Helm
<1> QED BY <1>1, <1>2, <1>3, CommandType DEF Next

-----------------------------------------------------------------------------
\* Every step of a run keeps the invariant.
LEMMA CommandKeeps ==
    ASSUME HelmReleaseAssumption, Undisturbed, ReleaseInv, NEW r \in Runs, Command(r), TypeOK'
    PROVE  ReleaseInv'
<1> USE DEF ReleaseInv, Goes, Ends, cluster, local, reads
<1>1. CASE StartInstall(r) \/ Fetch(r) \/ Refuse(r) \/ CreateCRDs(r) \/ StartUninstall(r) \/ Kill(r)
  <2>1. UNCHANGED release
    BY <1>1 DEF StartInstall, Fetch, Refuse, CreateCRDs, StartUninstall, Kill
  <2>2. pc'[r] \notin {"deploy", "annotate", "remove"}
    BY <1>1 DEF StartInstall, Fetch, Refuse, CreateCRDs, StartUninstall, Kill, TypeOK
  <2>3. \A q \in Runs \ {r} : pc'[q] = pc[q] /\ last'[q] = last[q]
    BY <1>1 DEF StartInstall, Fetch, Refuse, CreateCRDs, StartUninstall, Kill, TypeOK
  <2> QED BY <2>1, <2>2, <2>3 DEF Deletable
<1>2. CASE Install(r)
  <2>1. CASE Ends(r) /\ UNCHANGED cluster /\ UNCHANGED last
    BY <2>1 DEF TypeOK, Deletable
  <2>2. CASE ~(Ends(r) /\ UNCHANGED cluster)
    BY <1>2, <2>2 DEF Install, Deletable, ManifestCrds
  <2> QED BY <1>2, <2>1, <2>2 DEF Install
<1>3. CASE Deploy(r)
  <2>1. pc' = [pc EXCEPT ![r] = "idle"] /\ UNCHANGED last
    BY <1>3 DEF Deploy
  <2>2. CASE UNCHANGED cluster
    BY <2>1, <2>2 DEF TypeOK, Deletable
  <2>3. CASE Uninstalled
    BY <2>3 DEF Uninstalled, Deletable, NoRelease
  <2>4. CASE \E how \in {"deployed", "failed"} : release' = [release EXCEPT !.status = how]
    <3>1. Deletable' = Deletable /\ release'.revision = release.revision
      BY <2>4 DEF TypeOK, Releases, Deletable
    <3> QED BY <2>1, <3>1 DEF TypeOK
  <2> QED BY <1>3, <2>2, <2>3, <2>4 DEF Deploy
<1>4. CASE Read(r)
  <2>1. UNCHANGED <<crds, release>>
    BY <1>4 DEF Read
  <2>2. CASE last' = [last EXCEPT ![r] = release] /\ pc' = [pc EXCEPT ![r] = "annotate"]
    <3>1. last'[r] = release /\ \A q \in Runs \ {r} : last'[q] = last[q] /\ pc'[q] = pc[q]
      BY <2>2 DEF TypeOK
    <3>2. pc'[r] = "annotate"
      BY <2>2 DEF TypeOK
    <3> QED BY <2>1, <3>1, <3>2 DEF Deletable
  <2>3. CASE /\ Deletable = {}
             /\ pc' = [pc EXCEPT ![r] = "remove"]
             /\ UNCHANGED last
    BY <2>1, <2>3 DEF TypeOK, Deletable
  <2>4. CASE pc' = [pc EXCEPT ![r] = "idle"] /\ UNCHANGED last
    BY <2>1, <2>4 DEF TypeOK, Deletable
  <2> QED BY <1>4, <2>2, <2>3, <2>4 DEF Read
<1>5. CASE Annotate(r)
  <2>1. last[r] \in Releases
    BY DEF TypeOK
  <2>2. CASE release' = Annotated(last[r])
    BY <2>1, <2>2, AnnotatedRemovesNothing DEF Deletable
  <2>3. CASE release.revision # last[r].revision /\ UNCHANGED release
    BY <1>5, <2>3 DEF Annotate, Deletable
  <2> QED BY <1>5, <2>2, <2>3 DEF Annotate, Undisturbed
<1>6. CASE Remove(r)
  <2>1. Deletable = {}
    BY <1>6 DEF Remove
  <2>2. CASE Uninstalled
    BY <2>2 DEF Uninstalled, Deletable, NoRelease
  <2>3. CASE UNCHANGED cluster \/ release' = [release EXCEPT !.status = "uninstalling"]
    BY <2>1, <2>3 DEF TypeOK, Releases, Deletable
  <2> QED BY <1>6, <2>2, <2>3 DEF Remove
<1> QED
  BY <1>1, <1>2, <1>3, <1>4, <1>5, <1>6 DEF Command

LEMMA StepKeeps ==
    ASSUME HelmReleaseAssumption, Undisturbed, ReleaseInv, [Next]_vars
    PROVE  ReleaseInv'
<1>1. TypeOK'
  BY StepType DEF ReleaseInv
<1>2. CASE UNCHANGED vars
  BY <1>1, <1>2 DEF ReleaseInv, Deletable, vars, cluster, local, reads
<1>3. CASE Helm     \* between the runs, when the invariant says no more than the types
  BY <1>1, <1>3 DEF Helm, Undisturbed, local, reads, ReleaseInv, Idle
<1>4. CASE Administrator
  BY <1>1, <1>4 DEF ReleaseInv, Administrator, Deletable, local, reads
<1> QED BY <1>1, <1>2, <1>3, <1>4, CommandKeeps DEF Next

\* Without interference every run of uninstall removes a release whose CRDs are all kept
\* (uninstall.go:149-155).
THEOREM ReleaseInvariant ==
    ASSUME Undisturbed
    PROVE  Spec => []ReleaseInv
<1>1. Init => ReleaseInv
  BY ReleaseInit, HelmReleaseAssumption
<1>2. ReleaseInv /\ [Next]_vars => ReleaseInv'
  BY StepKeeps, HelmReleaseAssumption
<1> QED BY <1>1, <1>2, PTL DEF Spec

\* What a step of a run may leave of a CRD in the cluster (applycrd.go:28-37).
Left(r, c) ==
    \/ crds'[c] = crds[c]
    \/ /\ pc[r] = "crds" /\ c \notin originalCRDs[r]
       /\ crds'[c] = Merged(crds[c])

\* A step of a run leaves every CRD of the cluster, and as it is unless CreateCRDs meets one
\* that came after FetchResources found none.
LEMMA CommandTouchesNone ==
    ASSUME ReleaseInv, NEW r \in Runs, Command(r), NEW c \in Present
    PROVE  Left(r, c)
<1> USE DEF cluster, Left
<1>1. CASE CreateCRDs(r)
  BY <1>1 DEF CreateCRDs, Present
<1>2. CASE Install(r)
  BY <1>2, WithNone DEF Install, ManifestCrds, ReleaseInv
<1>3. CASE Deploy(r)
  <2>1. Deletable = {}
    BY <1>3 DEF Deploy, ReleaseInv
  <2> QED BY <1>3, <2>1, WithNone DEF Deploy, Uninstalled, ReleaseInv
<1>4. CASE Remove(r)
  <2>1. Deletable = {}
    BY <1>4 DEF Remove, ReleaseInv
  <2>2. \A deleted \in SUBSET Deletable : With(deleted, Absent) = crds
    BY <2>1, WithNone DEF ReleaseInv
  <2> QED BY <1>4, <2>1, <2>2, WithNone DEF Remove, Uninstalled, ReleaseInv
<1> QED
  BY <1>1, <1>2, <1>3, <1>4
  DEF Command, StartInstall, Fetch, Refuse, StartUninstall, Read, Annotate, Kill

\* "It will not delete any of the cert-manager CRDs even if they were installed as part of
\* the Helm release" (uninstall.go:63-64), if nothing interferes.
THEOREM CrdsStay ==
    ASSUME Undisturbed
    PROVE  Spec => CrdsUntouched
<1>1. ReleaseInv /\ [Next]_vars =>
          [\A r \in Runs : Command(r) => \A c \in Present : Left(r, c)]_vars
  BY CommandTouchesNone
<1> QED BY <1>1, ReleaseInvariant, PTL DEF Spec, CrdsUntouched, Left

-----------------------------------------------------------------------------
\* A release of install has no CRD, nor has one that uninstall has read and is going to
\* store again.
StrippedInv ==
    /\ TypeOK
    /\ ReleaseWithoutCrds
    /\ \A r \in Runs : last[r].by = "cmctl" => last[r].crds = {}

LEMMA StrippedInit ==
    ASSUME HelmReleaseAssumption, Init
    PROVE  StrippedInv
<1>1. TypeOK
  BY ReleaseInit DEF ReleaseInv
<1> QED BY <1>1 DEF Init, StrippedInv, ReleaseWithoutCrds, NoRelease

\* Every step of a run keeps it, whatever helm does meanwhile.
LEMMA CommandStripped ==
    ASSUME HelmReleaseAssumption, StrippedInv, NEW r \in Runs, Command(r), TypeOK'
    PROVE  StrippedInv'
<1> USE DEF StrippedInv, ReleaseWithoutCrds, reads
<1>1. ASSUME release'.by = "cmctl" => release'.crds = {},
             last' = last \/ last' = [last EXCEPT ![r] = NoRelease]
      PROVE  StrippedInv'
  <2>1. \A q \in Runs : last'[q] = last[q] \/ last'[q] = NoRelease
    BY <1>1 DEF TypeOK
  <2> QED BY <1>1, <2>1 DEF NoRelease
<1>2. CASE StartInstall(r) \/ Fetch(r) \/ Refuse(r) \/ CreateCRDs(r) \/ StartUninstall(r) \/ Kill(r)
  BY <1>1, <1>2 DEF StartInstall, Fetch, Refuse, CreateCRDs, StartUninstall, Kill, cluster
<1>3. CASE Install(r)
  BY <1>1, <1>3 DEF Install, cluster, ManifestCrds
<1>4. CASE Deploy(r)
  <2>1. CASE Uninstalled
    BY <1>1, <1>4, <2>1 DEF Deploy, Uninstalled, NoRelease
  <2>2. CASE \E how \in {"deployed", "failed"} : release' = [release EXCEPT !.status = how]
    BY <1>1, <1>4, <2>2 DEF Deploy, TypeOK, Releases
  <2> QED BY <1>1, <1>4, <2>1, <2>2 DEF Deploy, cluster
<1>5. CASE Read(r)
  <2>1. UNCHANGED release
    BY <1>5 DEF Read, cluster
  <2>2. last' = last \/ last' = [last EXCEPT ![r] = release]
    BY <1>5 DEF Read
  <2>3. \A q \in Runs : last'[q] = last[q] \/ last'[q] = release
    BY <2>2 DEF TypeOK
  <2> QED BY <2>1, <2>3
<1>6. CASE Annotate(r)
  <2>1. last[r] \in Releases
    BY DEF TypeOK
  <2>2. Annotated(last[r]).by = last[r].by /\ Annotated(last[r]).crds = last[r].crds
    BY <2>1 DEF Annotated, Releases
  <2> QED BY <1>1, <1>6, <2>2 DEF Annotate
<1>7. CASE Remove(r)
  <2>1. CASE Uninstalled
    BY <1>1, <1>7, <2>1 DEF Remove, Uninstalled, NoRelease
  <2>2. CASE release' = [release EXCEPT !.status = "uninstalling"]
    BY <1>1, <1>7, <2>2 DEF Remove, TypeOK, Releases
  <2> QED BY <1>1, <1>7, <2>1, <2>2 DEF Remove, cluster
<1> QED
  BY <1>2, <1>3, <1>4, <1>5, <1>6, <1>7 DEF Command

\* What uninstall does to a release with CRDs does not concern those of install: they have
\* none, even if helm is used meanwhile and its storage fails (install.go:139-142, 267).
LEMMA StepStripped ==
    ASSUME HelmReleaseAssumption, StrippedInv, [Next]_vars
    PROVE  StrippedInv'
<1>1. TypeOK'
  BY StepType DEF StrippedInv
<1>2. CASE UNCHANGED vars
  BY <1>2 DEF StrippedInv, TypeOK, ReleaseWithoutCrds, vars, cluster, local, reads
<1>3. CASE Helm \/ Administrator
  BY <1>1, <1>3 DEF StrippedInv, ReleaseWithoutCrds, Helm, HelmUpgrades, HelmUninstalls,
                    Uninstalled, Administrator, NoRelease, local, reads
<1> QED BY <1>1, <1>2, <1>3, CommandStripped DEF Next, StrippedInv

\* "CRDs are not removed by a subsequent helm uninstall" of what install installed
\* (install.go:139-142): no release of its making has a CRD.
THEOREM InstalledWithoutCrds == Spec => []ReleaseWithoutCrds
<1>1. Init => StrippedInv
  BY StrippedInit, HelmReleaseAssumption
<1>2. StrippedInv /\ [Next]_vars => StrippedInv'
  BY StepStripped, HelmReleaseAssumption
<1>3. StrippedInv => ReleaseWithoutCrds
  BY DEF StrippedInv
<1> QED BY <1>1, <1>2, <1>3, PTL DEF Spec
=============================================================================
