--------------------------- MODULE VersionChecker ---------------------------
(***************************************************************************)
(* The version of cert-manager that `cmctl version` reports                *)
(* (internal/versionchecker): from the labels of a CRD, of the service of  *)
(* its conversion webhook and of the running pods of that service, and     *)
(* from their images, read by one call after the other while cert-manager  *)
(* may be upgraded.                                                        *)
(***************************************************************************)
EXTENDS Naturals, Sequences, FiniteSets

CONSTANTS
    Versions,  \* the versions of cert-manager
    Clusters   \* the installations a run may find

VARIABLES
    cluster,       \* the CRD, the service and its pods
    changed,       \* whether the installation changed during the run
    lookups,       \* the CRDs that are still to be tried
    sources,       \* versionSources: where a version was found, and which
    versionStep,   \* the call that comes next
    versionError,  \* the error of the calls
    answer         \* what is reported

versionVars == <<cluster, changed, lookups, sources, versionStep, versionError, answer>>

\* "" stands for a label that is not set, or that holds no version.
Labels == [version : Versions \cup {""}, helm : Versions \cup {""}, chart : Versions \cup {""}]

(***************************************************************************)
(* crd.name is the new or the old name, or "" for none; crd.api the version*)
(* of the API it can be read by; service may be gone; an image counts if   *)
(* it is the webhook's and has a version.                                  *)
(***************************************************************************)
Cluster ==
    [crd : [name : {"new", "old", ""}, api : {"v1", "v1beta1"}, labels : Labels,
            webhook : BOOLEAN],
     service : [live : BOOLEAN, labels : Labels],
     pods : Seq([running : BOOLEAN, labels : Labels, image : Versions \cup {""}])]

ASSUME VersionAssumption == "" \notin Versions /\ Clusters \subseteq Cluster

Lookups == <<[name |-> "new", api |-> "v1"], [name |-> "new", api |-> "v1beta1"],
             [name |-> "old", api |-> "v1"], [name |-> "old", api |-> "v1beta1"]>>

NoAnswer == [detected |-> "", error |-> "none"]

VersionIdle ==
    /\ changed = FALSE
    /\ lookups = Lookups
    /\ sources = [place \in {} |-> ""]
    /\ versionStep = "crd"
    /\ versionError = "none"
    /\ answer = NoAnswer

VersionInit == cluster \in Clusters /\ VersionIdle

-----------------------------------------------------------------------------
\* The label of the version comes before those of the chart.
extractVersionFromLabels(labels) ==
    IF labels.version # "" THEN labels.version
    ELSE IF labels.helm # "" THEN labels.helm
    ELSE labels.chart

With(found, place, version) ==
    IF version = "" THEN found
    ELSE [p \in DOMAIN found \cup {place} |-> IF p = place THEN version ELSE found[p]]

Determined(error) ==
    /\ versionError' = error
    /\ versionStep' = "determine"

extractVersionFromCrd ==
    /\ versionStep = "crd"
    /\ lookups # <<>>
    /\ \/ /\ cluster.crd.name = Head(lookups).name
          /\ cluster.crd.api = Head(lookups).api
          /\ sources' = With(sources, "crdLabelVersion",
                             extractVersionFromLabels(cluster.crd.labels))
          /\ \/ cluster.crd.webhook /\ versionStep' = "service" /\ UNCHANGED versionError
             \/ ~cluster.crd.webhook /\ Determined("none")
          /\ UNCHANGED lookups
       \/ /\ \/ cluster.crd.name # Head(lookups).name
             \/ cluster.crd.api # Head(lookups).api
          /\ lookups' = Tail(lookups)
          /\ \/ Tail(lookups) # <<>> /\ UNCHANGED <<versionStep, versionError>>
             \/ Tail(lookups) = <<>> /\ Determined("CRDs not found")
          /\ UNCHANGED sources
       \/ Determined("call failed") /\ UNCHANGED <<lookups, sources>>
    /\ UNCHANGED <<cluster, changed, answer>>

extractVersionFromService ==
    /\ versionStep = "service"
    /\ \/ /\ cluster.service.live
          /\ sources' = With(sources, "webhookServiceLabelVersion",
                             extractVersionFromLabels(cluster.service.labels))
          /\ versionStep' = "pods"
          /\ UNCHANGED versionError
       \/ Determined("call failed") /\ UNCHANGED sources
    /\ UNCHANGED <<cluster, changed, lookups, answer>>

\* Variant: pods that ended or do not run yet count as well.
AnyPods(pods) == DOMAIN pods

\* The places of the running pods in the list of the pods of the service.
RunningPods(pods) == {i \in DOMAIN pods : pods[i].running}

\* The pods are gone through up to the first whose image tells the version; a label overwrites.
ReadPods(found, pods) ==
    LET imaged == {i \in RunningPods(pods) : pods[i].image # ""}
        read == {i \in RunningPods(pods) : \A j \in imaged : i <= j}
        labelled == {i \in read : extractVersionFromLabels(pods[i].labels) # ""}
        label == IF labelled = {} THEN ""
                 ELSE extractVersionFromLabels(
                          pods[CHOOSE i \in labelled : \A j \in labelled : j <= i].labels)
        image == IF imaged = {} THEN ""
                 ELSE pods[CHOOSE i \in imaged : \A j \in imaged : i <= j].image
    IN  With(With(found, "webhookPodLabelVersion", label), "webhookPodImageVersion", image)

ListPods ==
    /\ versionStep = "pods"
    /\ \/ sources' = ReadPods(sources, cluster.pods) /\ Determined("none")
       \/ Determined("call failed") /\ UNCHANGED sources
    /\ UNCHANGED <<cluster, changed, lookups, answer>>

\* One version if all the sources have it; an error of the calls comes with it.
determineVersion ==
    /\ versionStep = "determine"
    /\ LET found == {sources[place] : place \in DOMAIN sources}
       IN  answer' = CASE found = {} -> [detected |-> "", error |-> "not detected"]
                       [] Cardinality(found) > 1 -> [detected |-> "", error |-> "multiple"]
                       [] OTHER -> [detected |-> CHOOSE v \in found : TRUE,
                                    error |-> versionError]
    /\ versionStep' = "reported"
    /\ UNCHANGED <<cluster, changed, lookups, sources, versionError>>

\* An upgrade changes the parts of the installation one after the other.
Upgrade ==
    /\ versionStep # "reported"
    /\ \E v \in Versions :
          LET labels == [version |-> v, helm |-> "", chart |-> ""]
          IN  \/ cluster' = [cluster EXCEPT !.crd.labels = labels]
              \/ cluster' = [cluster EXCEPT !.service.labels = labels]
              \/ \E i \in DOMAIN cluster.pods :
                    cluster' = [cluster EXCEPT !.pods[i].labels = labels, !.pods[i].image = v]
    /\ changed' = TRUE
    /\ UNCHANGED <<lookups, sources, versionStep, versionError, answer>>

VersionNext ==
    extractVersionFromCrd \/ extractVersionFromService \/ ListPods \/ determineVersion

VersionSpec == VersionInit /\ [][VersionNext \/ Upgrade]_versionVars

-----------------------------------------------------------------------------
RunsOf(pods) == {pods[i] : i \in {j \in DOMAIN pods : pods[j].running}}

\* The versions an installation shows, wherever it shows them.
Shown(inst) ==
    (IF inst.crd.name = "" THEN {} ELSE
        {extractVersionFromLabels(inst.crd.labels)} \cup
        (IF ~inst.crd.webhook THEN {} ELSE
            {extractVersionFromLabels(inst.service.labels)} \cup
            UNION {{extractVersionFromLabels(pod.labels), pod.image} : pod \in RunsOf(inst.pods)}))
      \ {""}

(***************************************************************************)
(* The report (versionchecker.go:105-158) is right about an installation   *)
(* that stands still and whose running pods are alike: the version that    *)
(* all its parts show, an error if they show several or none.  A version   *)
(* without an error is one every call agreed on, an upgrade or not.        *)
(***************************************************************************)
VersionReported ==
    versionStep = "reported" =>
        /\ answer.error = "none" =>
             /\ answer.detected # ""
             /\ versionError = "none"
             /\ {sources[place] : place \in DOMAIN sources} = {answer.detected}
        /\ ~changed /\ Cardinality(RunsOf(cluster.pods)) <= 1 /\ versionError # "call failed" =>
             CASE Shown(cluster) = {} -> answer.error = "not detected"
               [] Cardinality(Shown(cluster)) > 1 -> answer.error = "multiple"
               [] OTHER -> answer.detected \in Shown(cluster) /\ answer.error = "none"
=============================================================================
