----------------------------- MODULE MCReports -----------------------------
(***************************************************************************)
(* renew and the commands that only read and report, for TLC: a behaviour  *)
(* is one run of one of them, so that their state spaces add up.           *)
(***************************************************************************)
EXTENDS MCIssuance, Conversions, VersionChecker, Inspect

CONSTANTS v1, v2

VARIABLE cmctl  \* which command runs

APIVersions == {"v1", "v1beta1", "v1alpha3", "v1alpha2"}
Target(kind, v) == [group |-> GroupOf(kind), version |-> v]

\* Every field of every kind in every version, alone, to every version of its group.
OneField ==
    \E kind \in Kinds, from \in APIVersions :
        \E path \in Leaves(Layout[from], kind) :
            \E value \in ValuesOf(kind, from, path)
                           \cup (IF path = <<"Spec", "PrivateKey", "Algorithm">> /\ from = "v1"
                                 THEN {"Ed25519"} ELSE {}) :
                /\ documents = <<Document(kind, from, path, value)>>
                /\ outputVersion \in {Unspecified} \cup {Target(kind, v) : v \in APIVersions}
                /\ forceList = FALSE

\* No document, several, of several groups, one that is not of cert-manager; odd versions.
Mixed ==
    LET Name(kind, v) == Document(kind, v, <<"Spec", "IssuerRef", "Name">>, "a value")
        docs == {Name("Certificate", "v1alpha2"), Name("Order", "v1"),
                 Name("CertificateRequest", "v1beta1"), Document("foreign", "v1", <<>>, "")}
    IN  /\ documents \in UNION {[1..n -> docs] : n \in 0..3}
        /\ forceList \in BOOLEAN
        /\ outputVersion \in {Unspecified, Malformed, Target("Certificate", "v2"),
                              Target("Certificate", "v1alpha3"), Target("Order", "v1"),
                              [group |-> "", version |-> "v1"]}

Plain(v) == [version |-> v, helm |-> "", chart |-> ""]
LabelSets ==
    {Plain(""), Plain(v1), [version |-> "", helm |-> v1, chart |-> v2],
     [version |-> "", helm |-> "", chart |-> v2]}
Pods ==
    {[running |-> TRUE, labels |-> Plain(v1), image |-> v1],
     [running |-> TRUE, labels |-> Plain(v2), image |-> ""],
     [running |-> FALSE, labels |-> Plain(v2), image |-> v2],
     [running |-> TRUE, labels |-> Plain(""), image |-> v1]}
MCClusters ==
    {[crd |-> [name |-> n, api |-> api, labels |-> cl, webhook |-> w],
      service |-> [live |-> live, labels |-> Plain(sl)], pods |-> pods] :
        n \in {"new", "old", ""}, api \in {"v1", "v1beta1"}, cl \in LabelSets, w \in BOOLEAN,
        live \in BOOLEAN, sl \in {"", v1, v2}, pods \in UNION {[1..k -> Pods] : k \in 0..2}}

\* What the commands that do not run look like.
AnyCluster == CHOOSE inst \in Clusters : inst.crd.name = ""
NoSecretRead == certData = <<>> /\ caData = FALSE /\ crlURLs = <<>> /\ ocspURLs = <<>>
NoDocuments == documents = <<>> /\ forceList = FALSE /\ outputVersion = Unspecified

MCInit ==
    /\ ConvertIdle /\ VersionIdle /\ InspectIdle
    /\ \/ /\ cmctl = "renew"
          /\ StartRenew
          /\ NoDocuments /\ cluster = AnyCluster /\ NoSecretRead
       \/ /\ cmctl = "status"
          /\ StartStatus
          /\ NoDocuments /\ cluster = AnyCluster /\ NoSecretRead
       \/ /\ cmctl = "convert"
          /\ IssuanceIdle
          /\ OneField \/ Mixed
          /\ cluster = AnyCluster /\ NoSecretRead
       \/ /\ cmctl = "version"
          /\ IssuanceIdle
          /\ cluster \in Clusters
          /\ NoDocuments /\ NoSecretRead
       \/ /\ cmctl = "inspect"
          /\ IssuanceIdle
          /\ certData \in UNION {[1..n -> Blocks] : n \in 0..MaxPEMs}
          /\ caData \in BOOLEAN
          /\ crlURLs \in UNION {[1..n -> {"ldap", "https", "http", "invalid"}] : n \in 0..2}
          /\ ocspURLs \in UNION {[1..n -> {"http", "https", "invalid"}] : n \in 0..2}
          /\ NoDocuments /\ cluster = AnyCluster

Reporting == <<convertVars, versionVars, inspectVars>>

MCNext ==
    /\ \/ cmctl = "renew" /\ RenewNext /\ UNCHANGED <<readings, Reporting>>
       \/ cmctl = "renew" /\ BesideRenew /\ UNCHANGED <<command, readings, Reporting>>
       \/ cmctl = "status" /\ StatusNext /\ UNCHANGED <<command, Reporting>>
       \/ cmctl = "status" /\ BesideStatus /\ UNCHANGED <<command, readings, Reporting>>
       \/ cmctl = "convert" /\ ConvertNext /\ UNCHANGED <<issuanceVars, versionVars, inspectVars>>
       \/ cmctl = "version" /\ VersionNext /\ UNCHANGED <<issuanceVars, convertVars, inspectVars>>
       \/ cmctl = "version" /\ Upgrade /\ UNCHANGED <<issuanceVars, convertVars, inspectVars>>
       \/ cmctl = "inspect" /\ InspectNext /\ UNCHANGED <<issuanceVars, convertVars, versionVars>>
    /\ UNCHANGED cmctl

MCSpec == MCInit /\ [][MCNext]_<<issuanceVars, Reporting, cmctl>>
=============================================================================
