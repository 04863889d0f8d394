----------------------------- MODULE MCIssuance -----------------------------
(***************************************************************************)
(* The issuance of two Certificates for TLC, with one run of `cmctl renew` *)
(* or of `cmctl status certificate` beside it.                             *)
(***************************************************************************)
EXTENDS Renew, CertificateStatus, TLC

CONSTANTS c1, c2

MCNamespaces == <<"ns1", "ns2">>
MCNsOf == c1 :> "ns1" @@ c2 :> "ns2"
MCArgLists == {<<>>, <<c1>>, <<c1, c1>>, <<c2>>}

\* To a renew only the growth of revision and attempts matters: it begins at 0.
NothingIssued == \A c \in Certs : certificate[c].revision = 0

IssuanceIdle ==
    /\ Init /\ NothingIssued
    /\ StatusInit
    /\ options = [args |-> <<>>, all |-> TRUE, selector |-> FALSE,
                  allNamespaces |-> FALSE, namespace |-> "ns1"]
    /\ issuerRef = "Issuer" /\ issuer = "other"

StartRenew ==
    /\ Init /\ NothingIssued
    /\ StatusInit /\ issuerRef = "Issuer" /\ issuer = "other"

\* An issuer that is not looked up is any, and both kinds are looked up alike.
StartStatus ==
    /\ Init
    /\ StatusInit
    /\ issuerRef = "third party" => issuer = "other"
    /\ issuerRef = "ClusterIssuer" => issuer = "acme"
    /\ options = [args |-> <<>>, all |-> TRUE, selector |-> FALSE,
                  allNamespaces |-> FALSE, namespace |-> "ns1"]

\* Beside a renew nobody looks at Orders, and Secrets and requests only serve to
\* end an issuance; a command that ended without success is over.
BesideRenew ==
    /\ ended \in {"no", "success"}
    /\ \/ \E c \in Certs : Trigger(c) \/ Edit(c) \/ Fail(c) \/ Delete(c) \/ Create(c)
       \/ created = 0 /\ Ask(c1)
       \/ WriteSecret(c1) \/ Finish(c1)

\* Beside a status only what belongs to its Certificate matters, until it is printed.
BesideStatus ==
    /\ step \notin {"printed", "failed"}
    /\ \/ Trigger(c1) \/ Ask(c1) \/ WriteSecret(c1) \/ Finish(c1) \/ Fail(c1)
       \/ Delete(c1) \/ Create(c1) \/ DeleteSecret(c1)
       \/ AcmeStep
       \/ \E r \in requests : Collect(r)

issuanceVars == <<vars, readings>>
=============================================================================
