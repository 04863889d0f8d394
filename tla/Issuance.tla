------------------------------ MODULE Issuance ------------------------------
(***************************************************************************)
(* What the API server stores about Certificates while cert-manager issues *)
(* them, as `cmctl renew` and `cmctl status certificate` meet it.  The     *)
(* controllers are not part of this repository: they are modelled from     *)
(* what the two commands read and rely on.                                 *)
(***************************************************************************)
EXTENDS Naturals, FiniteSets

CONSTANTS
    Certs,        \* the names of the Certificates, each in one namespace
    Revisions,    \* how often they may have been issued before
    MaxVersion,   \* bound: writes to a Certificate by users and controllers
    MaxRequests   \* bound: CertificateRequests ever created

ASSUME IssuanceAssumption ==
    Revisions \subseteq Nat /\ MaxVersion \in Nat /\ MaxRequests \in Nat

VARIABLES
    certificate,  \* name -> the Certificate
    secret,       \* name -> what its Secret holds
    requests,     \* the CertificateRequests
    created,      \* how many CertificateRequests were ever created
    orders,       \* the ACME Orders
    challenges    \* the Orders that have a Challenge

world == <<certificate, secret, requests, created, orders, challenges>>

(***************************************************************************)
(* uid tells a Certificate from an earlier one of the same name; version   *)
(* is metadata.resourceVersion; issuing is the condition Issuing, revision *)
(* and attempts (issuances that ended) are in the status.                  *)
(***************************************************************************)
Certificate ==
    [name : Certs, live : BOOLEAN, uid : Nat, version : Nat,
     issuing : BOOLEAN, revision : Nat, attempts : Nat]

Fresh(c, uid, version) ==
    [name |-> c, live |-> TRUE, uid |-> uid, version |-> version,
     issuing |-> FALSE, revision |-> 0, attempts |-> 0]

\* The issuance a Secret was written by: that of revision 0 wrote none.
Issue == [uid : Nat, revision : Nat]
NoSecret == [uid |-> 0, revision |-> 0]

Request == [id : Nat, owner : Certs, uid : Nat, revision : Nat]
Order == [request : Nat, nth : {1, 2}]

WorldType ==
    /\ certificate \in [Certs -> Certificate]
    /\ \A c \in Certs : certificate[c].name = c
    /\ secret \in [Certs -> Issue]
    /\ requests \subseteq Request
    /\ created \in Nat
    /\ orders \subseteq Order
    /\ challenges \subseteq Order

\* A Certificate that has been issued n times, and its Secret.
Issued(c, n) == [Fresh(c, 1, 1) EXCEPT !.revision = n, !.attempts = n]
IssuedSecret(n) == IF n = 0 THEN NoSecret ELSE [uid |-> 1, revision |-> n]

WorldInit ==
    /\ \E n \in Revisions :
          /\ certificate = [c \in Certs |-> Issued(c, n)]
          /\ secret = [c \in Certs |-> IssuedSecret(n)]
    /\ requests = {}
    /\ created = 0
    /\ orders = {}
    /\ challenges = {}

-----------------------------------------------------------------------------
OwnedBy(crt) == {r \in requests : r.owner = crt.name /\ r.uid = crt.uid}

NextRequests(crt) == {r \in OwnedBy(crt) : r.revision = crt.revision + 1}

\* A write to a Certificate: the API server gives it a new resourceVersion.
Written(crt) == certificate' = [certificate EXCEPT ![crt.name] =
                                  [crt EXCEPT !.version = certificate[crt.name].version + 1]]

\* Optimistic concurrency: an update is taken for the version it was made from.
Accepts(crt) ==
    /\ certificate[crt.name].live
    /\ crt.uid = certificate[crt.name].uid
    /\ crt.version = certificate[crt.name].version

MayWrite(c) == certificate[c].live /\ certificate[c].version < MaxVersion

\* The trigger controller finds that the Certificate must be issued.
Trigger(c) ==
    /\ MayWrite(c)
    /\ ~certificate[c].issuing
    /\ Written([certificate[c] EXCEPT !.issuing = TRUE])
    /\ UNCHANGED <<secret, requests, created, orders, challenges>>

\* Users change the spec, controllers other conditions.
Edit(c) ==
    /\ MayWrite(c)
    /\ Written(certificate[c])
    /\ UNCHANGED <<secret, requests, created, orders, challenges>>

\* A request for the next revision; a second one comes from a stale cache or a user.
Ask(c) ==
    /\ certificate[c].live
    /\ certificate[c].issuing
    /\ created < MaxRequests
    /\ requests' = requests \cup
         {[id |-> created + 1, owner |-> c, uid |-> certificate[c].uid,
           revision |-> certificate[c].revision + 1]}
    /\ created' = created + 1
    /\ UNCHANGED <<certificate, secret, orders, challenges>>

\* The ACME issuer works on a request by an Order and Challenges.
AcmeStep ==
    /\ \/ \E r \in requests, n \in {1, 2} :
             /\ orders' = orders \cup {[request |-> r.id, nth |-> n]}
             /\ UNCHANGED challenges
       \/ \E o \in orders : challenges' = challenges \cup {o} /\ UNCHANGED orders
       \/ \E o \in challenges : challenges' = challenges \ {o} /\ UNCHANGED orders
    /\ UNCHANGED <<certificate, secret, requests, created>>

\* The signed certificate is written to the Secret before the Certificate tells it.
WriteSecret(c) ==
    /\ certificate[c].live
    /\ certificate[c].issuing
    /\ NextRequests(certificate[c]) # {}
    /\ secret' = [secret EXCEPT ![c] =
         [uid |-> certificate[c].uid, revision |-> certificate[c].revision + 1]]
    /\ UNCHANGED <<certificate, requests, created, orders, challenges>>

Finish(c) ==
    /\ MayWrite(c)
    /\ certificate[c].issuing
    /\ secret[c] = [uid |-> certificate[c].uid, revision |-> certificate[c].revision + 1]
    /\ Written([certificate[c] EXCEPT !.issuing = FALSE, !.revision = @ + 1,
                                      !.attempts = @ + 1])
    /\ UNCHANGED <<secret, requests, created, orders, challenges>>

Fail(c) ==
    /\ MayWrite(c)
    /\ certificate[c].issuing
    /\ Written([certificate[c] EXCEPT !.issuing = FALSE, !.attempts = @ + 1])
    /\ UNCHANGED <<secret, requests, created, orders, challenges>>

\* A user deletes a Certificate, or creates one of that name again.
Delete(c) ==
    /\ certificate[c].live
    /\ certificate' = [certificate EXCEPT ![c].live = FALSE]
    /\ UNCHANGED <<secret, requests, created, orders, challenges>>

Create(c) ==
    /\ ~certificate[c].live
    /\ certificate[c].version < MaxVersion
    /\ certificate' = [certificate EXCEPT ![c] = Fresh(c, @.uid + 1, @.version + 1)]
    /\ UNCHANGED <<secret, requests, created, orders, challenges>>

\* Requests of earlier revisions and of deleted Certificates are removed, with what they own.
Collect(r) ==
    /\ r \in requests
    /\ LET crt == certificate[r.owner]
       IN  ~crt.live \/ crt.uid # r.uid \/ r.revision <= crt.revision
    /\ requests' = requests \ {r}
    /\ orders' = {o \in orders : o.request # r.id}
    /\ challenges' = {o \in challenges : o.request # r.id}
    /\ UNCHANGED <<certificate, secret, created>>

DeleteSecret(c) ==
    /\ secret[c] # NoSecret
    /\ secret' = [secret EXCEPT ![c] = NoSecret]
    /\ UNCHANGED <<certificate, requests, created, orders, challenges>>

WorldNext ==
    \/ \E c \in Certs :
          Trigger(c) \/ Edit(c) \/ Ask(c) \/ WriteSecret(c) \/ Finish(c) \/ Fail(c)
            \/ Delete(c) \/ Create(c) \/ DeleteSecret(c)
    \/ \E r \in requests : Collect(r)
    \/ AcmeStep
=============================================================================
