------------------------------ MODULE Inspect ------------------------------
(***************************************************************************)
(* `cmctl inspect secret` (pkg/inspect/secret): what it finds out about    *)
(* the revocation of the first certificate of a Secret, from the servers   *)
(* the certificate names, one request after the other.                     *)
(***************************************************************************)
EXTENDS Naturals, Sequences, FiniteSets

CONSTANTS
    Blocks,   \* the kinds of PEM blocks in tls.crt
    MaxPEMs   \* bound: the blocks in tls.crt

ASSUME InspectAssumption == {"CERTIFICATE", "PRIVATE KEY"} \subseteq Blocks /\ MaxPEMs \in Nat

VARIABLES
    certData,     \* the blocks of tls.crt, in order
    caData,       \* whether the Secret has a ca.crt
    crlURLs,      \* the schemes of the CRL distribution points of the leaf
    ocspURLs,     \* the schemes of its OCSP servers
    asked,        \* what the servers have answered about it so far
    inspectStep,  \* where the command is
    crlStatus,    \* what it says of the CRLs
    ocspStatus    \* and of OCSP

inspectVars == <<certData, caData, crlURLs, ocspURLs, asked, inspectStep, crlStatus, ocspStatus>>

NotAsked == [crl |-> <<>>, ocsp |-> <<>>]

InspectIdle ==
    /\ asked = NotAsked
    /\ inspectStep = "get"
    /\ crlStatus = "-"
    /\ ocspStatus = "-"

InspectInit ==
    /\ certData \in Seq(Blocks)
    /\ caData \in BOOLEAN
    /\ crlURLs \in Seq(STRING)
    /\ ocspURLs \in Seq(STRING)
    /\ InspectIdle

-----------------------------------------------------------------------------
\* The certificates, whatever is between them: the places they are found at give their order.
splitPEMs(blocks) == {i \in DOMAIN blocks : blocks[i] = "CERTIFICATE"}

First(places) == CHOOSE i \in places : \A j \in places : i <= j
Last(places) == CHOOSE i \in places : \A j \in places : j <= i

GetTLSSecret ==
    /\ inspectStep = "get"
    /\ \/ splitPEMs(certData) # {} /\ inspectStep' = "crl"
       \/ inspectStep' = "failed"
    /\ UNCHANGED <<certData, caData, crlURLs, ocspURLs, asked, crlStatus, ocspStatus>>

SaysOfCRL(status) ==
    /\ crlStatus' = status
    /\ inspectStep' = "ocsp"

\* Variant: a CRL that lists the certificate does not end the loop over the others.
CheckEveryCRL ==
    /\ inspectStep = "crl"
    /\ LET at == Len(asked.crl) + 1
       IN  \/ /\ at <= Len(crlURLs)
              /\ \E said \in {"listed", "clean"} :
                    /\ asked' = [asked EXCEPT !.crl = Append(@, said)]
                    /\ UNCHANGED <<crlStatus, inspectStep>>
           \/ at > Len(crlURLs) /\ SaysOfCRL("Valid") /\ UNCHANGED asked
    /\ UNCHANGED <<certData, caData, crlURLs, ocspURLs, ocspStatus>>

(***************************************************************************)
(* describeCRL: the next distribution point.  Other schemes than ldap and  *)
(* https are passed over; an error, a URL that does not parse and a list   *)
(* with the certificate on it end the loop.  The HTTP client that asks has *)
(* no transport for ldap: that is always an error.                         *)
(***************************************************************************)
describeCRL ==
    /\ inspectStep = "crl"
    /\ LET at == Len(asked.crl) + 1
           Answers(said) == asked' = [asked EXCEPT !.crl = Append(@, said)]
       IN  \/ crlURLs = <<>> /\ SaysOfCRL("No CRL endpoints set") /\ UNCHANGED asked
           \/ /\ at <= Len(crlURLs)
              /\ \/ crlURLs[at] = "invalid" /\ SaysOfCRL("Invalid CRL URL") /\ UNCHANGED asked
                 \/ /\ crlURLs[at] \notin {"ldap", "https", "invalid"}
                    /\ Answers("not asked")
                    /\ UNCHANGED <<crlStatus, inspectStep>>
                 \/ /\ crlURLs[at] \in {"ldap", "https"}
                    /\ Answers("error")
                    /\ SaysOfCRL("Cannot check CRL")
                 \/ /\ crlURLs[at] = "https"
                    /\ \/ Answers("listed") /\ SaysOfCRL("Revoked")
                       \/ Answers("clean") /\ UNCHANGED <<crlStatus, inspectStep>>
           \/ /\ crlURLs # <<>>
              /\ at > Len(crlURLs)
              /\ SaysOfCRL(IF \E i \in DOMAIN crlURLs : asked.crl[i] # "not asked"
                           THEN "Valid" ELSE "No CRL endpoints we support found")
              /\ UNCHANGED asked
    /\ UNCHANGED <<certData, caData, crlURLs, ocspURLs, ocspStatus>>

SaysOfOCSP(status) ==
    /\ ocspStatus' = status
    /\ inspectStep' = "printed"

(***************************************************************************)
(* describeOCSP takes the last of ca.crt and the certificates after the    *)
(* leaf for the issuer; place 0 stands for ca.crt, which is the first.     *)
(***************************************************************************)
Intermediates == splitPEMs(certData) \ {First(splitPEMs(certData))}
Issuers == (IF caData THEN {0} ELSE {}) \cup Intermediates
issuerCert == Last(Issuers)

describeOCSP ==
    /\ inspectStep = "ocsp"
    /\ LET at == Len(asked.ocsp) + 1
           Answers(said) == asked' = [asked EXCEPT !.ocsp = Append(@, said)]
       IN  \/ /\ Issuers = {}
              /\ SaysOfOCSP("Cannot check OCSP, no issuer")
              /\ UNCHANGED asked
           \/ /\ Issuers # {}
              /\ at = 1
              /\ SaysOfOCSP("Cannot check OCSP")  \* no server, or the issuer does not parse
              /\ UNCHANGED asked
           \/ /\ Issuers # {}
              /\ at <= Len(ocspURLs)
              /\ \/ Answers("error") /\ SaysOfOCSP("Cannot check OCSP")
                 \/ /\ ocspURLs[at] \in {"http", "https"}
                    /\ \/ Answers("revoked") /\ SaysOfOCSP("Marked as revoked")
                       \/ /\ \E said \in {"good", "unknown"} : Answers(said)
                          /\ UNCHANGED <<ocspStatus, inspectStep>>
           \/ /\ Issuers # {}
              /\ at > Len(ocspURLs)
              /\ ocspURLs # <<>>
              /\ SaysOfOCSP("valid")
              /\ UNCHANGED asked
    /\ UNCHANGED <<certData, caData, crlURLs, ocspURLs, crlStatus>>

InspectNext == GetTLSSecret \/ describeCRL \/ describeOCSP

InspectSpec == InspectInit /\ [][InspectNext]_inspectVars

-----------------------------------------------------------------------------
\* The issuer of the leaf, in a chain that is in order: the next certificate, or ca.crt.
LeafIssuer ==
    IF Intermediates # {} THEN First(Intermediates) ELSE 0

(***************************************************************************)
(* What is said of the revocation (secret.go:333-387) is what the servers  *)
(* said: a revocation that was heard of is told whatever other servers say,*)
(* "Valid" means that every supported CRL was read and none has the        *)
(* certificate, "valid" that every OCSP server answered, about the leaf    *)
(* and its own issuer as long as the chain has one intermediate at most.   *)
(***************************************************************************)
RevocationReported ==
    inspectStep = "printed" =>
        /\ (\E i \in DOMAIN asked.crl : asked.crl[i] = "listed") <=> crlStatus = "Revoked"
        /\ crlStatus = "Valid" =>
             /\ Len(asked.crl) = Len(crlURLs)
             /\ \A i \in DOMAIN crlURLs :
                    /\ crlURLs[i] # "ldap"
                    /\ asked.crl[i] = IF crlURLs[i] = "https" THEN "clean" ELSE "not asked"
             /\ \E i \in DOMAIN crlURLs : asked.crl[i] = "clean"
        /\ (\E i \in DOMAIN asked.ocsp : asked.ocsp[i] = "revoked")
             <=> ocspStatus = "Marked as revoked"
        /\ ocspStatus = "valid" =>
             /\ ocspURLs # <<>>
             /\ Len(asked.ocsp) = Len(ocspURLs)
             /\ \A i \in DOMAIN ocspURLs : asked.ocsp[i] \in {"good", "unknown"}
             /\ Cardinality(Intermediates) <= 1 => issuerCert = LeafIssuer
=============================================================================
