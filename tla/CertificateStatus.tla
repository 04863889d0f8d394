------------------------- MODULE CertificateStatus -------------------------
(***************************************************************************)
(* `cmctl status certificate` (pkg/status/certificate): reads a            *)
(* Certificate and then, one call after the other, what belongs to it,     *)
(* while cert-manager issues it.  What is missing or cannot be read is     *)
(* said in the report; only some of the failures end the command.          *)
(***************************************************************************)
EXTENDS Issuance, Sequences

CONSTANT Subject   \* the Certificate the command is asked about

ASSUME StatusAssumption == Subject \in Certs

VARIABLES
    issuerRef,   \* what spec.issuerRef names
    issuer,      \* the issuer of that name
    step,        \* the call that comes next
    report       \* the parts of the report that are there already

readings == <<issuerRef, issuer, step, report>>
statusVars == <<world, readings>>

\* A reading is an object, or says why there is none.
Found(x) == [found |-> TRUE, what |-> x]
Lacks(why) == [found |-> FALSE, what |-> why]
NotRead == Lacks("not read")

Steps == {"certificate", "issuer", "secret", "request", "order", "challenges",
          "certificate events", "issuer events", "secret events", "request events",
          "printed", "failed"}

StatusInit ==
    /\ issuerRef \in {"Issuer", "ClusterIssuer", "third party"}
    /\ issuer \in {"acme", "other", "missing"}
    /\ step = "certificate"
    /\ report = [part \in {"certificate", "issuer", "secret", "request", "order",
                           "challenges"} |-> NotRead]

Reports(part, reading) == report' = [report EXCEPT ![part] = reading]

\* A failure that ends the command without a report.
StatusFails ==
    /\ step \notin {"printed", "failed"}
    /\ step \in {"certificate", "certificate events", "issuer events", "secret events",
                 "request events"}
    /\ step' = "failed"
    /\ UNCHANGED <<world, issuerRef, issuer, report>>

-----------------------------------------------------------------------------
GetSubject ==
    /\ step = "certificate"
    /\ certificate[Subject].live
    /\ Reports("certificate", Found(certificate[Subject]))
    /\ step' = "certificate events"
    /\ UNCHANGED <<world, issuerRef, issuer>>

\* The events are looked up for what was read, and for an empty issuer or Secret too.
SearchEvents ==
    /\ \/ step = "certificate events" /\ step' = "issuer"
       \/ step = "issuer events" /\ step' = "secret"
       \/ step = "secret events" /\ step' = "request"
       \/ step = "request events" /\ step' = "order"
    /\ UNCHANGED <<world, issuerRef, issuer, report>>

\* An issuer of another API group is not looked up; an error is kept for the report.
GetGenericIssuer ==
    /\ step = "issuer"
    /\ \/ /\ issuerRef = "third party"
          /\ Reports("issuer", Lacks("not supported"))
          /\ step' = "secret"
       \/ /\ issuerRef # "third party"
          /\ \/ issuer # "missing" /\ Reports("issuer", Found(issuer))
             \/ Reports("issuer", Lacks("error"))
          /\ step' = "issuer events"
    /\ UNCHANGED <<world, issuerRef, issuer>>

GetSecret ==
    /\ step = "secret"
    /\ \/ secret[Subject] # NoSecret /\ Reports("secret", Found(secret[Subject]))
       \/ Reports("secret", Lacks("error"))
    /\ step' = "secret events"
    /\ UNCHANGED <<world, issuerRef, issuer>>

-----------------------------------------------------------------------------
\* One match is taken, none and several are different messages.
OnlyOne(matches) ==
    IF matches = {} THEN Lacks("none found")
    ELSE IF Cardinality(matches) = 1 THEN Found(CHOOSE m \in matches : TRUE)
    ELSE Lacks("several found")

\* Variant: the current revision of the Certificate is read again for the search.
MatchesByName(crt) ==
    {r \in requests : r.owner = crt.name /\ r.revision = certificate[crt.name].revision + 1}

\* findMatchingCR: owned by the copy, of the revision that follows the copy's.
MatchingRequests(crt) ==
    {r \in requests : /\ r.revision = crt.revision + 1
                      /\ r.owner = crt.name
                      /\ r.uid = crt.uid}

FindRequest ==
    /\ step = "request"
    /\ \/ Reports("request", OnlyOne(MatchingRequests(report["certificate"].what)))
       \/ Reports("request", Lacks("error"))
    /\ step' = IF report'["request"].found THEN "request events" ELSE "printed"
    /\ UNCHANGED <<world, issuerRef, issuer>>

\* An Order is looked for only if there is a request and the issuer is an ACME one.
IsAcme == report["issuer"].found /\ report["issuer"].what = "acme"

MatchingOrders(request) == {o \in orders : o.request = request.id}

FindOrder ==
    /\ step = "order"
    /\ \/ ~IsAcme /\ step' = "printed" /\ UNCHANGED report
       \/ /\ IsAcme
          /\ \/ Reports("order", OnlyOne(MatchingOrders(report["request"].what)))
             \/ Reports("order", Lacks("error"))
          /\ step' = IF report'["order"].found THEN "challenges" ELSE "printed"
    /\ UNCHANGED <<world, issuerRef, issuer>>

FindChallenges ==
    /\ step = "challenges"
    /\ LET matches == challenges \cap {report["order"].what}
       IN  \/ matches # {} /\ Reports("challenges", Found(matches))
           \/ matches = {} /\ Reports("challenges", Lacks("none found"))
           \/ Reports("challenges", Lacks("error"))
    /\ step' = "printed"
    /\ UNCHANGED <<world, issuerRef, issuer>>

StatusNext ==
    \/ GetSubject \/ SearchEvents \/ GetGenericIssuer \/ GetSecret
    \/ FindRequest \/ FindOrder \/ FindChallenges \/ StatusFails

StatusSpec ==
    WorldInit /\ StatusInit /\ [][StatusNext \/ (WorldNext /\ UNCHANGED readings)]_statusVars

-----------------------------------------------------------------------------
(***************************************************************************)
(* The text of the key usages (types.go:395-413): the largest bit is taken *)
(* off while it fits, and the names come out in the order of the bits.     *)
(***************************************************************************)
UsageBits == <<256, 128, 64, 32, 16, 8, 4, 2, 1>>

KeyUsageBits(usage) ==
    LET Taken[i \in 0..9] ==
          IF i = 0 THEN [rest |-> usage, bits |-> <<>>]
          ELSE LET before == Taken[i - 1]
               IN  IF before.rest >= UsageBits[i]
                   THEN [rest |-> before.rest - UsageBits[i],
                         bits |-> <<UsageBits[i]>> \o before.bits]
                   ELSE before
    IN  Taken[9].bits

\* The bits of a usage, by division: the names are printed for these and no others.
ASSUME KeyUsageAssumption ==
    \A usage \in 0..511 :
        LET bits == KeyUsageBits(usage)
        IN  /\ {bits[i] : i \in DOMAIN bits} =
                 {2^i : i \in {j \in 0..8 : (usage \div 2^j) % 2 = 1}}
            /\ \A i, j \in DOMAIN bits : i < j => bits[i] < bits[j]

-----------------------------------------------------------------------------
Later(i, crt) == i.uid > crt.uid \/ (i.uid = crt.uid /\ i.revision >= crt.revision)

(***************************************************************************)
(* The parts of a report are read at different times (the TODO at          *)
(* certificate.go:194), and still fit together: a Secret of an issued      *)
(* Certificate is at least as new as the conditions printed above it, the  *)
(* request is the one that followed the revision printed, of this          *)
(* Certificate and not of an earlier one of the same name, and the Order   *)
(* and the Challenges are those of the request printed.                    *)
(***************************************************************************)
ReportFits ==
    step = "printed" =>
        LET crt == report["certificate"].what
            request == report["request"]
            order == report["order"]
        IN  /\ crt.revision > 0 /\ report["secret"].found => Later(report["secret"].what, crt)
            /\ request.found => /\ request.what.uid = crt.uid
                                /\ request.what.revision = crt.revision + 1
            /\ order.found => request.found /\ order.what.request = request.what.id
            /\ report["challenges"].found =>
                 order.found /\ \A ch \in report["challenges"].what :
                                    ch.request = request.what.id
=============================================================================
