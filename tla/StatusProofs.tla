---------------------------- MODULE StatusProofs ----------------------------
(***************************************************************************)
(* Proofs about CertificateStatus, for any Certificates, requests, Orders  *)
(* and Challenges, and any number of writes while the report is made.      *)
(***************************************************************************)
EXTENDS CertificateStatus, TLAPS

Parts == {"certificate", "issuer", "secret", "request", "order", "challenges"}

\* A Certificate is created again with a later uid; until then no revision is lost.
NotBefore(crt, now) ==
    /\ crt.uid <= now.uid
    /\ crt.uid = now.uid => crt.revision <= now.revision

\* What ReportFits says of a Secret, where there is one.
SecretFits(s, crt) == crt.revision > 0 /\ s # NoSecret => Later(s, crt)

ClusterInv ==
    /\ certificate \in [Certs -> Certificate]
    /\ secret \in [Certs -> Issue]
    /\ \A c \in Certs : certificate[c].name = c /\ SecretFits(secret[c], certificate[c])

\* The Certificate the report begins with.
Copy == report["certificate"].what

CopyInv ==
    /\ Copy \in Certificate
    /\ NotBefore(Copy, certificate[Subject])
    /\ SecretFits(secret[Subject], Copy)

\* What one part of the report says of another.
PartsInv ==
    /\ report["secret"].found => (Copy.revision > 0 => Later(report["secret"].what, Copy))
    /\ report["request"].found =>
           report["request"].what.uid = Copy.uid
             /\ report["request"].what.revision = Copy.revision + 1
    /\ report["order"].found =>
           report["request"].found
             /\ report["order"].what.request = report["request"].what.id
    /\ report["challenges"].found =>
           report["order"].found
             /\ \A ch \in report["challenges"].what : ch.request = report["request"].what.id

\* The parts come one after the other, each at its step.
OrderInv ==
    /\ step \in Steps
    /\ DOMAIN report = Parts
    /\ step \notin {"certificate", "failed"} => CopyInv
    /\ step = "certificate" => ~report["secret"].found
    /\ report["request"].found =>
           step \in {"request events", "order", "challenges", "printed", "failed"}
    /\ step \in {"request events", "order", "challenges"} => report["request"].found
    /\ step = "challenges" => report["order"].found
    /\ report["order"].found => step \in {"challenges", "printed", "failed"}
    /\ report["challenges"].found => step \in {"printed", "failed"}

StatusInv == ClusterInv /\ OrderInv /\ PartsInv

-----------------------------------------------------------------------------
\* Not being older is transitive.
LEMMA NotBeforeKept ==
    ASSUME NEW crt \in Certificate, NEW old \in Certificate, NEW new \in Certificate,
           NotBefore(crt, old), NotBefore(old, new)
    PROVE  NotBefore(crt, new)
BY DEF NotBefore, Certificate

\* The parts of a Certificate that a write sets.
LEMMA CertificateParts ==
    ASSUME NEW crt \in Certificate, NEW b \in BOOLEAN, NEW n \in Nat, NEW m \in Nat
    PROVE  /\ [crt EXCEPT !.issuing = b] \in Certificate
           /\ [crt EXCEPT !.live = b] \in Certificate
           /\ [crt EXCEPT !.issuing = b, !.attempts = m] \in Certificate
           /\ [crt EXCEPT !.issuing = b, !.revision = n, !.attempts = m] \in Certificate
<1>1. [crt EXCEPT !.issuing = b] \in Certificate
  BY DEF Certificate
<1>2. [crt EXCEPT !.live = b] \in Certificate
  BY DEF Certificate
<1>3. [crt EXCEPT !.issuing = b, !.attempts = m] \in Certificate
  BY DEF Certificate
<1>4. [crt EXCEPT !.issuing = b, !.revision = n, !.attempts = m] \in Certificate
  BY DEF Certificate
<1> QED
  BY <1>1, <1>2, <1>3, <1>4

\* A write to a Certificate changes no other one.
LEMMA WrittenOnly ==
    ASSUME ClusterInv, NEW crt \in Certificate, Written(crt)
    PROVE  /\ certificate' \in [Certs -> Certificate]
           /\ \A f \in {"name", "uid", "revision"} : certificate'[crt.name][f] = crt[f]
           /\ \A c \in Certs \ {crt.name} : certificate'[c] = certificate[c]
BY DEF ClusterInv, Certificate, Written

\* Users and cert-manager: a Certificate is not older afterwards, and no Secret is
\* older than what is known of the Certificate then.
LEMMA WorldSteps ==
    ASSUME ClusterInv, WorldNext
    PROVE  /\ ClusterInv'
           /\ \A c \in Certs :
                  /\ NotBefore(certificate[c], certificate'[c])
                  /\ \A crt \in Certificate :
                        NotBefore(crt, certificate[c]) /\ SecretFits(secret[c], crt)
                          => SecretFits(secret'[c], crt)
<1> DEFINE Keeps ==
      /\ ClusterInv'
      /\ \A c \in Certs :
             /\ NotBefore(certificate[c], certificate'[c])
             /\ \A crt \in Certificate :
                   NotBefore(crt, certificate[c]) /\ SecretFits(secret[c], crt)
                     => SecretFits(secret'[c], crt)
<1> USE DEF ClusterInv
<1>r. \A c \in Certs : NotBefore(certificate[c], certificate[c])
  BY DEF NotBefore, Certificate
<1>e. ASSUME UNCHANGED <<certificate, secret>>
      PROVE  Keeps
  BY <1>e, <1>r
<1>w. ASSUME NEW c \in Certs, NEW crt \in Certificate, Written(crt), UNCHANGED secret,
             crt.name = c, crt.uid = certificate[c].uid,
             crt.revision = certificate[c].revision
      PROVE  Keeps
  <2>1. /\ certificate' \in [Certs -> Certificate]
        /\ certificate'[c].name = c /\ certificate'[c].uid = certificate[c].uid
        /\ certificate'[c].revision = certificate[c].revision
        /\ \A b \in Certs \ {c} : certificate'[b] = certificate[b]
    BY <1>w, WrittenOnly
  <2>2. NotBefore(certificate[c], certificate'[c]) /\ SecretFits(secret'[c], certificate'[c])
    BY <1>w, <1>r, <2>1 DEF NotBefore, SecretFits, Later
  <2> QED
    BY <1>w, <1>r, <2>1, <2>2
<1>1. ASSUME NEW c \in Certs, Trigger(c)
      PROVE  Keeps
  <2> DEFINE crt == [certificate[c] EXCEPT !.issuing = TRUE]
  <2>0. certificate[c].attempts + 1 \in Nat /\ certificate[c].revision + 1 \in Nat
    BY DEF Certificate
  <2>1. crt \in Certificate
    BY <2>0, CertificateParts
  <2>2. crt.name = c /\ crt.uid = certificate[c].uid /\ crt.revision = certificate[c].revision
    BY DEF Certificate
  <2>3. Written(crt) /\ UNCHANGED secret
    BY <1>1 DEF Trigger
  <2> HIDE DEF crt
  <2> QED
    BY <1>w, <2>1, <2>2, <2>3
<1>2. ASSUME NEW c \in Certs, Edit(c)
      PROVE  Keeps
  BY <1>2, <1>w DEF Edit
<1>3. ASSUME NEW c \in Certs, Fail(c)
      PROVE  Keeps
  <2> DEFINE crt == [certificate[c] EXCEPT !.issuing = FALSE, !.attempts = @ + 1]
  <2>0. certificate[c].attempts + 1 \in Nat /\ certificate[c].revision + 1 \in Nat
    BY DEF Certificate
  <2>1. crt \in Certificate
    BY <2>0, CertificateParts
  <2>2. crt.name = c /\ crt.uid = certificate[c].uid /\ crt.revision = certificate[c].revision
    BY DEF Certificate
  <2>3. Written(crt) /\ UNCHANGED secret
    BY <1>3 DEF Fail
  <2> HIDE DEF crt
  <2> QED
    BY <1>w, <2>1, <2>2, <2>3
<1>4. ASSUME NEW c \in Certs, Finish(c)
      PROVE  Keeps
  <2> DEFINE crt == [certificate[c] EXCEPT !.issuing = FALSE, !.revision = @ + 1,
                                           !.attempts = @ + 1]
  <2>0. certificate[c].attempts + 1 \in Nat /\ certificate[c].revision + 1 \in Nat
    BY DEF Certificate
  <2>1. crt \in Certificate
    BY <2>0, CertificateParts
  <2>2. /\ crt.name = c /\ crt.uid = certificate[c].uid
        /\ crt.revision = certificate[c].revision + 1
    BY DEF Certificate
  <2>3. Written(crt) /\ UNCHANGED secret
    BY <1>4 DEF Finish
  <2>4. secret[c] = [uid |-> certificate[c].uid, revision |-> certificate[c].revision + 1]
    BY <1>4 DEF Finish
  <2> HIDE DEF crt
  <2>5. /\ certificate' \in [Certs -> Certificate]
        /\ certificate'[c].name = c /\ certificate'[c].uid = certificate[c].uid
        /\ certificate'[c].revision = certificate[c].revision + 1
        /\ \A b \in Certs \ {c} : certificate'[b] = certificate[b]
    BY <2>1, <2>2, <2>3, WrittenOnly
  <2>6. certificate[c].uid \in Nat /\ certificate[c].revision \in Nat
    BY DEF Certificate
  <2>7. NotBefore(certificate[c], certificate'[c]) /\ SecretFits(secret'[c], certificate'[c])
    BY <2>3, <2>4, <2>5, <2>6 DEF NotBefore, SecretFits, Later
  <2> QED
    BY <1>r, <2>3, <2>5, <2>7
<1>5. ASSUME NEW c \in Certs, Delete(c)
      PROVE  Keeps
  <2>1. [certificate[c] EXCEPT !.live = FALSE] \in Certificate
    BY CertificateParts
  <2>2. /\ certificate' = [certificate EXCEPT ![c] = [certificate[c] EXCEPT !.live = FALSE]]
        /\ UNCHANGED secret
    BY <1>5 DEF Delete
  <2>3. /\ certificate' \in [Certs -> Certificate]
        /\ \A b \in Certs : /\ certificate'[b].name = b
                            /\ certificate'[b].uid = certificate[b].uid
                            /\ certificate'[b].revision = certificate[b].revision
    BY <2>1, <2>2 DEF Certificate
  <2>4. \A b \in Certs : NotBefore(certificate[b], certificate'[b])
                           /\ SecretFits(secret'[b], certificate'[b])
    BY <1>r, <2>2, <2>3 DEF NotBefore, SecretFits, Later
  <2> QED
    BY <2>2, <2>3, <2>4
<1>6. ASSUME NEW c \in Certs, Create(c)
      PROVE  Keeps
  <2> DEFINE new == Fresh(c, certificate[c].uid + 1, certificate[c].version + 1)
  <2>1. new \in Certificate /\ new.name = c /\ new.uid = certificate[c].uid + 1 /\ new.revision = 0
    BY DEF Certificate, Fresh
  <2>2. certificate' = [certificate EXCEPT ![c] = new] /\ UNCHANGED secret
    BY <1>6 DEF Create
  <2> HIDE DEF new
  <2>3. NotBefore(certificate[c], new) /\ SecretFits(secret[c], new)
    BY <2>1 DEF NotBefore, SecretFits, Certificate
  <2> QED
    BY <1>r, <2>1, <2>2, <2>3
<1>7. ASSUME NEW c \in Certs, WriteSecret(c)
      PROVE  Keeps
  <2> DEFINE s == [uid |-> certificate[c].uid, revision |-> certificate[c].revision + 1]
  <2>1. s \in Issue
    BY DEF Issue, Certificate
  <2>2. secret' = [secret EXCEPT ![c] = s] /\ UNCHANGED certificate
    BY <1>7 DEF WriteSecret
  <2>3. \A crt \in Certificate : NotBefore(crt, certificate[c]) => SecretFits(s, crt)
    BY DEF NotBefore, SecretFits, Later, Certificate
  <2> HIDE DEF s
  <2> QED
    BY <1>r, <2>1, <2>2, <2>3
<1>8. ASSUME NEW c \in Certs, DeleteSecret(c)
      PROVE  Keeps
  <2>1. NoSecret \in Issue
    BY DEF Issue, NoSecret
  <2>2. secret' = [secret EXCEPT ![c] = NoSecret] /\ UNCHANGED certificate
    BY <1>8 DEF DeleteSecret
  <2> QED
    BY <1>r, <2>1, <2>2 DEF SecretFits
<1> HIDE DEF Keeps
<1>9. Keeps
  BY <1>e, <1>1, <1>2, <1>3, <1>4, <1>5, <1>6, <1>7, <1>8
     DEF WorldNext, Ask, AcmeStep, Collect
<1> QED
  BY <1>9 DEF Keeps

-----------------------------------------------------------------------------
\* What a search with one answer found is one of the matches (certificate.go:318-358).
LEMMA OneIsMatch ==
    ASSUME NEW matches, OnlyOne(matches).found
    PROVE  OnlyOne(matches).what \in matches
BY DEF OnlyOne, Lacks, Found

\* What is missing says so.
LEMMA FoundOrNot ==
    /\ \A x : Found(x).found /\ Found(x).what = x
    /\ \A why : ~Lacks(why).found
BY DEF Found, Lacks

\* Every step of the command keeps the report of a piece (certificate.go:136-260).
LEMMA ReportSteps ==
    ASSUME StatusInv, StatusNext
    PROVE  StatusInv'
<1> USE StatusAssumption
<1>c. ClusterInv' /\ UNCHANGED world
  BY DEF StatusInv, StatusNext, GetSubject, SearchEvents, GetGenericIssuer, GetSecret, FindRequest,
         FindOrder, FindChallenges, StatusFails, ClusterInv, world, SecretFits, Later
<1>w. UNCHANGED <<certificate, secret, requests, orders, challenges>>
  BY <1>c DEF world
<1>k. ASSUME report'["certificate"] = report["certificate"]
      PROVE  Copy' = Copy /\ (CopyInv => CopyInv')
  BY <1>k, <1>w DEF Copy, CopyInv, NotBefore, SecretFits, Later
<1>0. ASSUME UNCHANGED report, step # "certificate", step' \in Steps \ {"certificate"},
             step' # "failed" => step # "failed",
             step' \in {"request events", "order", "challenges"} => report["request"].found,
             step' # "challenges",
             report["request"].found =>
                 step' \in {"request events", "order", "challenges", "printed", "failed"},
             report["order"].found => step' \in {"challenges", "printed", "failed"},
             report["challenges"].found => step' \in {"printed", "failed"}
      PROVE  StatusInv'
  <2>1. Copy' = Copy /\ (CopyInv => CopyInv')
    BY <1>0, <1>k
  <2>2. OrderInv'
    BY <1>0, <2>1 DEF StatusInv, OrderInv
  <2>3. PartsInv'
    BY <1>0, <2>1 DEF StatusInv, PartsInv, Later
  <2> QED
    BY <1>c, <2>2, <2>3 DEF StatusInv
<1>1. CASE GetSubject
  <2>1. /\ report' = [report EXCEPT !["certificate"] = Found(certificate[Subject])]
        /\ step = "certificate" /\ step' = "certificate events"
    BY <1>1 DEF GetSubject, Reports
  <2>2. /\ DOMAIN report' = Parts /\ Copy' = certificate[Subject]
        /\ \A p \in Parts \ {"certificate"} : report'[p] = report[p]
    BY <2>1, FoundOrNot DEF StatusInv, OrderInv, Parts, Copy
  <2>3. /\ ~report["secret"].found /\ ~report["request"].found
        /\ ~report["order"].found /\ ~report["challenges"].found
    BY <2>1 DEF StatusInv, OrderInv
  <2>4. CopyInv'
    BY <1>w, <2>2 DEF StatusInv, ClusterInv, CopyInv, NotBefore, SecretFits, Later, Certificate
  <2> QED
    BY <1>c, <2>1, <2>2, <2>3, <2>4 DEF StatusInv, OrderInv, PartsInv, Parts, Steps
<1>2. CASE SearchEvents
  BY <1>0, <1>2 DEF SearchEvents, Steps, StatusInv, OrderInv
<1>3. CASE GetGenericIssuer
  <2>1. PICK x : report' = [report EXCEPT !["issuer"] = x]
    BY <1>3 DEF GetGenericIssuer, Reports
  <2>2. /\ DOMAIN report' = Parts /\ step = "issuer" /\ step' \in {"secret", "issuer events"}
        /\ \A p \in Parts \ {"issuer"} : report'[p] = report[p]
    BY <1>3, <2>1 DEF StatusInv, OrderInv, Parts, GetGenericIssuer
  <2>3. Copy' = Copy /\ (CopyInv => CopyInv')
    BY <1>k, <2>2 DEF Parts
  <2>4. OrderInv' /\ PartsInv'
    BY <2>2, <2>3 DEF StatusInv, OrderInv, PartsInv, Parts, Steps, Later
  <2> QED
    BY <1>c, <2>4 DEF StatusInv
<1>4. CASE GetSecret
  <2>1. PICK x : /\ report' = [report EXCEPT !["secret"] = x]
                 /\ x.found => x.what = secret[Subject] /\ secret[Subject] # NoSecret
    BY <1>4, FoundOrNot DEF GetSecret, Reports
  <2>2. /\ DOMAIN report' = Parts /\ step = "secret" /\ step' = "secret events"
        /\ report'["secret"] = x
        /\ \A p \in Parts \ {"secret"} : report'[p] = report[p]
    BY <1>4, <2>1 DEF StatusInv, OrderInv, Parts, GetSecret
  <2>3. Copy' = Copy /\ CopyInv /\ CopyInv'
    BY <1>k, <2>2 DEF StatusInv, OrderInv, Parts
  <2>4. x.found => (Copy.revision > 0 => Later(x.what, Copy))
    BY <2>1, <2>3 DEF CopyInv, SecretFits
  <2>5. OrderInv'
    BY <2>2, <2>3 DEF StatusInv, OrderInv, Parts, Steps
  <2>6. PartsInv'
    BY <2>2, <2>3, <2>4 DEF StatusInv, PartsInv, Parts, Later
  <2> QED
    BY <1>c, <2>5, <2>6 DEF StatusInv
<1>5. CASE FindRequest
  <2>1. PICK x : /\ report' = [report EXCEPT !["request"] = x]
                 /\ x.found => x.what \in MatchingRequests(Copy)
    BY <1>5, FoundOrNot, OneIsMatch DEF FindRequest, Reports, Copy
  <2>2. /\ DOMAIN report' = Parts /\ step = "request"
        /\ step' = IF x.found THEN "request events" ELSE "printed"
        /\ report'["request"] = x
        /\ \A p \in Parts \ {"request"} : report'[p] = report[p]
    BY <1>5, <2>1 DEF StatusInv, OrderInv, Parts, FindRequest
  <2>3. Copy' = Copy /\ CopyInv'
    BY <1>k, <2>2 DEF StatusInv, OrderInv, Parts
  <2>4. x.found => x.what.uid = Copy.uid /\ x.what.revision = Copy.revision + 1
    BY <2>1 DEF MatchingRequests
  <2>5. ~report["order"].found /\ ~report["challenges"].found
    BY <2>2 DEF StatusInv, OrderInv
  <2>6. OrderInv'
    BY <2>2, <2>3, <2>5 DEF StatusInv, OrderInv, Parts, Steps
  <2>7. PartsInv'
    BY <2>2, <2>3, <2>4, <2>5 DEF StatusInv, PartsInv, Parts, Later
  <2> QED
    BY <1>c, <2>6, <2>7 DEF StatusInv
<1>6. CASE FindOrder
  <2>1. CASE UNCHANGED report /\ step' = "printed"
    BY <1>0, <1>6, <2>1 DEF FindOrder, Steps
  <2>2. CASE ~(UNCHANGED report /\ step' = "printed")
    <3>1. PICK x : /\ report' = [report EXCEPT !["order"] = x]
                   /\ x.found => x.what \in MatchingOrders(report["request"].what)
      BY <1>6, <2>2, FoundOrNot, OneIsMatch DEF FindOrder, Reports
    <3>2. /\ DOMAIN report' = Parts /\ step = "order"
          /\ step' = IF x.found THEN "challenges" ELSE "printed"
          /\ report'["order"] = x
          /\ \A p \in Parts \ {"order"} : report'[p] = report[p]
      BY <1>6, <2>2, <3>1 DEF StatusInv, OrderInv, Parts, FindOrder
    <3>3. Copy' = Copy /\ CopyInv'
      BY <1>k, <3>2 DEF StatusInv, OrderInv, Parts
    <3>4. /\ ~report["challenges"].found /\ report["request"].found
          /\ x.found => x.what.request = report["request"].what.id
      BY <3>1, <3>2 DEF StatusInv, OrderInv, MatchingOrders
    <3>5. OrderInv'
      BY <3>2, <3>3, <3>4 DEF StatusInv, OrderInv, Parts, Steps
    <3>6. PartsInv'
      BY <3>2, <3>3, <3>4 DEF StatusInv, PartsInv, Parts, Later
    <3> QED
      BY <1>c, <3>5, <3>6 DEF StatusInv
  <2> QED
    BY <2>1, <2>2
<1>7. CASE FindChallenges
  <2>1. PICK x : /\ report' = [report EXCEPT !["challenges"] = x]
                 /\ x.found => x.what = challenges \cap {report["order"].what}
    BY <1>7, FoundOrNot DEF FindChallenges, Reports
  <2>2. /\ DOMAIN report' = Parts /\ step = "challenges" /\ step' = "printed"
        /\ report'["challenges"] = x
        /\ \A p \in Parts \ {"challenges"} : report'[p] = report[p]
    BY <1>7, <2>1 DEF StatusInv, OrderInv, Parts, FindChallenges
  <2>3. Copy' = Copy /\ CopyInv'
    BY <1>k, <2>2 DEF StatusInv, OrderInv, Parts
  <2>4. /\ report["order"].found
        /\ x.found => \A ch \in x.what : ch.request = report["request"].what.id
    BY <2>1, <2>2 DEF StatusInv, OrderInv, PartsInv
  <2>5. OrderInv'
    BY <2>2, <2>3, <2>4 DEF StatusInv, OrderInv, Parts, Steps
  <2>6. PartsInv'
    BY <2>2, <2>3, <2>4 DEF StatusInv, PartsInv, Parts, Later
  <2> QED
    BY <1>c, <2>5, <2>6 DEF StatusInv
<1>8. CASE StatusFails
  <2>1. /\ UNCHANGED report /\ step' = "failed"
        /\ step \in {"certificate", "certificate events", "issuer events", "secret events",
                     "request events"}
    BY <1>8 DEF StatusFails
  <2>2. Copy' = Copy
    BY <2>1 DEF Copy
  <2>3. OrderInv' /\ PartsInv'
    BY <2>1, <2>2 DEF StatusInv, OrderInv, PartsInv, Steps, Later
  <2> QED
    BY <1>c, <2>3 DEF StatusInv
<1> QED
  BY <1>1, <1>2, <1>3, <1>4, <1>5, <1>6, <1>7, <1>8 DEF StatusNext

\* The world may move on between two calls: what was read stays in its place
\* (certificate.go:121-214).
LEMMA StatusStep ==
    StatusInv /\ [StatusNext \/ (WorldNext /\ UNCHANGED readings)]_statusVars => StatusInv'
<1> SUFFICES ASSUME StatusInv, [StatusNext \/ (WorldNext /\ UNCHANGED readings)]_statusVars
             PROVE  StatusInv'
  OBVIOUS
<1>1. CASE StatusNext
  BY <1>1, ReportSteps
<1>2. CASE WorldNext /\ UNCHANGED readings
  <2>1. UNCHANGED <<step, report>> /\ Copy' = Copy
    BY <1>2 DEF readings, Copy
  <2>2. ClusterInv'
    BY <1>2, WorldSteps DEF StatusInv
  <2>3. ASSUME CopyInv
        PROVE  CopyInv'
    <3>1. /\ certificate[Subject] \in Certificate /\ certificate'[Subject] \in Certificate
          /\ NotBefore(certificate[Subject], certificate'[Subject])
          /\ SecretFits(secret'[Subject], Copy)
      BY <1>2, <2>2, <2>3, WorldSteps, StatusAssumption DEF StatusInv, ClusterInv, CopyInv
    <3>2. Copy \in Certificate /\ NotBefore(Copy, certificate'[Subject])
      BY <2>3, <3>1, NotBeforeKept DEF CopyInv
    <3> QED
      BY <2>1, <3>1, <3>2 DEF CopyInv, SecretFits, Later
  <2>4. OrderInv' /\ PartsInv'
    BY <2>1, <2>3 DEF StatusInv, OrderInv, PartsInv, Later
  <2> QED
    BY <2>2, <2>4 DEF StatusInv
<1>3. CASE UNCHANGED statusVars
  <2>1. UNCHANGED <<certificate, secret, step, report>> /\ Copy' = Copy
    BY <1>3 DEF statusVars, world, readings, Copy
  <2>2. ClusterInv' /\ (CopyInv => CopyInv')
    BY <2>1 DEF StatusInv, ClusterInv, CopyInv, NotBefore, SecretFits, Later
  <2>3. OrderInv' /\ PartsInv'
    BY <2>1, <2>2 DEF StatusInv, OrderInv, PartsInv, Later
  <2> QED
    BY <2>2, <2>3 DEF StatusInv
<1> QED
  BY <1>1, <1>2, <1>3

\* The parts of a report fit together, though the Certificate and what belongs to it
\* change between the calls that read them (certificate.go:121-214).
THEOREM ReportIsWhole == StatusSpec => []ReportFits
<1>1. WorldInit /\ StatusInit => StatusInv
  <2> SUFFICES ASSUME WorldInit, StatusInit
               PROVE  StatusInv
    OBVIOUS
  <2>1. ASSUME NEW n \in Revisions, NEW c \in Certs
        PROVE  /\ Issued(c, n) \in Certificate /\ Issued(c, n).name = c
               /\ Issued(c, n).uid = 1 /\ Issued(c, n).revision = n
    BY IssuanceAssumption DEF Issued, Fresh, Certificate
  <2>2. ASSUME NEW n \in Revisions
        PROVE  /\ IssuedSecret(n) \in Issue
               /\ n > 0 => IssuedSecret(n) = [uid |-> 1, revision |-> n]
    BY IssuanceAssumption DEF IssuedSecret, NoSecret, Issue
  <2>3. ClusterInv
    <3>1. PICK n \in Revisions : /\ certificate = [c \in Certs |-> Issued(c, n)]
                                 /\ secret = [c \in Certs |-> IssuedSecret(n)]
      BY DEF WorldInit
    <3>2. \A c \in Certs : SecretFits(secret[c], certificate[c])
      BY <2>1, <2>2, <3>1, IssuanceAssumption DEF SecretFits, Later
    <3> QED
      BY <2>1, <2>2, <3>1, <3>2 DEF ClusterInv
  <2>4. DOMAIN report = Parts /\ \A p \in Parts : report[p] = NotRead
    BY DEF StatusInit, Parts
  <2>5. \A p \in Parts : ~report[p].found
    BY <2>4, FoundOrNot DEF NotRead
  <2> QED
    BY <2>3, <2>4, <2>5 DEF StatusInit, StatusInv, OrderInv, PartsInv, Parts, Steps
<1>2. StatusInv => ReportFits
  BY DEF StatusInv, OrderInv, PartsInv, Copy, ReportFits
<1> QED
  BY <1>1, <1>2, StatusStep, PTL DEF StatusSpec
=============================================================================
