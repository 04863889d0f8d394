------------------------------ MODULE Approval ------------------------------
(***************************************************************************)
(* `cmctl approve` (pkg/approve/approve.go) and `cmctl deny`               *)
(* (pkg/deny/deny.go): commands of several users that decide on the same   *)
(* CertificateRequest, while the controllers of cert-manager decide on it  *)
(* and sign it.  The commands share nothing but the API server.            *)
(***************************************************************************)
EXTENDS Naturals

CONSTANTS
    Users,      \* runs of the commands, each may be repeated
    MaxVersion  \* bound: writes to the request

ASSUME ApprovalAssumption == MaxVersion \in Nat

VARIABLES
    request,    \* the CertificateRequest as the API server stores it
    verdict,    \* user -> the condition its command sets
    copy,       \* user -> the request as its command read it
    pc,         \* user -> where its command is
    result      \* user -> how its last command ended

server == <<request>>
local == <<verdict, copy, pc, result>>
vars == <<server, local>>

Verdicts == {"Approved", "Denied"}

\* conditions: the condition types that are true.  version: metadata.resourceVersion.
Requests ==
    [uid : Nat, version : Nat, conditions : SUBSET Verdicts, signed : BOOLEAN]

Absent == [uid |-> 0, version |-> 0, conditions |-> {}, signed |-> FALSE]

TypeOK ==
    /\ request \in Requests
    /\ verdict \in [Users -> Verdicts]
    /\ copy \in [Users -> Requests]
    /\ pc \in [Users -> {"idle", "get", "update"}]
    /\ result \in [Users -> {"none", "invalid", "error", "success"}]

Init ==
    /\ request = Absent
    /\ verdict \in [Users -> Verdicts]
    /\ copy = [u \in Users |-> Absent]
    /\ pc = [u \in Users |-> "idle"]
    /\ result = [u \in Users |-> "none"]

Exists == request.uid # 0

-----------------------------------------------------------------------------
\* The API server: every write gets a version greater than all before it.
Stored(r) == request' = [r EXCEPT !.version = request.version + 1]

\* Variant: a patch, which the API server takes whatever the version.
AcceptsPatch(r) == Exists /\ r.uid = request.uid

\* Optimistic concurrency of an update.
Accepts(r) == Exists /\ r.uid = request.uid /\ r.version = request.version

Ends(u, how) ==
    /\ pc' = [pc EXCEPT ![u] = "idle"]
    /\ result' = [result EXCEPT ![u] = how]

\* Validate: one argument, and neither the reason nor the message is empty.
Validate(args, reason, message) == args = 1 /\ reason /\ message

\* A user runs approve or deny.
Start(u, v, args, reason, message) ==
    /\ pc[u] = "idle"
    /\ verdict' = [verdict EXCEPT ![u] = v]
    /\ copy' = [copy EXCEPT ![u] = Absent]
    /\ \/ /\ Validate(args, reason, message)
          /\ pc' = [pc EXCEPT ![u] = "get"]
          /\ result' = [result EXCEPT ![u] = "none"]
       \/ /\ ~Validate(args, reason, message)
          /\ Ends(u, "invalid")
    /\ UNCHANGED server

\* A request that fails, or whose answer is lost.
Fails(u) ==
    /\ pc[u] # "idle"
    /\ Ends(u, "error")
    /\ UNCHANGED <<server, verdict, copy>>

\* Variant: the other verdict is not looked at.
DecidedAlike(u, r) == verdict[u] \in r.conditions

\* CertificateRequestIsApproved, CertificateRequestIsDenied.
Decided(u, r) == "Approved" \in r.conditions \/ "Denied" \in r.conditions

Get(u) ==
    /\ pc[u] = "get"
    /\ copy' = [copy EXCEPT ![u] = request]
    /\ \/ /\ Exists
          /\ ~Decided(u, request)
          /\ pc' = [pc EXCEPT ![u] = "update"]
          /\ UNCHANGED result
       \/ /\ ~Exists \/ Decided(u, request)
          /\ Ends(u, "error")
    /\ UNCHANGED <<server, verdict>>

\* SetCertificateRequestCondition.
WithVerdict(u, r) == [r EXCEPT !.conditions = @ \cup {verdict[u]}]

\* Variant: the update is tried once more on the latest version.
UpdateRetries(u, answered) ==
    /\ pc[u] = "update"
    /\ request.version < MaxVersion
    /\ IF Accepts(copy[u])
       THEN Stored(WithVerdict(u, copy[u])) /\ Ends(u, "success")
       ELSE IF Exists THEN Stored(WithVerdict(u, request)) /\ Ends(u, "success")
       ELSE Ends(u, "error") /\ UNCHANGED server
    /\ UNCHANGED <<verdict, copy>>

\* UpdateStatus, answered or not.
Update(u, answered) ==
    /\ pc[u] = "update"
    /\ request.version < MaxVersion
    /\ IF Accepts(copy[u])
       THEN Stored(WithVerdict(u, copy[u])) /\ Ends(u, IF answered THEN "success" ELSE "error")
       ELSE Ends(u, "error") /\ UNCHANGED server
    /\ UNCHANGED <<verdict, copy>>

Kill(u) ==
    /\ pc[u] # "idle"
    /\ pc' = [pc EXCEPT ![u] = "idle"]
    /\ UNCHANGED <<server, verdict, copy, result>>

Command(u) ==
    \/ \E v \in Verdicts, args \in 0..2, reason, message \in BOOLEAN :
           Start(u, v, args, reason, message)
    \/ Fails(u)
    \/ Get(u)
    \/ \E answered \in BOOLEAN : Update(u, answered)
    \/ Kill(u)

\* The request is deleted, or created, perhaps under the name of one deleted.
Delete ==
    /\ Exists
    /\ Stored(Absent)
    /\ UNCHANGED local

Create ==
    /\ ~Exists
    /\ Stored([Absent EXCEPT !.uid = request.version + 1])
    /\ UNCHANGED local

\* The controllers of cert-manager: the approver decides, the issuer signs what is
\* approved; others write what is not of interest here.
Approver ==
    /\ Exists
    /\ request.conditions = {}
    /\ \E v \in Verdicts : Stored([request EXCEPT !.conditions = {v}])
    /\ UNCHANGED local

Issuer ==
    /\ Exists
    /\ "Approved" \in request.conditions
    /\ "Denied" \notin request.conditions
    /\ Stored([request EXCEPT !.signed = TRUE])
    /\ UNCHANGED local

Touch ==
    /\ Exists
    /\ Stored(request)
    /\ UNCHANGED local

Cluster ==
    /\ request.version < MaxVersion
    /\ Delete \/ Create \/ Approver \/ Issuer \/ Touch

Next == Cluster \/ \E u \in Users : Command(u)

Spec == Init /\ [][Next]_vars

-----------------------------------------------------------------------------
\* A command that reported success decided: its verdict, and no other, is on the
\* request as long as the object exists (approve.go:127-136, deny.go:127-136).
SuccessDecides ==
    \A u \in Users :
        result[u] = "success" /\ copy[u].uid = request.uid => request.conditions = {verdict[u]}

\* Of the commands that decide on one object, one reports success: a user who reads
\* "Approved" was the one who approved (approve.go:121-127, deny.go:121-127).
OneDecider ==
    \A u, v \in Users :
        result[u] = "success" /\ result[v] = "success" /\ copy[u].uid = copy[v].uid => u = v

\* A denied request is not signed: "so it may never be signed" (deny.go:62).
DeniedNeverSigned == "Denied" \in request.conditions => ~request.signed

decisionOf(r) ==
    IF r.conditions = {} THEN "none" ELSE IF "Denied" \in r.conditions THEN "Denied" ELSE "Approved"

D == INSTANCE Decision
     WITH uid <- request.uid, decision <- decisionOf(request), signed <- request.signed

\* Together the commands decide once (approve.go:116-139, deny.go:116-139).
ImplementsDecision == D!Spec

\* No request carries both conditions, and what a command read and has yet to write is
\* undecided and not newer than what the API server stores (approve.go:116-129).
DecidedOnce ==
    /\ request.conditions # Verdicts
    /\ request.signed => request.conditions = {"Approved"}
    /\ ~Exists => request.conditions = {}

CopiesOld ==
    \A u \in Users :
        /\ copy[u].version <= request.version
        /\ copy[u].uid <= copy[u].version
        /\ copy[u].uid = request.uid /\ copy[u].version = request.version => copy[u] = request
        /\ pc[u] = "update" => copy[u].uid # 0 /\ copy[u].conditions = {}
        /\ pc[u] # "idle" => result[u] = "none"
        /\ result[u] = "success" => copy[u].uid # 0

ApprovalInv ==
    /\ TypeOK
    /\ request.uid <= request.version
    /\ DecidedOnce
    /\ CopiesOld
    /\ SuccessDecides
=============================================================================
