--------------------------- MODULE ApprovalProofs ---------------------------
(***************************************************************************)
(* Proofs about Approval, for any number of users and of writes.           *)
(***************************************************************************)
EXTENDS Approval, TLAPS

\* The initial state: no request yet (approve.go:114, deny.go:114).
LEMMA InitInv == Init => ApprovalInv
BY DEF Init, ApprovalInv, TypeOK, Requests, Absent, Verdicts, Exists, DecidedOnce, CopiesOld, SuccessDecides

\* A write by anyone else than a command keeps the invariant if it keeps the object
\* well formed (approve.go:116-129).
LEMMA WriteKeeps ==
    ASSUME ApprovalInv, NEW r \in Requests, Stored(r), UNCHANGED local,
           r.uid \in {0, request.uid, request.version + 1},
           r.conditions # Verdicts,
           r.signed => r.conditions = {"Approved"},
           r.uid = 0 => r.conditions = {},
           r.uid = request.uid /\ r.uid # 0 /\ request.conditions # {} => r.conditions = request.conditions
    PROVE  ApprovalInv'
<1> USE DEF ApprovalInv, TypeOK, Requests
<1>1. /\ request' \in Requests
      /\ request'.version = request.version + 1
      /\ request'.uid = r.uid /\ request'.conditions = r.conditions /\ request'.signed = r.signed
  BY DEF Stored
<1>2. UNCHANGED <<verdict, copy, pc, result>>
  BY DEF local
<1>3. TypeOK'
  BY <1>1, <1>2
<1>4. request'.uid <= request'.version
  BY <1>1
<1>5. DecidedOnce'
  BY <1>1 DEF DecidedOnce, Exists
<1>6. CopiesOld'
  BY <1>1, <1>2 DEF CopiesOld
<1>7. SuccessDecides'
  <2> SUFFICES ASSUME NEW u \in Users, result[u] = "success", copy[u].uid = r.uid
               PROVE  r.conditions = {verdict[u]}
    BY <1>1, <1>2 DEF SuccessDecides
  <2>1. copy[u].uid \in Nat \ {0} /\ copy[u].uid <= request.version
    BY DEF CopiesOld
  <2>2. r.uid = request.uid /\ r.uid # 0
    BY <2>1
  <2>3. request.conditions = {verdict[u]}
    BY <2>2 DEF SuccessDecides
  <2> QED
    BY <2>2, <2>3
<1> QED
  BY <1>3, <1>4, <1>5, <1>6, <1>7

\* Before the first write there is nothing but Absent (approve.go:116).
LEMMA AbsentAtFirst == ApprovalInv /\ request.version = 0 => request = Absent
<1> SUFFICES ASSUME ApprovalInv, request.version = 0
             PROVE  request = Absent
  OBVIOUS
<1>1. request \in Requests /\ request.uid = 0
  BY DEF ApprovalInv, TypeOK, Requests
<1>2. request.conditions = {} /\ request.signed = FALSE
  BY <1>1 DEF ApprovalInv, DecidedOnce, Exists, Requests
<1> QED
  BY <1>1, <1>2 DEF Requests, Absent

\* A command that only reads or ends keeps the invariant (approve.go:96-126).
LEMMA ReadKeeps ==
    ASSUME ApprovalInv, NEW u \in Users, NEW v \in Verdicts, NEW how \in {"none", "invalid", "error"},
           NEW where \in {"idle", "get", "update"}, NEW read \in {copy[u], request, Absent},
           UNCHANGED server,
           verdict' = [verdict EXCEPT ![u] = v],
           copy' = [copy EXCEPT ![u] = read],
           pc' = [pc EXCEPT ![u] = where],
           result' = [result EXCEPT ![u] = how],
           where # "idle" => how = "none",
           where = "update" => read.uid # 0 /\ read.conditions = {}
    PROVE  ApprovalInv'
<1> USE DEF ApprovalInv, TypeOK, server
<1>0. Absent \in Requests
  BY DEF Absent, Requests, Verdicts
<1>1. TypeOK'
  BY <1>0
<1>2. request.uid <= request.version /\ request' = request
  OBVIOUS
<1>3. CopiesOld'
  <2> SUFFICES ASSUME NEW w \in Users
               PROVE  CopiesOld!(w)'
    BY DEF CopiesOld
  <2>1. CASE w # u
    BY <2>1, <1>2 DEF CopiesOld
  <2>2. CASE w = u
    <3>1. copy'[w] = read /\ pc'[w] = where /\ result'[w] = how
      BY <2>2
    <3>2. /\ read.version <= request.version
          /\ read.uid <= read.version
          /\ read.uid = request.uid /\ read.version = request.version => read = request
      <4>1. CASE read = copy[u]
        BY <4>1 DEF CopiesOld
      <4>2. CASE read = request
        BY <4>2 DEF Requests
      <4>3. CASE read = Absent
        BY <4>3, AbsentAtFirst DEF Absent, Requests
      <4> QED
        BY <4>1, <4>2, <4>3
    <3> QED
      BY <3>1, <3>2, <1>2
  <2> QED
    BY <2>1, <2>2
<1>4. SuccessDecides'
  BY <1>2 DEF SuccessDecides
<1>5. DecidedOnce'
  BY <1>2 DEF DecidedOnce, Exists
<1> QED
  BY <1>1, <1>2, <1>3, <1>4, <1>5

\* An update that the API server takes decides an undecided request (approve.go:127-136).
LEMMA UpdateKeeps ==
    ASSUME ApprovalInv, NEW u \in Users, NEW how \in {"success", "error"},
           pc[u] = "update", Accepts(copy[u]), Stored(WithVerdict(u, copy[u])), Ends(u, how),
           UNCHANGED <<verdict, copy>>
    PROVE  /\ ApprovalInv'
           /\ copy[u] = request /\ request.uid # 0 /\ request.conditions = {}
           /\ request' = [request EXCEPT !.version = @ + 1, !.conditions = {verdict[u]}]
<1> USE DEF ApprovalInv, TypeOK
<1>1. copy[u] = request /\ request.uid # 0 /\ request.conditions = {} /\ request \in Requests
  BY DEF Accepts, CopiesOld, Exists
<1>2. request' = [request EXCEPT !.version = @ + 1, !.conditions = {verdict[u]}]
  BY <1>1 DEF Stored, WithVerdict, Requests
<1>3. /\ request'.uid = request.uid /\ request'.version = request.version + 1
      /\ request'.conditions = {verdict[u]} /\ request'.signed = request.signed
      /\ request' \in Requests
  <2>1. verdict[u] \in Verdicts /\ {verdict[u]} \in SUBSET Verdicts
    OBVIOUS
  <2>2. request'.version = request.version + 1 /\ request'.version \in Nat
    BY <1>1, <1>2 DEF Requests
  <2>3. request'.uid = request.uid /\ request'.conditions = {verdict[u]} /\ request'.signed = request.signed
    BY <1>1, <1>2 DEF Requests
  <2>4. request' \in Requests
    BY <1>1, <1>2, <2>1, <2>2 DEF Requests
  <2> QED
    BY <2>2, <2>3, <2>4
<1>4. ~request.signed
  <2>1. request.conditions # {"Approved"}
    BY <1>1
  <2> QED
    BY <2>1 DEF DecidedOnce
<1>5. /\ pc' = [pc EXCEPT ![u] = "idle"] /\ result' = [result EXCEPT ![u] = how]
  BY DEF Ends
<1>6. TypeOK' /\ request'.uid <= request'.version
  BY <1>3, <1>5, <1>1 DEF Requests
<1>7. DecidedOnce'
  <2>1. "Approved" # "Denied" /\ {verdict[u]} # Verdicts
    BY DEF Verdicts
  <2> QED
    BY <1>1, <1>3, <1>4, <2>1 DEF DecidedOnce, Exists
<1>8. CopiesOld'
  <2> SUFFICES ASSUME NEW w \in Users
               PROVE  CopiesOld!(w)'
    BY DEF CopiesOld
  <2>1. CopiesOld!(w)
    BY DEF CopiesOld
  <2>2. copy'[w] = copy[w] /\ copy[w] \in Requests
    OBVIOUS
  <2>3. CASE w # u
    BY <1>1, <1>3, <1>5, <2>1, <2>2, <2>3 DEF Requests
  <2>4. CASE w = u
    BY <1>1, <1>3, <1>5, <2>1, <2>2, <2>4 DEF Requests
  <2> QED
    BY <2>3, <2>4
<1>9. SuccessDecides'
  <2> SUFFICES ASSUME NEW w \in Users, result'[w] = "success", copy[w].uid = request.uid
               PROVE  verdict[w] = verdict[u]
    BY <1>3 DEF SuccessDecides
  <2>1. CASE w # u
    <3>1. request.conditions = {verdict[w]}
      BY <2>1, <1>5 DEF SuccessDecides
    <3> QED
      BY <3>1, <1>1
  <2> QED
    BY <2>1
<1> QED
  BY <1>1, <1>2, <1>6, <1>7, <1>8, <1>9

\* The invariant is kept by every step of a command (approve.go:94-139, deny.go:94-139).
LEMMA CommandKeeps ==
    ASSUME ApprovalInv, NEW u \in Users, Command(u)
    PROVE  ApprovalInv'
<1> USE DEF ApprovalInv, TypeOK
<1>1. ASSUME NEW v \in Verdicts, NEW args \in 0..2, NEW reason \in BOOLEAN, NEW message \in BOOLEAN,
             Start(u, v, args, reason, message)
      PROVE  ApprovalInv'
  <2>1. CASE Validate(args, reason, message)
    BY <1>1, <2>1, ReadKeeps DEF Start
  <2>2. CASE ~Validate(args, reason, message)
    BY <1>1, <2>2, ReadKeeps DEF Start, Ends
  <2> QED
    BY <2>1, <2>2
<1>2. CASE Fails(u)
  <2>1. copy' = [copy EXCEPT ![u] = copy[u]] /\ verdict' = [verdict EXCEPT ![u] = verdict[u]]
    BY <1>2 DEF Fails
  <2> QED
    BY <1>2, <2>1, ReadKeeps DEF Fails, Ends
<1>3. CASE Get(u)
  <2>1. verdict' = [verdict EXCEPT ![u] = verdict[u]] /\ copy' = [copy EXCEPT ![u] = request] /\ UNCHANGED server
    BY <1>3 DEF Get
  <2>2. CASE Exists /\ ~Decided(u, request)
    <3>1. pc' = [pc EXCEPT ![u] = "update"] /\ result' = [result EXCEPT ![u] = "none"]
      <4>1. pc' = [pc EXCEPT ![u] = "update"] /\ UNCHANGED result
        BY <1>3, <2>2 DEF Get
      <4>2. result[u] = "none"
        BY <1>3 DEF Get, CopiesOld
      <4> QED
        BY <4>1, <4>2
    <3>2. request.uid # 0 /\ request.conditions = {}
      BY <2>2 DEF Exists, Decided, Requests, Verdicts
    <3> QED
      BY <2>1, <3>1, <3>2, ReadKeeps
  <2>3. CASE ~Exists \/ Decided(u, request)
    BY <1>3, <2>1, <2>3, ReadKeeps DEF Get, Ends
  <2> QED
    BY <2>2, <2>3
<1>4. ASSUME NEW answered \in BOOLEAN, Update(u, answered)
      PROVE  ApprovalInv'
  <2>1. CASE Accepts(copy[u])
    BY <1>4, <2>1, UpdateKeeps DEF Update
  <2>2. CASE ~Accepts(copy[u])
    <3>1. copy' = [copy EXCEPT ![u] = copy[u]] /\ verdict' = [verdict EXCEPT ![u] = verdict[u]]
      BY <1>4 DEF Update
    <3> QED
      BY <1>4, <2>2, <3>1, ReadKeeps DEF Update, Ends
  <2> QED
    BY <2>1, <2>2
<1>5. CASE Kill(u)
  <2>1. result[u] = "none"
    BY <1>5 DEF Kill, CopiesOld
  <2>2. /\ copy' = [copy EXCEPT ![u] = copy[u]] /\ verdict' = [verdict EXCEPT ![u] = verdict[u]]
        /\ result' = [result EXCEPT ![u] = "none"]
        /\ pc' = [pc EXCEPT ![u] = "idle"] /\ UNCHANGED server
    BY <1>5, <2>1 DEF Kill
  <2> QED
    BY <2>2, ReadKeeps
<1> QED
  BY <1>1, <1>2, <1>3, <1>4, <1>5 DEF Command

\* A request just created is undecided.
LEMMA NewRequest ==
    ASSUME NEW n \in Nat
    PROVE  LET r == [Absent EXCEPT !.uid = n]
           IN  r \in Requests /\ r.uid = n /\ r.conditions = {} /\ ~r.signed
<1> DEFINE r == [Absent EXCEPT !.uid = n]
<1>1. Absent \in Requests /\ Absent.conditions = {} /\ Absent.signed = FALSE
  BY DEF Absent, Requests, Verdicts
<1>2. r \in Requests /\ r.uid = n
  BY <1>1 DEF Requests
<1>3. r.conditions = {} /\ r.signed = FALSE
  BY <1>1 DEF Requests
<1> QED
  BY <1>2, <1>3

\* The invariant is kept by every write of the cluster: none gives a request a second
\* condition or signs a request that is not approved.
LEMMA ClusterKeeps ==
    ASSUME ApprovalInv, Cluster
    PROVE  ApprovalInv'
<1> USE DEF ApprovalInv, TypeOK
<1>1. request \in Requests
  OBVIOUS
<1>2. Absent \in Requests /\ Absent.uid = 0 /\ Absent.conditions = {} /\ ~Absent.signed
  BY DEF Absent, Requests, Verdicts
<1>3. {} # Verdicts /\ \A v \in Verdicts : {v} # Verdicts /\ {v} \subseteq Verdicts
  <2>1. "Approved" # "Denied"
    OBVIOUS
  <2> QED
    BY <2>1 DEF Verdicts
<1>4. CASE Delete
  BY <1>4, <1>2, <1>3, WriteKeeps DEF Delete
<1>5. CASE Create
  <2> DEFINE r == [Absent EXCEPT !.uid = request.version + 1]
  <2>1. r \in Requests /\ r.uid = request.version + 1 /\ r.conditions = {} /\ ~r.signed
    <3>1. request.version + 1 \in Nat
      BY <1>1 DEF Requests
    <3> QED
      BY <3>1, NewRequest
  <2>2. Stored(r) /\ UNCHANGED local
    BY <1>5 DEF Create
  <2>3. request.uid # request.version + 1
    BY <1>1 DEF Requests
  <2> HIDE DEF r
  <2> QED
    BY <2>1, <2>2, <2>3, <1>3, <1>1, WriteKeeps DEF Requests
<1>6. CASE Approver
  <2>1. PICK v \in Verdicts : Stored([request EXCEPT !.conditions = {v}])
    BY <1>6 DEF Approver
  <2> DEFINE r == [request EXCEPT !.conditions = {v}]
  <2>2. r \in Requests /\ r.uid = request.uid /\ r.conditions = {v} /\ r.signed = request.signed
    BY <1>1, <1>3 DEF Requests
  <2>3. Stored(r) /\ UNCHANGED local /\ request.conditions = {} /\ request.uid # 0
    BY <2>1, <1>6 DEF Approver, Exists
  <2>4. ~request.signed
    <3>1. request.conditions # {"Approved"}
      BY <2>3
    <3> QED
      BY <3>1 DEF DecidedOnce
  <2> HIDE DEF r
  <2> QED
    BY <2>2, <2>3, <2>4, <1>3, WriteKeeps
<1>7. CASE Issuer
  <2> DEFINE r == [request EXCEPT !.signed = TRUE]
  <2>1. r \in Requests /\ r.uid = request.uid /\ r.conditions = request.conditions
    BY <1>1 DEF Requests
  <2>2. Stored(r) /\ UNCHANGED local /\ request.conditions = {"Approved"} /\ request.uid # 0
    BY <1>7, <1>1 DEF Issuer, Exists, Requests, Verdicts
  <2> HIDE DEF r
  <2> QED
    BY <2>1, <2>2, <1>3, WriteKeeps DEF DecidedOnce
<1>8. CASE Touch
  <2>1. Stored(request) /\ UNCHANGED local
    BY <1>8 DEF Touch
  <2> QED
    BY <2>1, <1>1, WriteKeeps DEF DecidedOnce, Exists
<1> QED
  BY <1>4, <1>5, <1>6, <1>7, <1>8 DEF Cluster

\* ApprovalInv is inductive (approve.go:94-139, deny.go:94-139).
THEOREM ApprovalInvariant == Spec => []ApprovalInv
<1>1. ApprovalInv /\ UNCHANGED vars => ApprovalInv'
  <2> SUFFICES ASSUME ApprovalInv, UNCHANGED vars
               PROVE  ApprovalInv'
    OBVIOUS
  <2>1. request' = request /\ verdict' = verdict /\ copy' = copy /\ pc' = pc /\ result' = result
    BY DEF vars, server, local
  <2> QED
    BY <2>1 DEF ApprovalInv, TypeOK, DecidedOnce, CopiesOld, SuccessDecides, Exists
<1>2. ApprovalInv /\ [Next]_vars => ApprovalInv'
  BY <1>1, CommandKeeps, ClusterKeeps DEF Next
<1> QED
  BY InitInv, <1>2, PTL DEF Spec

\* A command that reported success decided, whoever else decides at the same time
\* (approve.go:127-136, deny.go:127-136).
THEOREM SuccessStands == Spec => []SuccessDecides
<1>1. ApprovalInv => SuccessDecides
  BY DEF ApprovalInv
<1> QED
  BY ApprovalInvariant, <1>1, PTL

\* A denied request is not signed (deny.go:62).
THEOREM NeverSigned == Spec => []DeniedNeverSigned
<1>1. ApprovalInv => DeniedNeverSigned
  BY DEF ApprovalInv, DecidedOnce, DeniedNeverSigned
<1> QED
  BY ApprovalInvariant, <1>1, PTL

-----------------------------------------------------------------------------
\* A command whose update is not taken does not write (approve.go:114-134).
LEMMA CommandWrites ==
    ASSUME NEW u \in Users, Command(u)
    PROVE  \/ UNCHANGED server
           \/ \E how \in {"success", "error"} :
                 /\ pc[u] = "update" /\ Accepts(copy[u]) /\ Stored(WithVerdict(u, copy[u]))
                 /\ Ends(u, how) /\ UNCHANGED <<verdict, copy>>
<1>1. ASSUME NEW v \in Verdicts, NEW args \in 0..2, NEW reason \in BOOLEAN, NEW message \in BOOLEAN,
             Start(u, v, args, reason, message)
      PROVE  UNCHANGED server
  BY <1>1 DEF Start
<1>2. Fails(u) \/ Get(u) \/ Kill(u) => UNCHANGED server
  BY DEF Fails, Get, Kill
<1>3. ASSUME NEW answered \in BOOLEAN, Update(u, answered), Accepts(copy[u])
      PROVE  \E how \in {"success", "error"} :
                 /\ pc[u] = "update" /\ Accepts(copy[u]) /\ Stored(WithVerdict(u, copy[u]))
                 /\ Ends(u, how) /\ UNCHANGED <<verdict, copy>>
  BY <1>3 DEF Update
<1>4. ASSUME NEW answered \in BOOLEAN, Update(u, answered), ~Accepts(copy[u])
      PROVE  UNCHANGED server
  BY <1>4 DEF Update
<1> QED
  BY <1>1, <1>2, <1>3, <1>4 DEF Command

\* Every step decides at most once, and an undecided request (approve.go:116-129).
LEMMA StepDecides == ApprovalInv /\ [Next]_vars => [D!Next]_(D!vars)
<1> SUFFICES ASSUME ApprovalInv, [Next]_vars
             PROVE  [D!Next]_(D!vars)
  OBVIOUS
<1> USE DEF ApprovalInv, TypeOK, decisionOf
<1>1. request \in Requests
  OBVIOUS
<1>2. CASE UNCHANGED request
  BY <1>2 DEF D!vars
<1>3. ASSUME NEW u \in Users, Command(u), ~UNCHANGED request
      PROVE  D!Decide
  <2>1. PICK how \in {"success", "error"} :
            /\ pc[u] = "update" /\ Accepts(copy[u]) /\ Stored(WithVerdict(u, copy[u]))
            /\ Ends(u, how) /\ UNCHANGED <<verdict, copy>>
    BY <1>3, CommandWrites DEF server
  <2>2. /\ request.uid # 0 /\ request.conditions = {}
        /\ request' = [request EXCEPT !.version = @ + 1, !.conditions = {verdict[u]}]
    BY <2>1, UpdateKeeps
  <2>3. /\ request'.uid = request.uid /\ request'.signed = request.signed
        /\ request'.conditions = {verdict[u]} /\ verdict[u] \in {"Approved", "Denied"}
    BY <1>1, <2>2 DEF Requests, Verdicts
  <2> QED
    BY <2>2, <2>3 DEF D!Decide
<1>4. CASE Delete
  BY <1>1, <1>4 DEF Delete, Stored, Absent, Exists, D!Next, D!Renamed
<1>5. CASE Create
  <2> DEFINE r == [Absent EXCEPT !.uid = request.version + 1]
  <2>1. request.uid = 0 /\ request.version + 1 \in Nat \ {0} /\ Stored(r)
    BY <1>1, <1>5 DEF Create, Exists, Requests
  <2>2. r \in Requests /\ r.uid = request.version + 1 /\ r.conditions = {} /\ ~r.signed
    BY <2>1, NewRequest
  <2> HIDE DEF r
  <2>3. request'.uid = r.uid /\ request'.conditions = {} /\ request'.signed = r.signed /\ r.signed \in BOOLEAN
    BY <2>1, <2>2 DEF Stored, Requests
  <2> QED
    BY <2>1, <2>2, <2>3 DEF D!Next, D!Renamed
<1>6. CASE Approver
  <2>1. PICK v \in Verdicts : Stored([request EXCEPT !.conditions = {v}])
    BY <1>6 DEF Approver
  <2>2. /\ request'.uid = request.uid /\ request'.signed = request.signed
        /\ request'.conditions = {v} /\ v \in {"Approved", "Denied"}
    BY <1>1, <2>1 DEF Stored, Requests, Verdicts
  <2>3. request.uid # 0 /\ request.conditions = {}
    BY <1>6 DEF Approver, Exists
  <2> QED
    BY <2>2, <2>3 DEF D!Next, D!Decide
<1>7. CASE Issuer
  <2>1. /\ request'.uid = request.uid /\ request'.signed = TRUE
        /\ request'.conditions = request.conditions /\ request.conditions = {"Approved"}
    BY <1>1, <1>7 DEF Issuer, Stored, Requests, Verdicts
  <2> QED
    BY <2>1 DEF D!Next, D!Sign
<1>8. CASE Touch
  <2>1. /\ request'.uid = request.uid /\ request'.signed = request.signed
        /\ request'.conditions = request.conditions
    BY <1>1, <1>8 DEF Touch, Stored, Requests
  <2> QED
    BY <2>1 DEF D!vars
<1> QED
  BY <1>2, <1>3, <1>4, <1>5, <1>6, <1>7, <1>8 DEF Next, Cluster, vars, server, D!Next

\* approve and deny together implement Decision, for any number of users.
THEOREM DecidedOnlyOnce == Spec => ImplementsDecision
<1>1. Init => D!Init
  BY DEF Init, Absent, decisionOf, D!Init
<1> QED
  BY <1>1, ApprovalInvariant, StepDecides, PTL DEF Spec, ImplementsDecision, D!Spec

\* Of all commands on one object only one reports success (approve.go:121-136,
\* deny.go:121-136).
THEOREM OnlyOneDecider == Spec => []OneDecider
<1>1. Init => OneDecider
  BY DEF Init, OneDecider
<1>2. ApprovalInv /\ OneDecider /\ [Next]_vars => OneDecider'
  <2> SUFFICES ASSUME ApprovalInv, OneDecider, [Next]_vars, NEW u \in Users, NEW v \in Users,
                      result'[u] = "success", result'[v] = "success", copy'[u].uid = copy'[v].uid, u # v
               PROVE  FALSE
    BY DEF OneDecider
  <2> USE DEF ApprovalInv, TypeOK
  <2>1. ASSUME NEW w \in Users, result'[w] = "success", ~(result[w] = "success" /\ copy'[w] = copy[w])
        PROVE  /\ copy' = copy /\ copy[w] = request /\ request.uid # 0 /\ request.conditions = {}
               /\ \A x \in Users \ {w} : result'[x] = result[x]
    <3>1. PICK x \in Users : Command(x)
      BY <2>1 DEF Next, Cluster, Delete, Create, Approver, Issuer, Touch, vars, local
    <3>2. CASE \E answered \in BOOLEAN : Update(x, answered) /\ Accepts(copy[x])
      <4>1. x = w
        BY <2>1, <3>2 DEF Update, Ends
      <4> QED
        BY <3>2, <4>1, UpdateKeeps DEF Update, Ends
    <3>3. CASE \E answered \in BOOLEAN : Update(x, answered) /\ ~Accepts(copy[x])
      BY <2>1, <3>3 DEF Update, Ends
    <3>4. CASE \E v0 \in Verdicts, args \in 0..2, reason, message \in BOOLEAN :
                  Start(x, v0, args, reason, message)
      BY <2>1, <3>4 DEF Start, Ends
    <3>5. CASE Get(x)
      BY <2>1, <3>5 DEF Get, Ends, CopiesOld
    <3>6. CASE Fails(x) \/ Kill(x)
      BY <2>1, <3>6 DEF Fails, Kill, Ends
    <3> QED
      BY <3>1, <3>2, <3>3, <3>4, <3>5, <3>6 DEF Command
  <2>2. ASSUME NEW w \in Users, NEW x \in Users, w # x, result'[w] = "success", result'[x] = "success",
               copy'[w].uid = copy'[x].uid, ~(result[w] = "success" /\ copy'[w] = copy[w])
        PROVE  FALSE
    <3>1. copy' = copy /\ copy[w] = request /\ request.conditions = {} /\ result[x] = "success"
      BY <2>1, <2>2
    <3>2. request.conditions = {verdict[x]}
      BY <2>2, <3>1 DEF SuccessDecides
    <3> QED
      BY <3>1, <3>2
  <2>3. /\ result[u] = "success" /\ copy'[u] = copy[u]
        /\ result[v] = "success" /\ copy'[v] = copy[v]
    BY <2>2
  <2> QED
    BY <2>3 DEF OneDecider
<1> QED
  BY <1>1, <1>2, ApprovalInvariant, PTL DEF Spec
=============================================================================
