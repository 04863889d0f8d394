------------------------ MODULE CreateRequestProofs ------------------------
(***************************************************************************)
(* Proofs about CreateRequest, for any runs of both commands and any       *)
(* number of objects created under the name.                               *)
(***************************************************************************)
EXTENDS CreateRequest, TLAPS

\* The key file holds the key of the run, unless another run writes to that file.
KeyKept(r) == files[keyFileName(r)] = KeyOf(r) \/ Shared(r, keyFileName(r))

\* The object with the name is the youngest that was created, and who created it is known.
RequestInv ==
    /\ Exists => request.named /\ request.uid = uids
    /\ \A r \in Runs :
           /\ created[r] <= uids
           /\ Exists /\ created[r] = request.uid => request.key = r

\* What CreateInv, KeyBeforeRequest and FilesMatch rest on.
FetchInv ==
    /\ CreateInv
    /\ RequestInv
    /\ \A r \in Runs : pc[r] \in {"create", "poll", "store"} => KeyKept(r)
    /\ FilesMatch

-----------------------------------------------------------------------------
\* The files of a run are files of the directory (certificaterequest.go:214, 261).
LEMMA FileOfRun ==
    ASSUME TypeOK, NEW r \in Runs
    PROVE  keyFileName(r) \in FileNames /\ actualCertFileName(r) \in FileNames
BY DEF TypeOK, Options, Flags, FileNames, keyFileName, actualCertFileName, KeyDefault, CertDefault

\* The names of a run's files never change (certificaterequest.go:214, 261).
LEMMA SameFiles ==
    ASSUME UNCHANGED invocation
    PROVE  \A r \in Runs :
               /\ keyFileName(r)' = keyFileName(r)
               /\ actualCertFileName(r)' = actualCertFileName(r)
               /\ options'[r] = options[r]
               /\ \A f : Shared(r, f)' <=> Shared(r, f)
BY DEF invocation, keyFileName, actualCertFileName, Shared

\* Every step keeps the command and the flags (certificaterequest.go:127-163).
LEMMA SameInvocation == [Next]_vars => UNCHANGED invocation
BY DEF Next, Run, Prepare, WriteKey, Create, Poll, TimesOut, StoreCertificate, Signed, Deleted,
       CreatedByOther, vars

\* An object as Create sends it is one (certificaterequest.go:236).
LEMMA SubmittedType ==
    ASSUME uids \in Nat, NEW key \in Runs \cup {Other}
    PROVE  /\ Submitted(key) \in Objects
           /\ Submitted(key).uid = uids + 1 /\ Submitted(key).key = key
           /\ Submitted(key).named /\ ~Submitted(key).cert
BY DEF Submitted, Objects

\* Who created what is known within the bound (certificaterequest.go:236).
LEMMA CreatedType ==
    ASSUME uids \in 0..MaxUid, created \in [Runs -> 0..MaxUid], NEW key, CreateObject(key)
    PROVE  uids' \in 0..MaxUid /\ created' \in [Runs -> 0..MaxUid]
<1>1. uids + 1 \in 0..MaxUid
  BY CreateAssumption DEF CreateObject, CanCreate
<1> QED
  BY <1>1 DEF CreateObject

\* What the client returns with an error is an object (certificaterequest.go:236, 246).
LEMMA BlankType == Blank \in Objects /\ Blank.uid = 0 /\ ~Blank.named /\ ~Blank.cert
BY DEF Blank, Objects

\* What a file is left with is one of the contents known here.
LEMMA ContentType ==
    /\ Nothing \in [is : {"nothing", "key", "certificate"}, key : Runs \cup {Other}]
    /\ \A r \in Runs :
           KeyOf(r) \in [is : {"nothing", "key", "certificate"}, key : Runs \cup {Other}]
    /\ \A o \in Objects :
           CertificateOf(o) \in [is : {"nothing", "key", "certificate"}, key : Runs \cup {Other}]
BY DEF Nothing, KeyOf, CertificateOf, Objects

-----------------------------------------------------------------------------
\* No step leaves the types (certificaterequest.go:127-268,
\* certificatesigningrequest.go:159-285).
LEMMA StepType == TypeOK /\ [Next]_vars => TypeOK'
<1> SUFFICES ASSUME TypeOK, [Next]_vars
             PROVE  TypeOK'
  OBVIOUS
<1> USE DEF TypeOK, cluster, invocation, Goes
<1>n. uids \in Nat
  BY CreateAssumption
<1>1. ASSUME NEW r \in Runs, Prepare(r)
      PROVE  TypeOK'
  BY <1>1 DEF Prepare
<1>2. ASSUME NEW r \in Runs, WriteKey(r)
      PROVE  TypeOK'
  <2>1. files' \in [FileNames -> [is : {"nothing", "key", "certificate"}, key : Runs \cup {Other}]]
    <3>1. /\ Nothing \in [is : {"nothing", "key", "certificate"}, key : Runs \cup {Other}]
          /\ KeyOf(r) \in [is : {"nothing", "key", "certificate"}, key : Runs \cup {Other}]
      BY ContentType
    <3> QED
      BY <1>2, <3>1 DEF WriteKey
  <2>2. pc' \in [Runs -> {"start", "key", "create", "poll", "store", "success", "error"}]
    BY <1>2 DEF WriteKey
  <2> QED
    BY <1>2, <2>1, <2>2 DEF WriteKey
<1>3. ASSUME NEW r \in Runs, Create(r)
      PROVE  TypeOK'
  <2>1. request' \in Objects /\ req' \in [Runs -> Objects]
    BY <1>3, <1>n, SubmittedType, BlankType DEF Create, CreateObject
  <2>2. uids' \in 0..MaxUid /\ created' \in [Runs -> 0..MaxUid]
    BY <1>3, CreatedType DEF Create
  <2> QED
    BY <1>3, <2>1, <2>2 DEF Create
<1>4. ASSUME NEW r \in Runs, Poll(r)
      PROVE  TypeOK'
  BY <1>4, BlankType DEF Poll, Answered
<1>5. ASSUME NEW r \in Runs, TimesOut(r)
      PROVE  TypeOK'
  BY <1>5 DEF TimesOut
<1>6. ASSUME NEW r \in Runs, StoreCertificate(r)
      PROVE  TypeOK'
  <2>1. CertificateOf(req[r]) \in [is : {"nothing", "key", "certificate"}, key : Runs \cup {Other}]
    BY ContentType
  <2>2. files' \in [FileNames -> [is : {"nothing", "key", "certificate"}, key : Runs \cup {Other}]]
    BY <1>6, <2>1, FileOfRun, ContentType DEF StoreCertificate
  <2> QED
    BY <1>6, <2>2 DEF StoreCertificate
<1>7. CASE Signed
  <2>1. PICK cert, ready \in BOOLEAN :
            request' = [request EXCEPT !.cert = cert, !.ready = ready]
    BY <1>7 DEF Signed
  <2>2. request' \in Objects
    BY <2>1 DEF Objects
  <2> QED
    BY <1>7, <2>2 DEF Signed
<1>8. CASE Deleted
  BY <1>8, BlankType DEF Deleted
<1>9. CASE CreatedByOther
  <2>1. request' \in Objects
    BY <1>9, <1>n, SubmittedType DEF CreatedByOther, CreateObject
  <2>2. uids' \in 0..MaxUid /\ created' \in [Runs -> 0..MaxUid]
    BY <1>9, CreatedType DEF CreatedByOther
  <2> QED
    BY <1>9, <2>1, <2>2 DEF CreatedByOther
<1>10. CASE UNCHANGED vars
  BY <1>10 DEF vars
<1> QED
  BY <1>1, <1>2, <1>3, <1>4, <1>5, <1>6, <1>7, <1>8, <1>9, <1>10 DEF Next, Run

\* The object with the name is replaced only by a younger one
\* (certificaterequest.go:236).
LEMMA StepRequest == TypeOK /\ RequestInv /\ [Next]_vars => RequestInv'
<1> SUFFICES ASSUME TypeOK, RequestInv, [Next]_vars
             PROVE  RequestInv'
  OBVIOUS
<1> USE DEF RequestInv, Exists
<1>n. uids \in Nat /\ request \in Objects /\ created \in [Runs -> 0..MaxUid]
  BY CreateAssumption DEF TypeOK
<1>1. ASSUME NEW key \in Runs \cup {Other}, CreateObject(key)
      PROVE  RequestInv'
  <2>1. /\ request'.named /\ request'.uid = uids + 1 /\ uids' = uids + 1 /\ request'.key = key
    BY <1>1, <1>n, SubmittedType DEF CreateObject
  <2>2. ASSUME NEW r \in Runs
        PROVE  /\ created'[r] <= uids'
               /\ created'[r] = request'.uid => request'.key = r
    <3>1. created[r] \in Nat /\ created[r] <= uids
      BY <1>n, CreateAssumption
    <3>2. created'[r] = IF r = key THEN uids + 1 ELSE created[r]
      BY <1>1 DEF CreateObject
    <3> QED
      BY <1>n, <2>1, <3>1, <3>2
  <2> QED
    BY <2>1, <2>2
<1>2. CASE UNCHANGED cluster
  BY <1>2 DEF cluster
<1>3. CASE Signed
  <2>1. PICK cert, ready \in BOOLEAN :
            request' = [request EXCEPT !.cert = cert, !.ready = ready]
    BY <1>3 DEF Signed
  <2>2. request'.uid = request.uid /\ request'.named = request.named /\ request'.key = request.key
    BY <2>1, <1>n DEF Objects
  <2> QED
    BY <1>3, <2>2 DEF Signed
<1>4. CASE Deleted
  BY <1>4, <1>n, BlankType DEF Deleted
<1>5. ASSUME NEW r \in Runs, Run(r)
      PROVE  UNCHANGED cluster \/ CreateObject(r)
  BY <1>5 DEF Run, Prepare, WriteKey, Create, Poll, TimesOut, StoreCertificate
<1> QED
  BY <1>1, <1>2, <1>3, <1>4, <1>5 DEF Next, CreatedByOther, vars, cluster

\* A run asks for a request with a name: Create answered with one, and a Get that failed
\* ends the wait of the csr command (certificatesigningrequest.go:254-267).
LEMMA StepAsks == TypeOK /\ RequestInv /\ CsrKeepsPolling /\ [Next]_vars => CsrKeepsPolling'
<1> SUFFICES ASSUME TypeOK, RequestInv, CsrKeepsPolling, [Next]_vars, IsCsr', NEW r \in Runs, pc'[r] = "poll"
             PROVE  req'[r].named
  BY DEF CsrKeepsPolling, KeepsPolling
<1>1. IsCsr
  BY SameInvocation DEF invocation, IsCsr
<1>2. pc[r] = "poll" => req[r].named
  BY <1>1 DEF CsrKeepsPolling, KeepsPolling
<1> USE DEF TypeOK, Goes
<1>3. ASSUME NEW s \in Runs, s # r, Run(s)
      PROVE  pc'[r] = pc[r] /\ req'[r] = req[r]
  BY <1>3 DEF Run, Prepare, WriteKey, Create, Poll, Answered, TimesOut, StoreCertificate
<1>4. CASE Create(r)
  BY <1>4 DEF Create, Submitted
<1>5. CASE Poll(r)
  <2>1. req' = [req EXCEPT ![r] = request] /\ Exists
    BY <1>1, <1>5 DEF Poll, Answered
  <2> QED
    BY <2>1 DEF RequestInv
<1>6. CASE Prepare(r) \/ WriteKey(r) \/ TimesOut(r) \/ StoreCertificate(r)
  BY <1>6 DEF Prepare, WriteKey, TimesOut, StoreCertificate
<1>7. CASE Signed \/ Deleted \/ CreatedByOther \/ UNCHANGED vars
  BY <1>2, <1>7 DEF Signed, Deleted, CreatedByOther, vars
<1> QED
  BY <1>2, <1>3, <1>4, <1>5, <1>6, <1>7 DEF Next, Run

\* What a run keeps of its request stays true of it (certificaterequest.go:236-252,
\* certificatesigningrequest.go:254-279).
LEMMA StepCreate == CreateInv /\ RequestInv /\ [Next]_vars => CreateInv'
<1> SUFFICES ASSUME CreateInv, RequestInv, [Next]_vars
             PROVE  CreateInv'
  OBVIOUS
<1>t. TypeOK /\ TypeOK'
  BY StepType DEF CreateInv
<1>n. /\ uids \in Nat /\ request \in Objects /\ req \in [Runs -> Objects]
      /\ pc \in [Runs -> {"start", "key", "create", "poll", "store", "success", "error"}]
      /\ created \in [Runs -> 0..MaxUid]
  BY <1>t, CreateAssumption DEF TypeOK
<1>k. IsCsr' <=> IsCsr
  BY SameInvocation DEF invocation, IsCsr
<1> DEFINE Kept(r) ==
      /\ pc[r] = "store" => req[r].named /\ req[r].cert /\ (IsCsr \/ req[r].ready)
      /\ pc[r] \in {"poll", "store", "success"} => created[r] # 0
      /\ pc[r] \in {"poll", "store", "success"} /\ req[r].named =>
             /\ req[r].uid >= created[r]
             /\ req[r].uid = created[r] => req[r].key = r
<1>0. \A r \in Runs : Kept(r)
  BY DEF CreateInv
<1>2. ASSUME NEW s \in Runs, created'[s] = created[s], req'[s] = req[s],
             pc'[s] \in {pc[s], "error", "key", "create"} \/ (pc[s] = "store" /\ pc'[s] = "success")
      PROVE  Kept(s)'
  BY <1>0, <1>2, <1>k
<1>3. ASSUME NEW r \in Runs, Create(r), NEW s \in Runs
      PROVE  Kept(s)'
  <2>1. CASE s # r
    <3>1. req'[s] = req[s] /\ pc'[s] = pc[s]
      BY <1>3, <1>n, <2>1 DEF Create, Goes
    <3>2. created'[s] = created[s]
      BY <1>3, <1>n, <2>1 DEF Create, CreateObject, cluster
    <3> QED
      BY <1>2, <3>1, <3>2
  <2>2. CASE s = r /\ CreateObject(r) /\ req' = [req EXCEPT ![r] = Submitted(r)]
    <3>1. /\ req'[r].uid = uids + 1 /\ req'[r].key = r
          /\ created'[r] = uids + 1
      BY <2>2, <1>n, SubmittedType DEF CreateObject
    <3>2. pc'[r] \in {"poll", "success"}
      BY <1>3, <2>2, <1>n, SubmittedType, BlankType DEF Create, Goes
    <3> QED
      BY <2>2, <3>1, <3>2, <1>n
  <2>3. CASE s = r /\ req' = [req EXCEPT ![r] = Blank]
    <3>1. pc'[r] = "error"
      BY <1>3, <2>3, <1>n, SubmittedType, BlankType DEF Create, Goes
    <3> QED
      BY <2>3, <3>1
  <2> QED
    BY <1>3, <2>1, <2>2, <2>3 DEF Create
<1>4. ASSUME NEW r \in Runs, Poll(r), NEW s \in Runs
      PROVE  Kept(s)'
  <2>0. created' = created
    BY <1>4 DEF Poll, cluster
  <2>1. CASE s # r
    <3>1. req'[s] = req[s] /\ pc'[s] = pc[s]
      BY <1>4, <2>1, <1>n DEF Poll, Answered, Goes
    <3> QED
      BY <1>2, <2>0, <3>1
  <2>2. CASE s = r
    <3>0. pc[r] = "poll" /\ created[r] # 0 /\ created[r] <= uids
      BY <1>0, <1>4 DEF Poll, RequestInv
    <3>1. CASE req'[r] = request /\ Exists /\ (pc'[r] = "store" => Fetchable(request))
      <4>1. /\ request.named /\ request.uid = uids
            /\ created[r] = request.uid => request.key = r
        BY <3>1 DEF RequestInv
      <4>2. pc'[r] = "store" => request.cert /\ (IsCsr \/ request.ready)
        BY <3>1 DEF Fetchable
      <4> QED
        BY <2>0, <2>2, <3>0, <3>1, <4>1, <4>2, <1>k
    <3>2. CASE req'[r] = Blank /\ pc'[r] \in {"poll", "error"}
      BY <2>0, <2>2, <3>0, <3>2, BlankType
    <3> QED
      BY <1>4, <1>n, <2>2, <3>1, <3>2 DEF Poll, Answered, Goes
  <2> QED
    BY <2>1, <2>2
<1>5. ASSUME NEW r \in Runs, Prepare(r) \/ WriteKey(r) \/ TimesOut(r) \/ StoreCertificate(r),
             NEW s \in Runs
      PROVE  Kept(s)'
  <2>1. pc'[s] \in {pc[s], "error", "key", "create"} \/ (pc[s] = "store" /\ pc'[s] = "success")
    BY <1>5, <1>n DEF Prepare, WriteKey, TimesOut, StoreCertificate, Goes
  <2> QED
    BY <1>2, <1>5, <2>1 DEF Prepare, WriteKey, TimesOut, StoreCertificate, cluster
<1>6. ASSUME Signed \/ Deleted \/ UNCHANGED vars, NEW s \in Runs
      PROVE  Kept(s)'
  BY <1>2, <1>6 DEF Signed, Deleted, vars, cluster
<1>7. ASSUME CreatedByOther, NEW s \in Runs
      PROVE  Kept(s)'
  <2>1. created'[s] = created[s]
    BY <1>7, <1>n, CreateAssumption DEF CreatedByOther, CreateObject
  <2> QED
    BY <1>2, <1>7, <2>1 DEF CreatedByOther
<1>10. \A s \in Runs : Kept(s)'
  BY <1>3, <1>4, <1>5, <1>6, <1>7 DEF Next, Run
<1>11. CsrKeepsPolling'
  BY StepAsks DEF CreateInv
<1> QED
  BY <1>t, <1>10, <1>11 DEF CreateInv

-----------------------------------------------------------------------------
\* Only the run itself writes a file it does not share (certificaterequest.go:231, 264).
LEMMA OthersLeave ==
    ASSUME TypeOK, [Next]_vars, NEW r \in Runs, ~WriteKey(r), ~StoreCertificate(r),
           NEW f \in FileNames, ~Shared(r, f)
    PROVE  files'[f] = files[f]
<1>1. ASSUME NEW s \in Runs, s # r, WriteKey(s) \/ StoreCertificate(s)
      PROVE  files'[f] = files[f]
  <2>1. f # keyFileName(s) /\ f # actualCertFileName(s)
    BY <1>1 DEF Shared
  <2> QED
    BY <1>1, <2>1 DEF WriteKey, StoreCertificate, TypeOK
<1>2. files' = files \/ \E s \in Runs : WriteKey(s) \/ StoreCertificate(s)
  BY DEF Next, Run, Prepare, Create, Poll, TimesOut, Signed, Deleted, CreatedByOther, vars
<1> QED
  BY <1>1, <1>2

\* How a run comes to where its key must be in the file, and to its end
\* (certificaterequest.go:214-267).
LEMMA Arrives ==
    ASSUME TypeOK, [Next]_vars, NEW r \in Runs, ~WriteKey(r), ~StoreCertificate(r)
    PROVE  /\ pc'[r] \in {"create", "poll", "store"} => pc[r] \in {"create", "poll", "store"}
           /\ pc'[r] = "success" /\ options[r].fetch => pc[r] = "success" /\ req'[r] = req[r]
<1> USE DEF TypeOK, Goes
<1>1. ASSUME NEW s \in Runs, s # r, Run(s)
      PROVE  pc'[r] = pc[r] /\ req'[r] = req[r]
  BY <1>1 DEF Run, Prepare, WriteKey, Create, Poll, Answered, TimesOut, StoreCertificate
<1>2. CASE Prepare(r)
  BY <1>2 DEF Prepare
<1>3. CASE Create(r)
  <2>1. pc[r] = "create"
    BY <1>3 DEF Create
  <2>2. pc'[r] \in {"poll", "success", "error"} /\ (pc'[r] = "success" => ~options[r].fetch)
    BY <1>3, Zenon DEF Create
  <2> QED
    BY <2>1, <2>2
<1>4. CASE Poll(r)
  BY <1>4 DEF Poll
<1>5. CASE TimesOut(r)
  BY <1>5 DEF TimesOut
<1>6. CASE Signed \/ Deleted \/ CreatedByOther \/ UNCHANGED vars
  BY <1>6 DEF Signed, Deleted, CreatedByOther, vars
<1> QED
  BY <1>1, <1>2, <1>3, <1>4, <1>5, <1>6 DEF Next, Run

\* The key stays in its file until the certificate is beside it
\* (certificaterequest.go:231-264).
LEMMA StepKey ==
    ASSUME FetchInv, [Next]_vars, NEW r \in Runs, pc'[r] \in {"create", "poll", "store"}
    PROVE  KeyKept(r)'
<1>t. TypeOK
  BY DEF FetchInv, CreateInv
<1>f. /\ keyFileName(r)' = keyFileName(r) /\ keyFileName(r) \in FileNames
      /\ Shared(r, keyFileName(r))' <=> Shared(r, keyFileName(r))
  BY <1>t, SameInvocation, SameFiles, FileOfRun
<1>k. KeyOf(r)' = KeyOf(r)
  BY DEF KeyOf
<1>1. CASE WriteKey(r)
  <2>1. files' = [files EXCEPT ![keyFileName(r)] = KeyOf(r)]
    BY <1>1, <1>t DEF WriteKey, Goes, TypeOK
  <2> QED
    BY <1>t, <1>f, <1>k, <2>1 DEF KeyKept, TypeOK
<1>2. CASE StoreCertificate(r)
  BY <1>2, <1>t DEF StoreCertificate, Goes, TypeOK
<1>3. CASE ~WriteKey(r) /\ ~StoreCertificate(r)
  <2>1. KeyKept(r)
    BY <1>3, <1>t, Arrives DEF FetchInv
  <2>2. CASE Shared(r, keyFileName(r))
    BY <1>f, <2>2 DEF KeyKept
  <2>3. CASE ~Shared(r, keyFileName(r))
    BY <1>3, <1>t, <1>f, <1>k, <2>1, <2>3, OthersLeave DEF KeyKept
  <2> QED
    BY <2>2, <2>3
<1> QED
  BY <1>1, <1>2, <1>3

\* The certificate is put beside the key, and both stay (certificaterequest.go:257-267).
LEMMA StepFiles == FetchInv /\ [Next]_vars => FilesMatch'
<1> SUFFICES ASSUME FetchInv, [Next]_vars, NEW r \in Runs,
                    (pc[r] = "success")', options[r].fetch', (req[r].key = r)',
                    (keyFileName(r) # actualCertFileName(r))',
                    ~Shared(r, keyFileName(r))', ~Shared(r, actualCertFileName(r))'
             PROVE  /\ files'[keyFileName(r)'] = KeyOf(r)
                    /\ files'[actualCertFileName(r)'] = [is |-> "certificate", key |-> r]
  BY DEF FilesMatch, KeyOf
<1>t. TypeOK
  BY DEF FetchInv, CreateInv
<1>f. /\ keyFileName(r)' = keyFileName(r) /\ keyFileName(r) \in FileNames
      /\ actualCertFileName(r)' = actualCertFileName(r) /\ actualCertFileName(r) \in FileNames
      /\ keyFileName(r) # actualCertFileName(r)
      /\ ~Shared(r, keyFileName(r)) /\ ~Shared(r, actualCertFileName(r))
      /\ options[r].fetch
  BY <1>t, SameInvocation, SameFiles, FileOfRun
<1>1. CASE StoreCertificate(r)
  <2>1. /\ pc[r] = "store" /\ Fetchable(req[r]) /\ req' = req
        /\ files' = [files EXCEPT ![actualCertFileName(r)] = CertificateOf(req[r])]
    BY <1>1, <1>t DEF StoreCertificate, Goes, TypeOK
  <2>2. files[keyFileName(r)] = KeyOf(r)
    BY <1>f, <2>1 DEF FetchInv, KeyKept
  <2>3. CertificateOf(req[r]) = [is |-> "certificate", key |-> r]
    BY <2>1 DEF CertificateOf, Fetchable
  <2> QED
    BY <1>t, <1>f, <2>1, <2>2, <2>3 DEF TypeOK
<1>2. CASE WriteKey(r)
  BY <1>2, <1>t DEF WriteKey, Goes, TypeOK
<1>3. CASE ~WriteKey(r) /\ ~StoreCertificate(r)
  <2>1. pc[r] = "success" /\ req'[r] = req[r]
    BY <1>3, <1>t, <1>f, Arrives
  <2>2. /\ files[keyFileName(r)] = KeyOf(r)
        /\ files[actualCertFileName(r)] = [is |-> "certificate", key |-> r]
    BY <1>f, <2>1 DEF FetchInv, FilesMatch
  <2> QED
    BY <1>3, <1>t, <1>f, <2>2, OthersLeave
<1> QED
  BY <1>1, <1>2, <1>3

-----------------------------------------------------------------------------
\* FetchInv is inductive (certificaterequest.go:127-268,
\* certificatesigningrequest.go:159-285).
THEOREM FetchInvariant == Spec => []FetchInv
<1>1. Init => FetchInv
  <2> SUFFICES ASSUME Init
               PROVE  FetchInv
    OBVIOUS
  <2>1. TypeOK
    BY CreateAssumption, BlankType, ContentType DEF Init, TypeOK
  <2>2. \A r \in Runs : pc[r] = "start" /\ req[r] = Blank
    BY DEF Init
  <2>3. uids \in Nat /\ ~Exists
    BY BlankType DEF Init, Exists
  <2>4. CreateInv
    BY <2>1, <2>2, <2>3, BlankType DEF CreateInv, CsrKeepsPolling, KeepsPolling
  <2>5. RequestInv
    BY <2>3, BlankType DEF Init, RequestInv
  <2> QED
    BY <2>2, <2>4, <2>5 DEF FetchInv, FilesMatch
<1>2. FetchInv /\ [Next]_vars => FetchInv'
  BY StepCreate, StepRequest, StepKey, StepFiles DEF FetchInv, CreateInv
<1> QED
  BY <1>1, <1>2, PTL DEF Spec

\* A run stores what was seen signed, and waits for the request it created or one created
\* after it, never for one that was there before, for any runs and any objects created under
\* the name (certificaterequest.go:236-252, certificatesigningrequest.go:249-267).
THEOREM CreateInvariant == Spec => []CreateInv
<1>1. FetchInv => CreateInv
  BY DEF FetchInv
<1> QED
  BY FetchInvariant, <1>1, PTL

\* A run that fetched the certificate of its own request leaves it beside the private
\* key it belongs to, whatever other runs and users did (certificaterequest.go:243-267).
THEOREM FilesMatchInvariant == Spec => []FilesMatch
<1>1. FetchInv => FilesMatch
  BY DEF FetchInv
<1> QED
  BY FetchInvariant, <1>1, PTL

\* No request is created before its private key is in the file
\* (certificaterequest.go:214-234, certificatesigningrequest.go:231-252).
THEOREM KeyIsFirst == Spec => KeyBeforeRequest
<1> DEFINE KeyFirst ==
      \A r \in Runs :
          Exists' /\ request'.uid # request.uid /\ request'.key = r
              => \/ files[keyFileName(r)] = KeyOf(r)
                 \/ Shared(r, keyFileName(r))
<1>1. FetchInv /\ [Next]_vars => [KeyFirst]_vars
  <2> SUFFICES ASSUME FetchInv, [Next]_vars, NEW r \in Runs,
                      Exists', request'.uid # request.uid, request'.key = r
               PROVE  KeyKept(r)
    BY DEF KeyKept
  <2>n. uids \in Nat /\ request \in Objects
    BY CreateAssumption DEF FetchInv, CreateInv, TypeOK
  <2>1. ~UNCHANGED cluster /\ ~Deleted
    BY BlankType DEF cluster, Deleted, Exists
  <2>2. ~Signed
    <3> SUFFICES ASSUME Signed
                 PROVE  FALSE
      OBVIOUS
    <3>1. PICK cert, ready \in BOOLEAN :
              request' = [request EXCEPT !.cert = cert, !.ready = ready]
      BY DEF Signed
    <3> QED
      BY <3>1, <2>n DEF Objects
  <2>3. ~CreatedByOther
    BY <2>n, SubmittedType, CreateAssumption DEF CreatedByOther, CreateObject
  <2>4. \E s \in Runs : pc[s] = "create" /\ CreateObject(s)
    BY <2>1, <2>2, <2>3
       DEF Next, Run, Prepare, WriteKey, Create, Poll, TimesOut, StoreCertificate, cluster, vars
  <2>5. pc[r] = "create"
    BY <2>4, <2>n, SubmittedType DEF CreateObject
  <2> QED
    BY <2>5 DEF FetchInv
<1> QED
  BY FetchInvariant, <1>1, PTL DEF Spec, KeyBeforeRequest

-----------------------------------------------------------------------------
\* What create_poll refutes of the one command holds of the other: while it waits, it asks
\* for its request (certificatesigningrequest.go:254-267).
THEOREM CsrAsksOn == Spec => []CsrKeepsPolling
<1>1. CreateInv => CsrKeepsPolling
  BY DEF CreateInv
<1> QED
  BY CreateInvariant, <1>1, PTL

\* A run of `create certificaterequest` whose Get failed once waits for its request to no
\* end but the timeout: no answer gives it back its name (certificaterequest.go:243-252).
StaysLost ==
    \A r \in Runs :
        pc[r] = "poll" /\ ~req[r].named =>
            \/ pc'[r] = "error"
            \/ pc'[r] = "poll" /\ ~req'[r].named

\* The consequence of what create_poll shows (certificaterequest.go:243-252).
THEOREM LostForGood == Spec => [][StaysLost]_vars
<1>1. CreateInv /\ [Next]_vars => [StaysLost]_vars
  <2> SUFFICES ASSUME CreateInv, [Next]_vars, NEW r \in Runs, pc[r] = "poll", ~req[r].named
               PROVE  pc'[r] = "error" \/ (pc'[r] = "poll" /\ ~req'[r].named)
    BY DEF StaysLost
  <2>0. pc \in [Runs -> {"start", "key", "create", "poll", "store", "success", "error"}]
        /\ req \in [Runs -> Objects]
    BY DEF CreateInv, TypeOK
  <2>1. ASSUME NEW s \in Runs, Run(s)
        PROVE  pc'[r] = "error" \/ (pc'[r] = "poll" /\ ~req'[r].named)
    <3>1. CASE s = r
      <4>1. Poll(r) \/ TimesOut(r)
        BY <2>1, <3>1 DEF Run, Prepare, WriteKey, Create, StoreCertificate
      <4> QED
        BY <2>0, <4>1 DEF Poll, TimesOut, Answered, Goes, Blank
    <3>2. CASE s # r
      <4>1. pc'[r] = pc[r] /\ req'[r] = req[r]
        BY <2>0, <2>1, <3>2
           DEF Run, Prepare, WriteKey, Create, Poll, TimesOut, StoreCertificate, Answered, Goes
      <4> QED
        BY <4>1
    <3> QED
      BY <3>1, <3>2
  <2>2. CASE Signed \/ Deleted \/ CreatedByOther \/ UNCHANGED vars
    BY <2>2 DEF Signed, Deleted, CreatedByOther, vars
  <2> QED
    BY <2>1, <2>2 DEF Next
<1> QED
  BY CreateInvariant, <1>1, PTL DEF Spec
=============================================================================
