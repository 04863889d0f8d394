--------------------------- MODULE CreateRequest ---------------------------
(***************************************************************************)
(* `cmctl create certificaterequest`                                       *)
(* (pkg/create/certificaterequest/certificaterequest.go) and `cmctl x      *)
(* create certificatesigningrequest`                                       *)
(* (pkg/create/certificatesigningrequest/certificatesigningrequest.go).    *)
(* Runs of the command in one directory and for one name of a request; the *)
(* private key each generates is known by the run.                         *)
(***************************************************************************)
EXTENDS Naturals, FiniteSets

CONSTANTS
    Runs,       \* runs of the command
    Kinds,      \* the commands: "cr", create certificaterequest, or "csr"
    Other,      \* the key of requests that others create under the name
    MaxUid      \* bound: objects created under the name

ASSUME CreateAssumption ==
    /\ Kinds \subseteq {"cr", "csr"}
    /\ Other \notin Runs
    /\ MaxUid \in Nat

VARIABLES
    kind,       \* which of the two commands the runs are
    request,    \* the object with the name, as the API server stores it
    uids,       \* number of objects created under the name
    created,    \* run -> uid of the object it created, 0 before: what was there is older
    files,      \* the directory
    pc,         \* run -> where it is
    options,    \* run -> its flags
    req         \* run -> the variable req of Run: what Create or a Get answered

cluster == <<request, uids, created>>
invocation == <<kind, options>>
vars == <<cluster, files, pc, invocation, req>>

IsCsr == kind = "csr"

KeyDefault == "name.key"
CertDefault == "name.crt"
FileNames == {KeyDefault, CertDefault, "file"}
Flags == FileNames \cup {""}

\* named: whether the object has the name of the request.
Objects == [named : BOOLEAN, uid : Nat, key : Runs \cup {Other}, ready : BOOLEAN, cert : BOOLEAN]

\* What the client returns with an error.
Blank == [named |-> FALSE, uid |-> 0, key |-> Other, ready |-> FALSE, cert |-> FALSE]

Exists == request.uid # 0

\* Contents of files.
Nothing == [is |-> "nothing", key |-> Other]
KeyOf(r) == [is |-> "key", key |-> r]
CertificateOf(o) == IF o.cert THEN [is |-> "certificate", key |-> o.key] ELSE Nothing

Options == [fetch : BOOLEAN, keyFlag : Flags, certFlag : Flags]

Init ==
    /\ kind \in Kinds
    /\ request = Blank
    /\ uids = 0
    /\ created = [r \in Runs |-> 0]
    /\ files = [f \in FileNames |-> Nothing]
    /\ pc = [r \in Runs |-> "start"]
    /\ options \in [Runs -> Options]
    /\ req = [r \in Runs |-> Blank]

-----------------------------------------------------------------------------
\* Validate; one argument and --from-certificate-file are always given here.
Validate(o) ==
    /\ ~(o.keyFlag # "" /\ o.certFlag # "" /\ o.keyFlag = o.certFlag)
    /\ ~(~o.fetch /\ o.certFlag # "")

keyFileName(r) == IF options[r].keyFlag # "" THEN options[r].keyFlag ELSE KeyDefault
actualCertFileName(r) == IF options[r].certFlag # "" THEN options[r].certFlag ELSE CertDefault

Goes(r, where) == pc' = [pc EXCEPT ![r] = where]

\* PreRunE, and the part of Run that reads the manifest and generates the key.
Prepare(r) ==
    /\ pc[r] = "start"
    /\ \/ Validate(options[r]) /\ Goes(r, "key")
       \/ Goes(r, "error")
    /\ UNCHANGED <<cluster, files, invocation, req>>

\* Variant: the key is written with the certificate.
WriteKeyLater(r) ==
    /\ pc[r] = "key"
    /\ Goes(r, "create")
    /\ UNCHANGED <<cluster, files, invocation, req>>

\* os.WriteFile truncates the file before it writes, and may fail before or after.
WriteKey(r) ==
    /\ pc[r] = "key"
    /\ \/ files' = [files EXCEPT ![keyFileName(r)] = KeyOf(r)] /\ Goes(r, "create")
       \/ files' = [files EXCEPT ![keyFileName(r)] = Nothing] /\ Goes(r, "error")
       \/ UNCHANGED files /\ Goes(r, "error")
    /\ UNCHANGED <<cluster, invocation, req>>

\* The request as it is built from the manifest, the key and the name; the API server gives
\* it its uid.
Submitted(key) == [named |-> TRUE, uid |-> uids + 1, key |-> key, ready |-> FALSE, cert |-> FALSE]

\* The create of the API server: a name is taken once.
CanCreate == ~Exists /\ uids < MaxUid

CreateObject(key) ==
    /\ CanCreate
    /\ request' = Submitted(key)
    /\ uids' = uids + 1
    /\ created' = [r \in Runs |-> IF r = key THEN uids + 1 ELSE created[r]]

\* Variant: the request that is there already is taken for its own.
CreateAdopts(r) ==
    /\ pc[r] = "create"
    /\ \/ /\ CreateObject(r)
          /\ req' = [req EXCEPT ![r] = Submitted(r)]
       \/ /\ Exists
          /\ req' = [req EXCEPT ![r] = request]
          /\ UNCHANGED cluster
    /\ Goes(r, IF options[r].fetch THEN "poll" ELSE "success")
    /\ UNCHANGED <<files, invocation>>

\* Of a create that failed, for instance because the name is taken, Run returns the error;
\* the name of the signer of a CertificateSigningRequest is asked for first, and may fail.
Create(r) ==
    /\ pc[r] = "create"
    /\ \/ /\ CreateObject(r)
          /\ req' = [req EXCEPT ![r] = Submitted(r)]
          /\ Goes(r, IF options[r].fetch THEN "poll" ELSE "success")
       \/ /\ CreateObject(r)            \* the answer is lost
          /\ req' = [req EXCEPT ![r] = Blank]
          /\ Goes(r, "error")
       \/ /\ req' = [req EXCEPT ![r] = Blank]
          /\ Goes(r, "error")
          /\ UNCHANGED cluster
    /\ UNCHANGED <<files, invocation>>

\* The condition of the poll.
Fetchable(o) == (IsCsr \/ o.ready) /\ o.cert

\* The answer of Get is assigned to the req of Run, also the blank one of a Get that failed.
Answered(r, object) == req' = [req EXCEPT ![r] = object]

\* Get by the name (and namespace) of req: a blank req names nothing. One command retries
\* when it fails, the other ends.
Poll(r) ==
    /\ pc[r] = "poll"
    /\ \/ /\ req[r].named
          /\ Exists
          /\ Answered(r, request)
          /\ IF Fetchable(request) THEN Goes(r, "store") ELSE UNCHANGED pc
       \/ /\ Answered(r, Blank)
          /\ IF IsCsr THEN Goes(r, "error") ELSE UNCHANGED pc
    /\ UNCHANGED <<cluster, files, invocation>>

\* --timeout is over, or the command is interrupted.
TimesOut(r) ==
    /\ pc[r] = "poll"
    /\ Goes(r, "error")
    /\ UNCHANGED <<cluster, files, invocation, req>>

\* Variant: the certificate is read again when it is stored.
StoreLatest(r) ==
    /\ pc[r] = "store"
    /\ files' = [files EXCEPT ![actualCertFileName(r)] = CertificateOf(request)]
    /\ Goes(r, "success")
    /\ UNCHANGED <<cluster, invocation, req>>

\* fetchCertificateFromCR, storeCertificate.
StoreCertificate(r) ==
    /\ pc[r] = "store"
    /\ \/ /\ Fetchable(req[r])
          /\ files' = [files EXCEPT ![actualCertFileName(r)] = CertificateOf(req[r])]
          /\ Goes(r, "success")
       \/ files' = [files EXCEPT ![actualCertFileName(r)] = Nothing] /\ Goes(r, "error")
       \/ UNCHANGED files /\ Goes(r, "error")
    /\ UNCHANGED <<cluster, invocation, req>>

Run(r) ==
    \/ Prepare(r)
    \/ WriteKey(r)
    \/ Create(r)
    \/ Poll(r)
    \/ TimesOut(r)
    \/ StoreCertificate(r)

\* The signer issues the certificate and sets the condition, together or one by one.
Signed ==
    /\ Exists
    /\ \E cert, ready \in BOOLEAN :
           /\ request.cert => cert
           /\ request' = [request EXCEPT !.cert = cert, !.ready = ready]
    /\ UNCHANGED <<uids, created, files, pc, invocation, req>>

Deleted ==
    /\ Exists
    /\ request' = Blank
    /\ UNCHANGED <<uids, created, files, pc, invocation, req>>

CreatedByOther ==
    /\ CreateObject(Other)
    /\ UNCHANGED <<files, pc, invocation, req>>

Next ==
    \/ \E r \in Runs : Run(r)
    \/ Signed
    \/ Deleted
    \/ CreatedByOther

Spec == Init /\ [][Next]_vars

-----------------------------------------------------------------------------
TypeOK ==
    /\ kind \in Kinds
    /\ request \in Objects
    /\ uids \in 0..MaxUid
    /\ created \in [Runs -> 0..MaxUid]
    /\ files \in [FileNames -> [is : {"nothing", "key", "certificate"}, key : Runs \cup {Other}]]
    /\ pc \in [Runs -> {"start", "key", "create", "poll", "store", "success", "error"}]
    /\ options \in [Runs -> Options]
    /\ req \in [Runs -> Objects]

\* Another run wrote, or may write, to the file.
Shared(r, f) == \E s \in Runs \ {r} : f \in {keyFileName(s), actualCertFileName(s)}

\* A run that waits asks for its request, also after a Get that failed: "Retry and keep
\* polling until context is cancelled" (certificaterequest.go:246).
KeepsPolling == \A r \in Runs : pc[r] = "poll" => req[r].named

\* A run that waits for a CertificateSigningRequest always asks for it: it ends with the
\* first Get that fails, before the blank answer can be asked with
\* (certificatesigningrequest.go:261-267).
CsrKeepsPolling == IsCsr => KeepsPolling

\* What waits to be stored was seen signed, as storeCertificate "Assumes request is signed"
\* and fetchCertificateFromCR that it "is ready".  A run that waits, stores or succeeds has
\* created a request of the name itself, and the request it holds is that one, with its own
\* key, or one created after it: never one that was there before.  A run of the csr command
\* that waits holds a request with a name (certificaterequest.go:236-252,
\* certificatesigningrequest.go:249-267).
CreateInv ==
    /\ TypeOK
    /\ CsrKeepsPolling
    /\ \A r \in Runs :
           /\ pc[r] = "store" => req[r].named /\ req[r].cert /\ (IsCsr \/ req[r].ready)
           /\ pc[r] \in {"poll", "store", "success"} => created[r] # 0
           /\ pc[r] \in {"poll", "store", "success"} /\ req[r].named =>
                  /\ req[r].uid >= created[r]
                  /\ req[r].uid = created[r] => req[r].key = r

\* A request is created only when its private key is in the file: a certificate
\* issued for it is never without its key (certificaterequest.go:214-234,
\* certificatesigningrequest.go:231-252).
KeyBeforeRequest ==
    [][\A r \in Runs :
           Exists' /\ request'.uid # request.uid /\ request'.key = r
               => \/ files[keyFileName(r)] = KeyOf(r)
                  \/ Shared(r, keyFileName(r))]_vars

\* A run that fetched the certificate of the object it created leaves it beside its
\* private key, whatever happened in between to the request and to other runs
\* (certificaterequest.go:243-267, certificatesigningrequest.go:261-284).
FilesMatch ==
    \A r \in Runs :
        LET key == keyFileName(r)
            cert == actualCertFileName(r)
        IN  /\ pc[r] = "success" /\ options[r].fetch /\ req[r].key = r
            /\ key # cert /\ ~Shared(r, key) /\ ~Shared(r, cert)
            => files[key] = KeyOf(r) /\ files[cert] = [is |-> "certificate", key |-> r]
=============================================================================
