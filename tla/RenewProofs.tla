---------------------------- MODULE RenewProofs ----------------------------
(***************************************************************************)
(* Proofs about Renew, for any Certificates in any namespaces, any         *)
(* arguments, and any number of writes of users and controllers.           *)
(***************************************************************************)
EXTENDS Renew, FiniteSetTheorems, TLAPS

(***************************************************************************)
(* What a step may do to a Certificate: nothing; delete it; a write, which *)
(* takes nothing of its status back; create it again.                      *)
(***************************************************************************)
Rewrites(old, new) ==
    /\ old.live
    /\ new.version > old.version
    /\ new.uid = old.uid
    /\ new.revision >= old.revision
    /\ new.attempts >= old.attempts
    /\ old.issuing => new.issuing \/ new.attempts > old.attempts

Grows(old, new) ==
    \/ new = old
    \/ new = [old EXCEPT !.live = FALSE]
    \/ Rewrites(old, new)
    \/ new.version > old.version /\ new.uid > old.uid

\* How an old copy of a Certificate compares with the one now stored: of the same
\* version it is the same.
CopyOf(copy, now) ==
    /\ copy.uid <= now.uid
    /\ copy.version <= now.version
    /\ copy.uid = now.uid => copy.revision <= now.revision /\ copy.attempts <= now.attempts
    /\ copy.version = now.version /\ now.live => copy = now

\* What MarkNotLost says of one copy.
MarkOf(copy, now) ==
    now.uid = copy.uid => now.issuing \/ now.attempts > copy.attempts

CertificateInv ==
    /\ certificate \in [Certs -> Certificate]
    /\ \A c \in Certs : certificate[c].name = c /\ certificate[c].uid > 0

CopiesInv ==
    /\ crts \in Seq(Certificate)
    /\ triggered \in Seq(Certificate)
    /\ at \in Nat \ {0}
    /\ toGet \in Seq(Certs)
    /\ toList \in Seq({NsOf[c] : c \in Certs})
    /\ options \in Options
    /\ \A i \in DOMAIN crts : CopyOf(crts[i], certificate[crts[i].name])
    /\ \A i \in DOMAIN triggered :
           LET now == certificate[triggered[i].name]
           IN  CopyOf(triggered[i], now) /\ MarkOf(triggered[i], now)

RenewInv == CertificateInv /\ CopiesInv

-----------------------------------------------------------------------------
\* The arguments and the names triggered are compared item by item (renew.go:188).
LEMMA SequenceOfItems ==
    ASSUME NEW S, NEW s \in Seq(S)
    PROVE  s = [i \in 1..Len(s) |-> s[i]]
OBVIOUS

\* A copy that is old stays one, whatever is written (renew.go:180, 191).
LEMMA CopyKept ==
    ASSUME NEW copy \in Certificate, NEW old \in Certificate, NEW new \in Certificate,
           CopyOf(copy, old), Grows(old, new)
    PROVE  CopyOf(copy, new)
<1> USE DEF Certificate, CopyOf
<1>1. CASE new = old
  BY <1>1
<1>2. CASE new = [old EXCEPT !.live = FALSE]
  BY <1>2
<1>3. CASE Rewrites(old, new)
  BY <1>3 DEF Rewrites
<1>4. CASE new.version > old.version /\ new.uid > old.uid
  BY <1>4
<1> QED
  BY <1>1, <1>2, <1>3, <1>4 DEF Grows

\* An issuance that was triggered is not forgotten, whatever is written (renew.go:218).
LEMMA MarkKept ==
    ASSUME NEW copy \in Certificate, NEW old \in Certificate, NEW new \in Certificate,
           CopyOf(copy, old), MarkOf(copy, old), Grows(old, new)
    PROVE  MarkOf(copy, new)
<1> USE DEF Certificate, CopyOf, MarkOf
<1>1. CASE new = old
  BY <1>1
<1>2. CASE new = [old EXCEPT !.live = FALSE]
  <2>1. new.uid = old.uid /\ new.attempts = old.attempts /\ new.issuing = old.issuing
    BY <1>2
  <2> QED
    BY <2>1
<1>3. CASE Rewrites(old, new)
  BY <1>3 DEF Rewrites
<1>4. CASE new.version > old.version /\ new.uid > old.uid
  BY <1>4
<1> QED
  BY <1>1, <1>2, <1>3, <1>4 DEF Grows

\* A Certificate has one of the names.
LEMMA CertificateName == \A crt \in Certificate : crt.name \in Certs
BY DEF Certificate

\* The parts of a Certificate that a write sets (renew.go:217).
LEMMA CertificateParts ==
    ASSUME NEW crt \in Certificate, NEW b \in BOOLEAN, NEW n \in Nat, NEW m \in Nat
    PROVE  /\ [crt EXCEPT !.issuing = b] \in Certificate
           /\ [crt EXCEPT !.live = b] \in Certificate
           /\ [crt EXCEPT !.version = n] \in Certificate
           /\ [crt EXCEPT !.issuing = b, !.attempts = m] \in Certificate
           /\ [crt EXCEPT !.issuing = b, !.revision = n, !.attempts = m] \in Certificate
<1>2. [crt EXCEPT !.issuing = b] \in Certificate
  BY DEF Certificate
<1>3. [crt EXCEPT !.live = b] \in Certificate
  BY DEF Certificate
<1>4. [crt EXCEPT !.version = n] \in Certificate
  BY DEF Certificate
<1>5. [crt EXCEPT !.issuing = b, !.attempts = m] \in Certificate
  BY DEF Certificate
<1>6. [crt EXCEPT !.issuing = b, !.revision = n, !.attempts = m] \in Certificate
  BY DEF Certificate
<1> QED
  BY <1>2, <1>3, <1>4, <1>5, <1>6

\* A write to a Certificate changes no other one, and gives it the next version.
LEMMA WrittenOnly ==
    ASSUME CertificateInv, NEW crt \in Certificate, Written(crt)
    PROVE  /\ certificate' \in [Certs -> Certificate]
           /\ certificate'[crt.name] =
                [crt EXCEPT !.version = certificate[crt.name].version + 1]
           /\ \A c \in Certs \ {crt.name} : certificate'[c] = certificate[c]
BY DEF CertificateInv, Certificate, Written

\* The update of a copy is taken only when it is the stored Certificate: then it is
\* that Certificate, being issued, and written only if it was not before
\* (renew.go:218).
LEMMA UpdateWrites ==
    ASSUME RenewInv, at \in DOMAIN crts, UpdateStatus(crts[at])
    PROVE  LET name == crts[at].name
           IN  /\ certificate' \in [Certs -> Certificate]
               /\ certificate'[name].name = name
               /\ Grows(certificate[name], certificate'[name])
               /\ CopyOf(crts[at], certificate'[name])
               /\ MarkOf(crts[at], certificate'[name])
               /\ \A c \in Certs \ {name} : certificate'[c] = certificate[c]
<1> DEFINE copy == crts[at]
           old == certificate[copy.name]
           new == [old EXCEPT !.issuing = TRUE]
<1>1. copy \in Certificate /\ copy.name \in Certs
  <2>1. crts \in Seq(Certificate)
    BY DEF RenewInv, CopiesInv
  <2>2. crts[at] \in Certificate
    BY <2>1
  <2> QED
    BY <2>2, CertificateName
<1>2. old.live /\ copy = old
  BY <1>1 DEF UpdateStatus, Accepts, RenewInv, CopiesInv, CopyOf
<1>3. new \in Certificate /\ new.name = copy.name /\ new.issuing = TRUE
  BY <1>1, <1>2 DEF Certificate
<1>4. CASE Written(new)
  <2>1. /\ certificate' \in [Certs -> Certificate]
        /\ certificate'[copy.name] = [new EXCEPT !.version = certificate[copy.name].version + 1]
        /\ \A c \in Certs \ {copy.name} : certificate'[c] = certificate[c]
    BY <1>3, <1>4, WrittenOnly DEF RenewInv
  <2>2. /\ certificate'[copy.name].name = copy.name
        /\ certificate'[copy.name].uid = old.uid
        /\ certificate'[copy.name].revision = old.revision
        /\ certificate'[copy.name].attempts = old.attempts
        /\ certificate'[copy.name].version = old.version + 1
        /\ certificate'[copy.name].issuing = TRUE
    BY <1>1, <1>2, <1>3, <2>1 DEF Certificate
  <2>3. Rewrites(old, certificate'[copy.name])
    BY <1>1, <1>2, <2>2 DEF Rewrites, Certificate
  <2> QED
    BY <1>1, <1>2, <2>1, <2>2, <2>3 DEF Grows, CopyOf, MarkOf, Certificate
<1>5. CASE copy.issuing /\ UNCHANGED certificate
  BY <1>1, <1>2, <1>5 DEF Grows, CopyOf, MarkOf, Certificate, RenewInv, CertificateInv
<1> QED
  <2>1. Written(new) \/ (copy.issuing /\ UNCHANGED certificate)
    BY <1>2 DEF UpdateStatus
  <2> QED
    BY <1>4, <1>5, <2>1

\* Users and controllers take nothing of the status back; the update of renew does
\* not either (renew.go:218).
LEMMA StepGrows ==
    ASSUME RenewInv, [Next]_vars
    PROVE  /\ CertificateInv'
           /\ \A c \in Certs : Grows(certificate[c], certificate'[c])
<1> USE DEF RenewInv, CertificateInv
<1>e. ASSUME UNCHANGED certificate
      PROVE  /\ CertificateInv'
             /\ \A c \in Certs : Grows(certificate[c], certificate'[c])
  BY <1>e DEF Grows
<1>w. ASSUME NEW c \in Certs, NEW crt \in Certificate, Written(crt), certificate[c].live,
             crt.name = c, crt.uid = certificate[c].uid,
             crt.revision >= certificate[c].revision,
             crt.attempts >= certificate[c].attempts,
             certificate[c].issuing => crt.issuing \/ crt.attempts > certificate[c].attempts
      PROVE  /\ CertificateInv'
             /\ \A b \in Certs : Grows(certificate[b], certificate'[b])
  <2>1. /\ certificate' \in [Certs -> Certificate]
        /\ certificate'[c] = [crt EXCEPT !.version = certificate[c].version + 1]
        /\ \A b \in Certs \ {c} : certificate'[b] = certificate[b]
    BY <1>w, WrittenOnly
  <2>2. /\ certificate'[c].name = c /\ certificate'[c].uid = certificate[c].uid
        /\ certificate'[c].version = certificate[c].version + 1
        /\ certificate'[c].revision = crt.revision
        /\ certificate'[c].attempts = crt.attempts
        /\ certificate'[c].issuing = crt.issuing
    BY <1>w, <2>1 DEF Certificate
  <2>3. Rewrites(certificate[c], certificate'[c])
    BY <1>w, <2>2 DEF Rewrites, Certificate
  <2> QED
    BY <1>w, <2>1, <2>2, <2>3 DEF Grows
<1>u. ASSUME at \in DOMAIN crts, UpdateStatus(crts[at])
      PROVE  /\ CertificateInv'
             /\ \A c \in Certs : Grows(certificate[c], certificate'[c])
  <2>0. crts \in Seq(Certificate)
    BY DEF CopiesInv
  <2>1. crts[at].name \in Certs
    BY <1>u, <2>0, CertificateName
  <2> DEFINE name == crts[at].name
  <2>2. /\ certificate' \in [Certs -> Certificate]
        /\ certificate'[name].name = name
        /\ Grows(certificate[name], certificate'[name])
        /\ \A c \in Certs \ {name} : certificate'[c] = certificate[c]
    BY ONLY <1>u, UpdateWrites, RenewInv
  <2>3. certificate'[name].uid > 0
    BY <2>1, <2>2 DEF Grows, Rewrites, Certificate
  <2>4. ASSUME NEW c \in Certs, c # name
        PROVE  certificate'[c] = certificate[c]
    BY <2>2, <2>4
  <2> HIDE DEF name
  <2> QED
    BY ONLY <2>1, <2>2, <2>3, <2>4, RenewInv DEF RenewInv, CertificateInv, Grows
<1>1. ASSUME NEW c \in Certs, Trigger(c)
      PROVE  /\ CertificateInv'
             /\ \A b \in Certs : Grows(certificate[b], certificate'[b])
  <2> DEFINE crt == [certificate[c] EXCEPT !.issuing = TRUE]
  <2>0. crt \in Certificate
    BY CertificateParts
  <2>1. /\ crt.name = c /\ crt.uid = certificate[c].uid
        /\ crt.revision = certificate[c].revision /\ crt.attempts = certificate[c].attempts
        /\ crt.issuing = TRUE
    BY DEF Certificate
  <2>2. Written(crt) /\ certificate[c].live
    BY <1>1 DEF Trigger, MayWrite
  <2> HIDE DEF crt
  <2> QED
    BY <1>w, <2>0, <2>1, <2>2 DEF Certificate
<1>2. ASSUME NEW c \in Certs, Edit(c)
      PROVE  /\ CertificateInv'
             /\ \A b \in Certs : Grows(certificate[b], certificate'[b])
  BY <1>2, <1>w DEF Edit, MayWrite, Certificate
<1>3. ASSUME NEW c \in Certs, Finish(c)
      PROVE  /\ CertificateInv'
             /\ \A b \in Certs : Grows(certificate[b], certificate'[b])
  <2> DEFINE crt == [certificate[c] EXCEPT !.issuing = FALSE, !.revision = @ + 1,
                                           !.attempts = @ + 1]
  <2>0. certificate[c].attempts + 1 \in Nat /\ certificate[c].revision + 1 \in Nat
    BY DEF Certificate
  <2>1. crt \in Certificate
    BY <2>0, CertificateParts
  <2>3. /\ crt.name = c /\ crt.uid = certificate[c].uid
        /\ crt.revision = certificate[c].revision + 1
        /\ crt.attempts = certificate[c].attempts + 1
    BY DEF Certificate
  <2>2. Written(crt) /\ certificate[c].live
    BY <1>3 DEF Finish, MayWrite
  <2> HIDE DEF crt
  <2> QED
    BY <1>w, <2>1, <2>2, <2>3 DEF Certificate
<1>4. ASSUME NEW c \in Certs, Fail(c)
      PROVE  /\ CertificateInv'
             /\ \A b \in Certs : Grows(certificate[b], certificate'[b])
  <2> DEFINE crt == [certificate[c] EXCEPT !.issuing = FALSE, !.attempts = @ + 1]
  <2>0. certificate[c].attempts + 1 \in Nat /\ certificate[c].revision + 1 \in Nat
    BY DEF Certificate
  <2>1. crt \in Certificate
    BY <2>0, CertificateParts
  <2>3. /\ crt.name = c /\ crt.uid = certificate[c].uid
        /\ crt.revision = certificate[c].revision
        /\ crt.attempts = certificate[c].attempts + 1
    BY DEF Certificate
  <2>2. Written(crt) /\ certificate[c].live
    BY <1>4 DEF Fail, MayWrite
  <2> HIDE DEF crt
  <2> QED
    BY <1>w, <2>1, <2>2, <2>3 DEF Certificate
<1>5. ASSUME NEW c \in Certs, Delete(c)
      PROVE  /\ CertificateInv'
             /\ \A b \in Certs : Grows(certificate[b], certificate'[b])
  <2>1. certificate' = [certificate EXCEPT ![c] = [@ EXCEPT !.live = FALSE]]
    BY <1>5 DEF Delete
  <2>2. [certificate[c] EXCEPT !.live = FALSE] \in Certificate
    BY CertificateParts
  <2> QED
    BY <2>1, <2>2 DEF Grows, Certificate
<1>6. ASSUME NEW c \in Certs, Create(c)
      PROVE  /\ CertificateInv'
             /\ \A b \in Certs : Grows(certificate[b], certificate'[b])
  <2>1. certificate' = [certificate EXCEPT
                          ![c] = Fresh(c, certificate[c].uid + 1, certificate[c].version + 1)]
    BY <1>6 DEF Create
  <2> QED
    BY <2>1 DEF Grows, Certificate, Fresh
<1>7. CASE RenewNext
  <2>1. UNCHANGED certificate \/ (at \in DOMAIN crts /\ UpdateStatus(crts[at]))
    BY <1>7 DEF RenewNext, Validate, Read, ListNamespaces, ListCertificates, GetCertificate,
                StartMarking, Mark, MarkFails, Succeed, world, CopiesInv
  <2> QED
    BY <1>e, <1>u, <2>1
<1>8. CASE WorldNext
  BY <1>e, <1>1, <1>2, <1>3, <1>4, <1>5, <1>6, <1>8
     DEF WorldNext, Ask, AcmeStep, WriteSecret, DeleteSecret, Collect
<1>9. CASE UNCHANGED vars
  BY <1>e, <1>9 DEF vars, world
<1> QED
  BY <1>7, <1>8, <1>9 DEF Next

-----------------------------------------------------------------------------
\* A list answers with copies of Certificates as they are stored (renew.go:180).
LEMMA ListedCopies ==
    ASSUME CertificateInv, NEW ns, NEW listed \in Listed(ns)
    PROVE  /\ listed \in Seq(Certificate)
           /\ \A i \in DOMAIN listed :
                  /\ listed[i].name \in Selected(ns)
                  /\ listed[i] = certificate[listed[i].name]
           /\ \A c \in Selected(ns) : \E i \in DOMAIN listed : listed[i].name = c
<1>1. PICK f \in [1..Cardinality(Selected(ns)) -> Selected(ns)] :
          /\ \A c \in Selected(ns) : \E i \in DOMAIN f : f[i] = c
          /\ listed = [i \in DOMAIN f |-> certificate[f[i]]]
  BY DEF Listed
<1>2. Cardinality(Selected(ns)) \in Nat
  <2>1. Selected(ns) \subseteq Certs
    BY DEF Selected
  <2>2. IsFiniteSet(Certs)
    BY RenewAssumption
  <2> QED
    BY <2>1, <2>2, FS_Subset, FS_CardinalityType
<1>3. \A c \in Selected(ns) : c \in Certs /\ certificate[c] \in Certificate /\ certificate[c].name = c
  BY DEF Selected, CertificateInv
<1> QED
  BY <1>1, <1>2, <1>3

\* The initial state.
LEMMA RenewInit == Init => RenewInv
<1> SUFFICES ASSUME Init
             PROVE  RenewInv
  OBVIOUS
<1>1. ASSUME NEW n \in Revisions, NEW c \in Certs
      PROVE  Issued(c, n) \in Certificate /\ Issued(c, n).name = c /\ Issued(c, n).uid = 1
  BY IssuanceAssumption DEF Issued, Fresh, Certificate
<1>2. CertificateInv
  <2>1. PICK n \in Revisions : certificate = [c \in Certs |-> Issued(c, n)]
    BY DEF Init, WorldInit
  <2> QED
    BY <1>1, <2>1 DEF CertificateInv
<1> QED
  BY <1>2 DEF Init, RenewInv, CopiesInv

\* What a step adds to the copies and to the printed ones is as old as its Certificate
\* at most (renew.go:175-213).
LEMMA StepCopies == RenewInv /\ [Next]_vars => CopiesInv'
<1> SUFFICES ASSUME RenewInv, [Next]_vars
             PROVE  CopiesInv'
  OBVIOUS
<1>t. /\ crts \in Seq(Certificate) /\ triggered \in Seq(Certificate)
      /\ at \in Nat \ {0} /\ toGet \in Seq(Certs)
      /\ toList \in Seq({NsOf[c] : c \in Certs}) /\ options \in Options
  BY DEF RenewInv, CopiesInv
<1>g. /\ CertificateInv /\ CertificateInv'
      /\ \A c \in Certs : /\ certificate[c] \in Certificate
                          /\ certificate'[c] \in Certificate
                          /\ Grows(certificate[c], certificate'[c])
  BY StepGrows DEF RenewInv, CertificateInv
<1>o. \A i \in DOMAIN crts : CopyOf(crts[i], certificate'[crts[i].name])
  BY <1>t, <1>g, CopyKept, CertificateName DEF RenewInv, CopiesInv
<1>m. \A i \in DOMAIN triggered :
          /\ CopyOf(triggered[i], certificate'[triggered[i].name])
          /\ MarkOf(triggered[i], certificate'[triggered[i].name])
  BY <1>t, <1>g, CopyKept, MarkKept, CertificateName DEF RenewInv, CopiesInv
<1>1. CASE /\ UNCHANGED <<crts, triggered>>
           /\ at' \in Nat \ {0} /\ toGet' \in Seq(Certs)
           /\ toList' \in Seq({NsOf[c] : c \in Certs}) /\ options' = options
  BY <1>1, <1>t, <1>o, <1>m DEF CopiesInv
<1>2. CASE ListNamespaces
  <2>1. options.args \in Seq(Certs) /\ options.namespace \in {NsOf[c] : c \in Certs}
    BY <1>t, RenewAssumption DEF Options
  <2>2. toGet' \in Seq(Certs)
    BY <1>2, <1>t, <2>1 DEF ListNamespaces
  <2>3. <<options.namespace>> \in Seq({NsOf[c] : c \in Certs})
    BY <2>1
  <2>4. toList' \in {toList, Namespaces, <<options.namespace>>}
    BY <1>2 DEF ListNamespaces
  <2>5. toList' \in Seq({NsOf[c] : c \in Certs})
    BY <1>t, <2>3, <2>4, RenewAssumption
  <2> QED
    BY <1>1, <1>2, <1>t, <2>2, <2>5 DEF ListNamespaces
<1>3. CASE ListCertificates
  <2>1. CASE UNCHANGED <<crts, toList>>
    BY <1>1, <1>3, <1>t, <2>1 DEF ListCertificates
  <2>2. ASSUME NEW listed \in Listed(Head(toList)), crts' = crts \o listed,
               toList' = Tail(toList)
        PROVE  CopiesInv'
    <3>1. UNCHANGED <<certificate, triggered, at, toGet, options>> /\ toList # <<>>
      BY <1>3 DEF ListCertificates, world
    <3>2. listed \in Seq(Certificate)
      BY <1>g, ListedCopies
    <3>3. \A i \in DOMAIN listed : CopyOf(listed[i], certificate[listed[i].name])
      <4>1. \A i \in DOMAIN listed :
                listed[i] = certificate[listed[i].name] /\ listed[i] \in Certificate
        BY <1>g, <3>2, ListedCopies
      <4>2. \A crt \in Certificate : CopyOf(crt, crt)
        BY DEF CopyOf, Certificate
      <4> QED
        BY <4>1, <4>2
    <3>4. crts' \in Seq(Certificate) /\ toList' \in Seq({NsOf[c] : c \in Certs})
      BY <1>t, <2>2, <3>1, <3>2
    <3>5. \A i \in DOMAIN crts' : CopyOf(crts'[i], certificate'[crts'[i].name])
      BY <1>t, <1>o, <2>2, <3>1, <3>2, <3>3
    <3> QED
      BY <1>t, <1>m, <3>1, <3>4, <3>5 DEF CopiesInv
  <2> QED
    BY <1>3, <2>1, <2>2 DEF ListCertificates
<1>4. CASE GetCertificate
  <2> DEFINE c == Head(toGet)
  <2>1. c \in Certs /\ Tail(toGet) \in Seq(Certs) /\ Tail(toList) \in Seq({NsOf[b] : b \in Certs})
    BY <1>4, <1>t DEF GetCertificate
  <2>2. CASE UNCHANGED <<crts, toGet, toList>>
    BY <1>1, <1>4, <1>t, <2>2 DEF GetCertificate
  <2>3. CASE /\ crts' = Append(crts, certificate[c]) /\ toGet' = Tail(toGet)
             /\ toList' = IF Tail(toGet) = <<>> THEN Tail(toList) ELSE toList
    <3>1. UNCHANGED <<certificate, triggered, at, options>>
      BY <1>4 DEF GetCertificate, world
    <3>2. certificate[c] \in Certificate /\ certificate[c].name = c
      BY <1>g, <2>1 DEF CertificateInv
    <3>3. CopyOf(certificate[c], certificate[c])
      BY <3>2 DEF CopyOf, Certificate
    <3>4. \A i \in DOMAIN crts' : CopyOf(crts'[i], certificate'[crts'[i].name])
      BY <1>t, <1>o, <2>3, <3>1, <3>2, <3>3
    <3> QED
      BY <1>t, <1>m, <2>1, <2>3, <3>1, <3>2, <3>4 DEF CopiesInv
  <2> QED
    BY <1>4, <2>2, <2>3 DEF GetCertificate
<1>5. CASE Mark
  <2>1. /\ at \in DOMAIN crts /\ UpdateStatus(crts[at])
        /\ triggered' = Append(triggered, crts[at]) /\ at' = at + 1
        /\ UNCHANGED <<crts, toGet, toList, options>>
    BY <1>5, <1>t DEF Mark
  <2>2. /\ crts[at] \in Certificate
        /\ CopyOf(crts[at], certificate'[crts[at].name])
        /\ MarkOf(crts[at], certificate'[crts[at].name])
    BY <1>t, <2>1, UpdateWrites
  <2>3. \A i \in DOMAIN triggered' :
            /\ CopyOf(triggered'[i], certificate'[triggered'[i].name])
            /\ MarkOf(triggered'[i], certificate'[triggered'[i].name])
    BY <1>t, <1>m, <2>1, <2>2
  <2> QED
    BY <1>t, <1>o, <2>1, <2>2, <2>3 DEF CopiesInv
<1>6. CASE Validate \/ StartMarking \/ MarkFails \/ Succeed
  BY <1>1, <1>6, <1>t DEF Validate, StartMarking, MarkFails, Succeed
<1>7. CASE UNCHANGED command
  BY <1>1, <1>7, <1>t DEF command
<1> QED
  BY <1>2, <1>3, <1>4, <1>5, <1>6, <1>7 DEF Next, RenewNext, Read, vars

\* RenewInv is inductive (renew.go:165-222).
THEOREM RenewInvariant == Spec => []RenewInv
<1>1. RenewInv /\ [Next]_vars => RenewInv'
  BY StepGrows, StepCopies DEF RenewInv
<1> QED
  BY RenewInit, <1>1, PTL DEF Spec

\* "Manually triggered issuance" is no empty promise, whatever users and controllers
\* write between the reading and the update (renew.go:217-222).
THEOREM MarkIsNotLost == Spec => []MarkNotLost
<1>1. RenewInv => MarkNotLost
  <2> SUFFICES ASSUME RenewInv, NEW i \in DOMAIN triggered
               PROVE  MarkOf(triggered[i], certificate[triggered[i].name])
    BY DEF MarkNotLost, MarkOf
  <2> QED
    BY DEF RenewInv, CopiesInv
<1> QED
  BY RenewInvariant, <1>1, PTL

\* The update, though it sends the whole status of an old copy, never takes back what
\* the controllers have written since (renew.go:218).
THEOREM UpdateUndoesNothing == Spec => NeverUndone
<1> DEFINE Undone ==
      \A c \in Certs : certificate'[c].uid = certificate[c].uid
          => /\ certificate'[c].revision >= certificate[c].revision
             /\ certificate'[c].attempts >= certificate[c].attempts
<1>1. RenewInv /\ [Next]_vars => [Undone]_vars
  <2> SUFFICES ASSUME RenewInv, [Next]_vars, NEW c \in Certs,
                      certificate'[c].uid = certificate[c].uid
               PROVE  /\ certificate'[c].revision >= certificate[c].revision
                      /\ certificate'[c].attempts >= certificate[c].attempts
    OBVIOUS
  <2>1. certificate[c] \in Certificate /\ Grows(certificate[c], certificate'[c])
    BY StepGrows DEF RenewInv, CertificateInv
  <2> QED
    BY <2>1 DEF Grows, Rewrites, Certificate
<1> QED
  BY RenewInvariant, <1>1, PTL DEF Spec, NeverUndone

-----------------------------------------------------------------------------
\* The Certificates read by name, in the order of the names (renew.go:190-197).
NamedInv ==
    options.args # <<>> =>
        /\ phase = "namespaces" => ~options.allNamespaces
        /\ phase \in {"read", "mark"} =>
               /\ Len(crts) + Len(toGet) = Len(options.args)
               /\ \A i \in DOMAIN crts : crts[i].name = options.args[i]
               /\ \A i \in DOMAIN toGet : toGet[i] = options.args[Len(crts) + i]
               /\ toList = <<>> => toGet = <<>>

\* A Certificate that was there all the time, as nobody creates one with the first uid.
Lasting(c) == certificate[c].live /\ certificate[c].uid = 1

\* The Certificates read by a list: what is still to be read is in a namespace that is
\* still to be listed (renew.go:180-188).
ListedInv ==
    options.args = <<>> =>
        /\ toGet = <<>>
        /\ \A i \in DOMAIN toList : options.allNamespaces \/ toList[i] = options.namespace
        /\ \A i \in DOMAIN crts : AskedFor(crts[i].name)
        /\ phase \in {"read", "mark"} =>
               \A c \in Certs : AskedFor(c) /\ Lasting(c) =>
                   \/ \E i \in DOMAIN toList : toList[i] = NsOf[c]
                   \/ \E i \in DOMAIN crts : crts[i].name = c

\* The copies are written one after the other (renew.go:209-213).
MarkedInv ==
    /\ Len(triggered) = at - 1
    /\ at - 1 <= Len(crts)
    /\ \A i \in DOMAIN triggered : triggered[i] = crts[i]

SelectionInv ==
    /\ phase \in {"validate", "namespaces"} => crts = <<>> /\ toGet = <<>>
    /\ phase = "mark" => toList = <<>>
    /\ ended = "success" => phase = "done"
    /\ NamedInv
    /\ ListedInv
    /\ MarkedInv
    /\ RenewsSelection

\* Only a Certificate that was there can have been there all the time.
LEMMA LastingBefore ==
    ASSUME RenewInv, [Next]_vars
    PROVE  \A c \in Certs : Lasting(c)' => Lasting(c)
<1> SUFFICES ASSUME NEW c \in Certs, Lasting(c)'
             PROVE  Lasting(c)
  OBVIOUS
<1>1. /\ certificate[c] \in Certificate /\ certificate[c].uid > 0
      /\ Grows(certificate[c], certificate'[c])
      /\ certificate'[c].live /\ certificate'[c].uid = 1
  BY StepGrows DEF RenewInv, CertificateInv, Lasting
<1>2. CASE certificate'[c] = certificate[c]
  BY <1>1, <1>2 DEF Lasting
<1>3. CASE certificate'[c] = [certificate[c] EXCEPT !.live = FALSE]
  BY <1>1, <1>3 DEF Certificate
<1>4. CASE Rewrites(certificate[c], certificate'[c])
  BY <1>1, <1>4 DEF Rewrites, Lasting
<1>5. CASE certificate'[c].uid > certificate[c].uid
  BY <1>1, <1>5 DEF Certificate
<1> QED
  BY <1>1, <1>2, <1>3, <1>4, <1>5 DEF Grows

\* What the command is asked for does not change (renew.go:95-125).
LEMMA SameAsked ==
    ASSUME options' = options
    PROVE  \A c \in Certs : AskedFor(c)' <=> AskedFor(c)
BY DEF AskedFor

\* Every step reads or writes what was asked for, in order (renew.go:165-215).
LEMMA StepSelection == RenewInv /\ SelectionInv /\ [Next]_vars => SelectionInv'
<1> SUFFICES ASSUME RenewInv, SelectionInv, [Next]_vars
             PROVE  SelectionInv'
  OBVIOUS
<1>t. /\ crts \in Seq(Certificate) /\ triggered \in Seq(Certificate)
      /\ at \in Nat \ {0} /\ toGet \in Seq(Certs)
      /\ toList \in Seq({NsOf[c] : c \in Certs})
      /\ options.args \in Seq(Certs)
  BY RenewAssumption DEF RenewInv, CopiesInv, Options
<1>n. \A i \in DOMAIN crts : crts[i].name \in Certs
  BY <1>t, CertificateName
<1>l. \A c \in Certs : Lasting(c)' => Lasting(c)
  BY LastingBefore
<1>p. options' = options
  BY DEF Next, RenewNext, Validate, Read, ListNamespaces, ListCertificates, GetCertificate,
         StartMarking, Mark, MarkFails, Succeed, command, vars
<1>a. \A c \in Certs : AskedFor(c)' <=> AskedFor(c)
  BY <1>p, SameAsked
<1>s. ASSUME UNCHANGED <<triggered, ended>>, ended = "success" => phase' = "done"
      PROVE  RenewsSelection' /\ (ended = "success" => phase = "done")'
  <2>1. \A i \in DOMAIN triggered : triggered[i].name \in Certs
    BY <1>t, CertificateName
  <2> QED
    BY <1>s, <1>l, <1>p, <1>a, <2>1 DEF SelectionInv, RenewsSelection, NamesOf, Lasting
<1>0. CASE UNCHANGED command
  <2>1. UNCHANGED <<toList, toGet, crts, at, triggered, phase, ended>>
    BY <1>0 DEF command
  <2>2. NamedInv' /\ MarkedInv'
    BY <1>p, <2>1 DEF SelectionInv, NamedInv, MarkedInv
  <2>3. ListedInv'
    BY <1>p, <1>l, <1>a, <1>n, <2>1 DEF SelectionInv, ListedInv
  <2> QED
    BY <1>s, <2>1, <2>2, <2>3 DEF SelectionInv
<1>1. CASE Validate
  <2>1. UNCHANGED <<toList, toGet, crts, at, triggered>> /\ phase = "validate" /\ ended # "success"
    BY <1>1 DEF Validate, SelectionInv
  <2>2. \/ phase' = "namespaces" /\ ended' = ended /\ Valid
        \/ phase' = "done" /\ ended' = "invalid"
    BY <1>1 DEF Validate, Ends
  <2>3. NamedInv' /\ MarkedInv'
    BY <1>p, <2>1, <2>2 DEF SelectionInv, NamedInv, MarkedInv, Valid
  <2>4. ListedInv'
    BY <1>p, <1>a, <1>n, <2>1, <2>2 DEF SelectionInv, ListedInv
  <2> QED
    BY <2>1, <2>2, <2>3, <2>4 DEF SelectionInv, RenewsSelection
<1>2. CASE ListNamespaces
  <2>1. /\ UNCHANGED <<crts, at, triggered>> /\ phase = "namespaces" /\ ended # "success"
        /\ crts = <<>> /\ toGet = <<>>
    BY <1>2 DEF ListNamespaces, SelectionInv
  <2>2. MarkedInv'
    BY <2>1 DEF SelectionInv, MarkedInv
  <2>3. CASE phase' = "done" /\ ended' = "error" /\ UNCHANGED <<toList, toGet>>
    BY <1>p, <1>a, <1>n, <2>1, <2>2, <2>3
       DEF SelectionInv, NamedInv, ListedInv, RenewsSelection
  <2>4. CASE /\ toList' = IF options.allNamespaces THEN Namespaces ELSE <<options.namespace>>
             /\ toGet' = options.args /\ phase' = "read" /\ ended' = ended
    <3>1. NamedInv'
      BY <1>p, <1>t, <2>1, <2>4 DEF SelectionInv, NamedInv
    <3>2. \A c \in Certs : AskedFor(c) => \E i \in DOMAIN toList' : toList'[i] = NsOf[c]
      <4>1. CASE options.allNamespaces
        BY <2>4, <4>1, RenewAssumption
      <4>2. CASE ~options.allNamespaces
        BY <2>4, <4>2 DEF AskedFor
      <4> QED
        BY <4>1, <4>2
    <3>3. \A i \in DOMAIN toList' : options.allNamespaces \/ toList'[i] = options.namespace
      BY <2>4
    <3>4. ListedInv'
      BY <1>p, <1>a, <2>1, <2>4, <3>2, <3>3 DEF ListedInv
    <3> QED
      BY <2>1, <2>2, <2>4, <3>1, <3>4 DEF SelectionInv, RenewsSelection
  <2> QED
    BY <1>2, <2>1, <2>3, <2>4 DEF ListNamespaces, Ends
<1>3. CASE ListCertificates
  <2>1. /\ UNCHANGED <<toGet, at, triggered>> /\ phase = "read" /\ ended # "success"
        /\ options.args = <<>> /\ toList # <<>>
    BY <1>3 DEF ListCertificates, SelectionInv
  <2>2. CASE phase' = "done" /\ ended' = "error" /\ UNCHANGED <<crts, toList>>
    BY <1>p, <1>a, <1>n, <2>1, <2>2
       DEF SelectionInv, NamedInv, ListedInv, MarkedInv, RenewsSelection
  <2>3. ASSUME NEW listed \in Listed(Head(toList)), crts' = crts \o listed,
               toList' = Tail(toList), phase' = phase, ended' = ended
        PROVE  SelectionInv'
    <3>1. /\ listed \in Seq(Certificate)
          /\ \A i \in DOMAIN listed : listed[i].name \in Selected(Head(toList))
          /\ \A c \in Selected(Head(toList)) : \E i \in DOMAIN listed : listed[i].name = c
      BY ListedCopies DEF RenewInv
    <3>2. options.allNamespaces \/ Head(toList) = options.namespace
      BY <1>t, <2>1 DEF SelectionInv, ListedInv
    <3>3. \A c \in Selected(Head(toList)) : c \in Certs /\ AskedFor(c)
      BY <3>2 DEF Selected, AskedFor
    <3>4. \A i \in DOMAIN crts' : AskedFor(crts'[i].name)
      BY <1>t, <2>1, <2>3, <3>1, <3>3 DEF SelectionInv, ListedInv
    <3>5. ASSUME NEW c \in Certs, AskedFor(c), Lasting(c)
          PROVE  \/ \E i \in DOMAIN toList' : toList'[i] = NsOf[c]
                 \/ \E i \in DOMAIN crts' : crts'[i].name = c
      <4>1. CASE c \in Selected(Head(toList))
        <5>1. PICK i \in DOMAIN listed : listed[i].name = c
          BY <3>1, <4>1
        <5>2. Len(crts) + i \in DOMAIN crts' /\ crts'[Len(crts) + i] = listed[i]
          BY <1>t, <2>3, <3>1, <5>1
        <5> QED
          BY <5>1, <5>2
      <4>2. CASE c \notin Selected(Head(toList))
        <5>1. NsOf[c] # Head(toList)
          BY <3>5, <4>2 DEF Selected, AskedFor, Lasting
        <5>2. CASE \E i \in DOMAIN crts : crts[i].name = c
          <6>1. PICK i \in DOMAIN crts : crts[i].name = c
            BY <5>2
          <6>2. i \in DOMAIN crts' /\ crts'[i] = crts[i]
            BY <1>t, <2>3, <3>1, <6>1
          <6> QED
            BY <6>1, <6>2
        <5>3. CASE \E i \in DOMAIN toList : toList[i] = NsOf[c]
          <6>1. PICK i \in DOMAIN toList : toList[i] = NsOf[c]
            BY <5>3
          <6>2. i # 1 /\ i \in 1..Len(toList)
            BY <1>t, <2>1, <5>1, <6>1
          <6>3. i - 1 \in DOMAIN toList' /\ toList'[i - 1] = toList[i]
            BY <1>t, <2>1, <2>3, <6>2
          <6> QED
            BY <6>1, <6>3
        <5> QED
          BY <2>1, <3>5, <5>2, <5>3 DEF SelectionInv, ListedInv
      <4> QED
        BY <4>1, <4>2
    <3>6. \A i \in DOMAIN toList' : options.allNamespaces \/ toList'[i] = options.namespace
      BY <1>t, <2>1, <2>3 DEF SelectionInv, ListedInv
    <3>7. ListedInv'
      <4>1. \A i \in DOMAIN crts' : AskedFor(crts[i].name)'
        BY <1>p, <3>4 DEF AskedFor
      <4> QED
        BY <1>p, <1>l, <1>a, <2>1, <2>3, <3>5, <3>6, <4>1 DEF SelectionInv, ListedInv
    <3>8. MarkedInv'
      BY <1>t, <2>1, <2>3, <3>1 DEF SelectionInv, MarkedInv
    <3>9. NamedInv'
      BY <1>p, <2>1 DEF NamedInv
    <3> QED
      BY <2>1, <2>3, <3>7, <3>8, <3>9 DEF SelectionInv, RenewsSelection
  <2> QED
    BY <1>3, <2>1, <2>2, <2>3 DEF ListCertificates, Ends
<1>4. CASE GetCertificate
  <2> DEFINE c == Head(toGet)
  <2>1. /\ UNCHANGED <<at, triggered>> /\ phase = "read" /\ ended # "success"
        /\ toGet # <<>> /\ toList # <<>> /\ options.args # <<>>
    BY <1>4 DEF GetCertificate, SelectionInv, ListedInv
  <2>2. CASE phase' = "done" /\ ended' = "error" /\ UNCHANGED <<crts, toGet, toList>>
    BY <1>p, <1>a, <1>n, <2>1, <2>2
       DEF SelectionInv, NamedInv, ListedInv, MarkedInv, RenewsSelection
  <2>3. CASE /\ crts' = Append(crts, certificate[c]) /\ toGet' = Tail(toGet)
             /\ toList' = IF Tail(toGet) = <<>> THEN Tail(toList) ELSE toList
             /\ phase' = phase /\ ended' = ended
    <3>1. c \in Certs /\ certificate[c] \in Certificate /\ certificate[c].name = c
      BY <1>t, <2>1 DEF RenewInv, CertificateInv
    <3>2. c = options.args[Len(crts) + 1]
      BY <1>t, <2>1 DEF SelectionInv, NamedInv
    <3>l. Len(crts') = Len(crts) + 1 /\ Len(toGet') = Len(toGet) - 1
      BY <1>t, <2>1, <2>3, <3>1
    <3>k. Len(crts') + Len(toGet') = Len(options.args)
      <4>1. Len(crts) + Len(toGet) = Len(options.args)
        BY <2>1 DEF SelectionInv, NamedInv
      <4>2. Len(crts) \in Nat /\ Len(toGet) \in Nat
        BY <1>t
      <4> QED
        BY <3>l, <4>1, <4>2
    <3>3. \A i \in DOMAIN crts' : crts'[i].name = options.args[i]
      BY <1>t, <2>1, <2>3, <3>1, <3>2 DEF SelectionInv, NamedInv
    <3>4. \A i \in DOMAIN toGet' : toGet'[i] = options.args[Len(crts') + i]
      <4> SUFFICES ASSUME NEW i \in DOMAIN toGet'
                   PROVE  toGet'[i] = options.args[Len(crts') + i]
        OBVIOUS
      <4>1. /\ i \in 1..(Len(toGet) - 1) /\ toGet'[i] = toGet[i + 1]
            /\ Len(crts') = Len(crts) + 1
        BY <1>t, <2>1, <2>3, <3>1
      <4>2. toGet[i + 1] = options.args[Len(crts) + (i + 1)]
        BY <1>t, <2>1, <4>1 DEF SelectionInv, NamedInv
      <4>3. Len(crts') + i = Len(crts) + (i + 1)
        BY <1>t, <4>1
      <4> QED
        BY <4>1, <4>2, <4>3
    <3>5. NamedInv'
      BY <1>p, <2>1, <2>3, <3>k, <3>3, <3>4 DEF NamedInv
    <3>6. ListedInv'
      BY <1>p, <2>1 DEF ListedInv
    <3>7. MarkedInv'
      BY <1>t, <2>1, <2>3, <3>1 DEF SelectionInv, MarkedInv
    <3> QED
      BY <2>1, <2>3, <3>5, <3>6, <3>7 DEF SelectionInv, RenewsSelection
  <2> QED
    BY <1>4, <2>1, <2>2, <2>3 DEF GetCertificate, Ends
<1>5. CASE StartMarking
  <2>1. /\ UNCHANGED <<toList, toGet, crts, at, triggered>>
        /\ phase = "read" /\ toList = <<>> /\ ended # "success"
    BY <1>5 DEF StartMarking, SelectionInv
  <2>2. \/ phase' = "mark" /\ ended' = ended
        \/ phase' = "done" /\ ended' = "nothing"
    BY <1>5, Zenon DEF StartMarking, Ends
  <2>3. NamedInv' /\ MarkedInv'
    BY <1>p, <2>1, <2>2 DEF SelectionInv, NamedInv, MarkedInv
  <2>4. ListedInv'
    BY <1>p, <1>l, <1>a, <1>n, <2>1, <2>2 DEF SelectionInv, ListedInv
  <2> QED
    BY <2>1, <2>2, <2>3, <2>4 DEF SelectionInv, RenewsSelection
<1>6. CASE Mark
  <2>1. /\ UNCHANGED <<toList, toGet, crts, phase, ended>> /\ phase = "mark"
        /\ at <= Len(crts) /\ at' = at + 1 /\ triggered' = Append(triggered, crts[at])
        /\ ended # "success"
    BY <1>6 DEF Mark, SelectionInv
  <2>2. MarkedInv'
    <3>1. crts[at] \in Certificate
      BY <1>t, <2>1
    <3> QED
      BY <1>t, <2>1, <3>1 DEF SelectionInv, MarkedInv
  <2>3. NamedInv'
    BY <1>p, <2>1 DEF SelectionInv, NamedInv
  <2>4. ListedInv'
    BY <1>p, <1>l, <1>a, <1>n, <2>1 DEF SelectionInv, ListedInv
  <2> QED
    BY <2>1, <2>2, <2>3, <2>4 DEF SelectionInv, RenewsSelection
<1>7. CASE MarkFails \/ Succeed
  <2>1. /\ UNCHANGED <<toList, toGet, crts, at, triggered>> /\ phase = "mark" /\ phase' = "done"
        /\ \/ ended' = "error"
           \/ ended' = "success" /\ at > Len(crts) /\ UNCHANGED certificate
    BY <1>7 DEF MarkFails, Succeed, Ends, world
  <2>2. NamedInv' /\ MarkedInv'
    BY <1>p, <2>1 DEF SelectionInv, NamedInv, MarkedInv
  <2>3. ListedInv'
    BY <1>p, <1>a, <1>n, <2>1 DEF SelectionInv, ListedInv
  <2>4. ASSUME at > Len(crts), UNCHANGED certificate
        PROVE  RenewsSelection'
    <3>1. /\ Len(triggered) = Len(crts)
          /\ \A i \in DOMAIN triggered : triggered[i] = crts[i]
      BY <1>t, <2>4 DEF SelectionInv, MarkedInv
    <3>2. DOMAIN triggered = DOMAIN crts /\ DOMAIN triggered = 1..Len(crts)
      BY <1>t, <3>1
    <3>3. CASE options.args # <<>>
      <4>1. /\ Len(crts) = Len(options.args)
            /\ \A i \in DOMAIN crts : crts[i].name = options.args[i]
        BY <1>t, <2>1, <3>3 DEF SelectionInv, NamedInv
      <4>c. options.args \in Seq(Certs)
        BY <1>t
      <4>a. options.args = [i \in 1..Len(options.args) |-> options.args[i]]
        BY ONLY <4>c, SequenceOfItems
      <4>b. \A i \in 1..Len(options.args) : triggered[i].name = options.args[i]
        BY <1>t, <3>1, <3>2, <4>1
      <4>2. NamesOf(triggered) = options.args
        BY <3>2, <4>1, <4>a, <4>b DEF NamesOf
      <4>3. NamesOf(triggered)' = NamesOf(triggered)
        BY <2>1 DEF NamesOf
      <4> QED
        BY <1>p, <3>3, <4>2, <4>3 DEF RenewsSelection
    <3>4. CASE options.args = <<>>
      <4>0. \A i \in DOMAIN triggered : AskedFor(triggered[i].name)
        BY <3>1, <3>2, <3>4 DEF SelectionInv, ListedInv
      <4>1. \A i \in DOMAIN triggered' : AskedFor(triggered[i].name)'
        BY <1>p, <2>1, <4>0 DEF AskedFor
      <4>2. \A b \in Certs : AskedFor(b) /\ Lasting(b)
                => \E i \in DOMAIN triggered : triggered[i].name = b
        BY <1>t, <2>1, <3>1, <3>2, <3>4 DEF SelectionInv, ListedInv
      <4> QED
        BY <1>p, <1>a, <2>1, <2>4, <3>4, <4>1, <4>2 DEF RenewsSelection, Lasting
    <3> QED
      BY <3>3, <3>4
  <2> QED
    BY <2>1, <2>2, <2>3, <2>4 DEF SelectionInv, RenewsSelection
<1> QED
  BY <1>0, <1>1, <1>2, <1>3, <1>4, <1>5, <1>6, <1>7 DEF Next, RenewNext, Read, vars

\* A renew that succeeds triggered exactly what it was asked for, whatever Certificates
\* come and go meanwhile (renew.go:172-213).
THEOREM SelectionIsRenewed == Spec => []RenewsSelection
<1>1. Init => SelectionInv
  BY DEF Init, SelectionInv, NamedInv, ListedInv, MarkedInv, RenewsSelection
<1>2. SelectionInv => RenewsSelection
  BY DEF SelectionInv
<1> QED
  BY RenewInvariant, StepSelection, <1>1, <1>2, PTL DEF Spec
=============================================================================
