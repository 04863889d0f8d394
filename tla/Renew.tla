------------------------------- MODULE Renew -------------------------------
(***************************************************************************)
(* `cmctl renew` (pkg/renew/renew.go): reads the Certificates it is asked  *)
(* for, all of them before the first write, and then sets the condition    *)
(* Issuing of each copy and updates its status, one after the other, while *)
(* cert-manager works on the same Certificates.                            *)
(***************************************************************************)
EXTENDS Issuance, Sequences

CONSTANTS
    Namespaces,  \* the namespaces, as a sequence: as a list answers
    NsOf,        \* name -> the namespace the Certificate is in
    Labelled,    \* the Certificates a label selector given with -l selects
    ArgLists     \* the name lists a user gives, the empty one among them

ASSUME RenewAssumption ==
    /\ IsFiniteSet(Certs)
    /\ ArgLists \subseteq Seq(Certs)
    /\ Namespaces \in Seq({NsOf[c] : c \in Certs})
    /\ \A c \in Certs : \E i \in DOMAIN Namespaces : Namespaces[i] = NsOf[c]

VARIABLES
    options,   \* the flags and arguments of the command
    toList,    \* the namespaces it has still to read
    toGet,     \* the names it has still to get in the current namespace
    crts,      \* the copies of the Certificates it read
    at,        \* the copy it writes next
    triggered, \* the copies it printed "Manually triggered issuance" for
    phase,     \* where it is
    ended      \* how it ended

command == <<options, toList, toGet, crts, at, triggered, phase, ended>>
vars == <<world, command>>

Options ==
    [args : ArgLists, all : BOOLEAN, selector : BOOLEAN, allNamespaces : BOOLEAN,
     namespace : {NsOf[c] : c \in Certs}]

Init ==
    /\ WorldInit
    /\ options \in Options
    /\ toList = <<>>
    /\ toGet = <<>>
    /\ crts = <<>>
    /\ at = 1
    /\ triggered = <<>>
    /\ phase = "validate"
    /\ ended = "no"

Ends(how) ==
    /\ phase' = "done"
    /\ ended' = how

-----------------------------------------------------------------------------
(***************************************************************************)
(* Validate: names, --all and a selector exclude each other and one of     *)
(* them is needed; names do not go with --all-namespaces.                  *)
(***************************************************************************)
Ways == {w \in {"args", "all", "selector"} :
            \/ w = "args" /\ options.args # <<>>
            \/ w = "all" /\ options.all
            \/ w = "selector" /\ options.selector}

Valid ==
    /\ Cardinality(Ways) = 1
    /\ ~(options.allNamespaces /\ options.args # <<>>)

Validate ==
    /\ phase = "validate"
    /\ \/ Valid /\ phase' = "namespaces" /\ UNCHANGED ended
       \/ ~Valid /\ Ends("invalid")
    /\ UNCHANGED <<world, options, toList, toGet, crts, at, triggered>>

\* The current namespace, or all that the cluster has.
ListNamespaces ==
    /\ phase = "namespaces"
    /\ \/ /\ toList' = IF options.allNamespaces THEN Namespaces ELSE <<options.namespace>>
          /\ toGet' = options.args
          /\ phase' = "read"
          /\ UNCHANGED ended
       \/ /\ options.allNamespaces
          /\ Ends("error")
          /\ UNCHANGED <<toList, toGet>>
    /\ UNCHANGED <<world, options, crts, at, triggered>>

\* What a list answers with: the selected Certificates of the namespace, each once.
Selected(ns) ==
    {c \in Certs : NsOf[c] = ns /\ certificate[c].live /\ (options.selector => c \in Labelled)}

Listed(ns) ==
    LET names == {f \in [1..Cardinality(Selected(ns)) -> Selected(ns)] :
                     \A c \in Selected(ns) : \E i \in DOMAIN f : f[i] = c}
    IN  {[i \in DOMAIN f |-> certificate[f[i]]] : f \in names}

\* Variant: the Certificates of a namespace replace those of the one before.
ListReplaces ==
    /\ phase = "read"
    /\ toList # <<>>
    /\ options.args = <<>>
    /\ crts' \in Listed(Head(toList))
    /\ toList' = Tail(toList)
    /\ UNCHANGED <<world, options, toGet, at, triggered, phase, ended>>

ListCertificates ==
    /\ phase = "read"
    /\ toList # <<>>
    /\ options.args = <<>>
    /\ \/ /\ \E listed \in Listed(Head(toList)) : crts' = crts \o listed
          /\ toList' = Tail(toList)
          /\ UNCHANGED <<phase, ended>>
       \/ Ends("error") /\ UNCHANGED <<crts, toList>>
    /\ UNCHANGED <<world, options, toGet, at, triggered>>

\* The names are read in the order they are given in; one that is missing ends the command.
GetCertificate ==
    /\ phase = "read"
    /\ toList # <<>>
    /\ toGet # <<>>
    /\ LET c == Head(toGet)
       IN  \/ /\ certificate[c].live
              /\ NsOf[c] = Head(toList)
              /\ crts' = Append(crts, certificate[c])
              /\ toGet' = Tail(toGet)
              /\ toList' = IF Tail(toGet) = <<>> THEN Tail(toList) ELSE toList
              /\ UNCHANGED <<phase, ended>>
           \/ Ends("error") /\ UNCHANGED <<crts, toGet, toList>>
    /\ UNCHANGED <<world, options, at, triggered>>

StartMarking ==
    /\ phase = "read"
    /\ toList = <<>>
    /\ \/ crts = <<>> /\ Ends("nothing")
       \/ crts # <<>> /\ phase' = "mark" /\ UNCHANGED ended
    /\ UNCHANGED <<world, options, toList, toGet, crts, at, triggered>>

-----------------------------------------------------------------------------
\* Variant: the update is sent without a resourceVersion, so that it always applies.
UpdateAnyVersion(crt) == certificate[crt.name].live /\ Written([crt EXCEPT !.issuing = TRUE])

\* Variant: a conflict is taken for success, as somebody else wrote the Certificate.
UpdateIgnoresConflict(crt) ==
    \/ Accepts(crt) /\ Written([crt EXCEPT !.issuing = TRUE])
    \/ ~Accepts(crt) /\ UNCHANGED certificate

(***************************************************************************)
(* renewCertificate sends the whole status of the copy, with the condition *)
(* set. An update that changes nothing is answered with the object as it   *)
(* is, in its old version: so it may be when the copy is being issued      *)
(* already (SetCertificateCondition keeps the time of the last transition, *)
(* and the reason may be the one of an earlier renew).                     *)
(***************************************************************************)
UpdateStatus(crt) ==
    /\ Accepts(crt)
    /\ \/ Written([crt EXCEPT !.issuing = TRUE])
       \/ crt.issuing /\ UNCHANGED certificate

Mark ==
    /\ phase = "mark"
    /\ at <= Len(crts)
    /\ UpdateStatus(crts[at])
    /\ triggered' = Append(triggered, crts[at])
    /\ at' = at + 1
    /\ UNCHANGED <<secret, requests, created, orders, challenges,
                   options, toList, toGet, crts, phase, ended>>

(***************************************************************************)
(* The first update that fails ends the command: a conflict, a Certificate *)
(* that is gone, a server that does not answer, an answer that is lost     *)
(* after the update was applied.                                           *)
(***************************************************************************)
MarkFails ==
    /\ phase = "mark"
    /\ at <= Len(crts)
    /\ UpdateStatus(crts[at]) \/ UNCHANGED certificate
    /\ Ends("error")
    /\ UNCHANGED <<secret, requests, created, orders, challenges,
                   options, toList, toGet, crts, at, triggered>>

Succeed ==
    /\ phase = "mark"
    /\ at > Len(crts)
    /\ Ends("success")
    /\ UNCHANGED <<world, options, toList, toGet, crts, at, triggered>>

Read == ListNamespaces \/ ListCertificates \/ GetCertificate

RenewNext == Validate \/ Read \/ StartMarking \/ Mark \/ MarkFails \/ Succeed

Next == RenewNext \/ (WorldNext /\ UNCHANGED command)

Spec == Init /\ [][Next]_vars

-----------------------------------------------------------------------------
NamesOf(copies) == [i \in DOMAIN copies |-> copies[i].name]

\* The Certificates a list asks for, whether they exist or not.
AskedFor(c) ==
    /\ options.allNamespaces \/ NsOf[c] = options.namespace
    /\ options.selector => c \in Labelled

(***************************************************************************)
(* A renew that succeeds (renew.go:172-213) triggered exactly what it was  *)
(* asked for: the names in their order, or of the selected Certificates    *)
(* every one that was there all the time.                                  *)
(***************************************************************************)
RenewsSelection ==
    ended = "success" =>
        IF options.args # <<>> THEN NamesOf(triggered) = options.args
        ELSE /\ \A i \in DOMAIN triggered : AskedFor(triggered[i].name)
             /\ \A c \in Certs :
                    AskedFor(c) /\ certificate[c].live /\ certificate[c].uid = 1
                      => \E i \in DOMAIN triggered : triggered[i].name = c

(***************************************************************************)
(* "Manually triggered issuance" (renew.go:222) is no empty promise: the   *)
(* Certificate is being issued until an issuance ended after the copy was  *)
(* read, whatever was written to it between the reading and the update.    *)
(***************************************************************************)
MarkNotLost ==
    \A i \in DOMAIN triggered :
        LET now == certificate[triggered[i].name]
        IN  now.uid = triggered[i].uid
              => now.issuing \/ now.attempts > triggered[i].attempts

(***************************************************************************)
(* The update sends the whole status of a copy that may be old             *)
(* (renew.go:218): it never takes back the revision or the attempts the    *)
(* controllers have written since.                                         *)
(***************************************************************************)
NeverUndone ==
    [][\A c \in Certs : certificate'[c].uid = certificate[c].uid
          => /\ certificate'[c].revision >= certificate[c].revision
             /\ certificate'[c].attempts >= certificate[c].attempts]_vars
=============================================================================
