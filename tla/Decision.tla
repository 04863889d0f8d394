------------------------------ MODULE Decision ------------------------------
(***************************************************************************)
(* What `cmctl approve` and `cmctl deny` promise together: a               *)
(* CertificateRequest is decided once, and signed only if approved.        *)
(***************************************************************************)
EXTENDS Naturals

VARIABLES
    uid,        \* which object has the name of the request, 0 for none
    decision,   \* "none", "Approved" or "Denied"
    signed      \* whether it carries a certificate

vars == <<uid, decision, signed>>

Init == uid = 0 /\ decision = "none" /\ signed = FALSE

\* The name is given to a new object, or to none.
Renamed ==
    /\ uid' # uid
    /\ decision' = "none"
    /\ signed' = FALSE

Decide ==
    /\ uid # 0
    /\ decision = "none"
    /\ decision' \in {"Approved", "Denied"}
    /\ UNCHANGED <<uid, signed>>

Sign ==
    /\ decision = "Approved"
    /\ signed' = TRUE
    /\ UNCHANGED <<uid, decision>>

Next == Renamed \/ Decide \/ Sign

Spec == Init /\ [][Next]_vars
=============================================================================
