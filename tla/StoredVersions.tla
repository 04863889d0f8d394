--------------------------- MODULE StoredVersions ---------------------------
(***************************************************************************)
(* What the Kubernetes API server needs from everybody who touches a       *)
(* CustomResourceDefinition, the migrator included: the abstract           *)
(* specification of migrator.go.                                           *)
(*                                                                         *)
(* Every object is kept in etcd in the version that was the CRD's storage  *)
(* version when it was last written.  status.storedVersions lists the      *)
(* versions some object may still be kept in; an API server that meets an  *)
(* object in a version it was told is gone cannot read it ("corrupted      *)
(* apiservers", migrator.go:212).  Removing names from storedVersions is   *)
(* therefore one atomic step, allowed only when no object needs them.      *)
(***************************************************************************)

CONSTANTS
    Crds,           \* the CustomResourceDefinitions
    Objs,           \* names of custom resources
    CrdOf,          \* the CRD an object is an instance of
    Versions,       \* API versions
    StorageMoves,   \* <<v, w>>: a deployment may change the storage version from v to w
    Absent          \* in place of a version: the object does not exist

VARIABLES
    crd,    \* per CRD, spec.versions[*].storage and status.storedVersions
    obj     \* per object, the version etcd holds it in, or Absent

vars == <<crd, obj>>

CrdState == [storage : Versions, stored : SUBSET Versions]

TypeOK ==
    /\ crd \in [Crds -> CrdState]
    /\ obj \in [Objs -> Versions \cup {Absent}]

-----------------------------------------------------------------------------

\* Objects of c are all kept in the CRD's present storage version.
AllAtStorage(c) ==
    \A o \in Objs : CrdOf[o] = c => obj[o] \in {crd[c].storage, Absent}

\* The API server can read everything it holds: an object is kept only in a
\* version its CRD lists in status.storedVersions.
Readable ==
    \A o \in Objs : obj[o] # Absent => obj[o] \in crd[CrdOf[o]].stored

\* The storage version, in which the next object will be kept, is listed.
StorageListed == \A c \in Crds : crd[c].storage \in crd[c].stored

Init == TypeOK /\ Readable /\ StorageListed

\* A create or an update: etcd holds the object in the storage version.
Put(o) ==
    /\ obj' = [obj EXCEPT ![o] = crd[CrdOf[o]].storage]
    /\ UNCHANGED crd

Delete(o) ==
    /\ obj' = [obj EXCEPT ![o] = Absent]
    /\ UNCHANGED crd

\* Somebody applies a CRD with another storage version.
Move(c, v) ==
    /\ <<crd[c].storage, v>> \in StorageMoves
    /\ crd' = [crd EXCEPT ![c] = [storage |-> v, stored |-> @.stored \cup {v}]]
    /\ UNCHANGED obj

\* The promise of migrator.go: storedVersions is cut down to the storage
\* version only when no object is kept in any other.
Prune(c) ==
    /\ AllAtStorage(c)
    /\ crd' = [crd EXCEPT ![c].stored = {crd[c].storage}]
    /\ UNCHANGED obj

Next ==
    \/ \E o \in Objs : Put(o) \/ Delete(o)
    \/ \E c \in Crds : Prune(c) \/ \E v \in Versions : Move(c, v)

Spec == Init /\ [][Next]_vars
=============================================================================
