------------------------------ MODULE Migrator ------------------------------
(***************************************************************************)
(* `cmctl upgrade migrate-api-version`                                     *)
(* (pkg/upgrade/migrateapiversion/migrator.go): every object of every      *)
(* cert-manager CRD is rewritten so that the API server keeps it in the    *)
(* storage version, and status.storedVersions is then cut down to that     *)
(* version.                                                                *)
(*                                                                         *)
(* One action per request the migrator makes.  Around it: other clients    *)
(* that write objects, deployment tooling that applies CRDs, a network     *)
(* that loses requests and answers, runs that are killed and started       *)
(* again, and other runs of the same command at the same time.             *)
(*                                                                         *)
(* resourceVersion is not a number here.  All a resourceVersion is used    *)
(* for is to tell whether the copy a run read is still the stored one, so  *)
(* each run has the sets heldObjs and heldCrds of the things it read that  *)
(* nobody has changed since.                                               *)
(***************************************************************************)
EXTENDS Integers, FiniteSets

CONSTANTS
    NCrds,          \* number of CRDs; their order is that of the `names` argument
    Objs,           \* names of custom resources
    CrdOf,          \* the CRD an object is an instance of
    Versions,       \* API versions
    Target,         \* the targetVersion argument
    StorageMoves,   \* <<v, w>>: deployment tooling may change the storage version from v to w
    Migrators,      \* concurrent runs of the command
    SkipCheck,      \* the runs started with --skip-stored-version-check
    Absent,         \* in place of a version: the object does not exist
    NoObj,          \* in place of an object: none
    NoCrd           \* in place of a CRD: not read

Crds == 1..NCrds

ASSUME ConstantsAssumption ==
    /\ NCrds \in Nat \ {0}
    /\ CrdOf \in [Objs -> Crds]
    /\ Target \in Versions
    /\ StorageMoves \subseteq Versions \X Versions
    /\ SkipCheck \subseteq Migrators
    /\ Absent \notin Versions
    /\ NoObj \notin Objs

VARIABLES
    crd,        \* API server: storage version and storedVersions of each CRD
    obj,        \* API server: the version each object is kept in, or Absent
    pc,         \* per run: where it is, or how it ended
    pending,    \* per run: CRDs the loop it is in has still to visit
    snap,       \* per run: the CRDs as it read them
    require,    \* per run: crdsRequiringMigration
    todo,       \* per run: objects of the listed CRD that are not dealt with
    cur,        \* per run: the object whose update is being retried
    attempts,   \* per run: failed attempts at cur
    heldObjs,   \* per run: listed objects unchanged since the listing
    heldCrds    \* per run: freshCRD, if unchanged since it was read

server   == <<crd, obj>>
reading  == <<snap, require>>
updating == <<todo, cur, attempts>>
held     == <<heldObjs, heldCrds>>
vars     == <<server, pc, pending, reading, updating, held>>

CrdState == [storage : Versions, stored : SUBSET Versions]

Running == {"ensure", "discover", "list", "update", "patch", "write"}
Stopped == {"idle", "refused", "nothing", "migrated", "failed"}

\* The endings in which the command tells the user to go on and upgrade.
Upgrade == {"nothing", "migrated"}

\* allow up to 3 attempts per object
MaxAttempts == 3

TypeOK ==
    /\ crd \in [Crds -> CrdState]
    /\ obj \in [Objs -> Versions \cup {Absent}]
    /\ pc \in [Migrators -> Running \cup Stopped]
    /\ pending \in [Migrators -> SUBSET Crds]
    /\ snap \in [Migrators -> [Crds -> CrdState \cup {NoCrd}]]
    /\ require \in [Migrators -> SUBSET Crds]
    /\ todo \in [Migrators -> SUBSET Objs]
    /\ cur \in [Migrators -> Objs \cup {NoObj}]
    /\ attempts \in [Migrators -> 0..(MaxAttempts - 1)]
    /\ heldObjs \in [Migrators -> SUBSET Objs]
    /\ heldCrds \in [Migrators -> SUBSET Crds]

Abs == INSTANCE StoredVersions

\* Clusters as cert-manager releases and interrupted migrations leave them.
Init ==
    /\ Abs!Init
    /\ pc = [m \in Migrators |-> "idle"]
    /\ pending = [m \in Migrators |-> {}]
    /\ snap = [m \in Migrators |-> [c \in Crds |-> NoCrd]]
    /\ require = [m \in Migrators |-> {}]
    /\ todo = [m \in Migrators |-> {}]
    /\ cur = [m \in Migrators |-> NoObj]
    /\ attempts = [m \in Migrators |-> 0]
    /\ heldObjs = [m \in Migrators |-> {}]
    /\ heldCrds = [m \in Migrators |-> {}]

-----------------------------------------------------------------------------
(* The API server, as client-go presents it.                               *)

\* A write that changes the object makes every copy of it stale.  One that
\* would store what is stored already is not written and makes none stale.
PutObj(o) ==
    LET v == crd[CrdOf[o]].storage
    IN  /\ obj' = [obj EXCEPT ![o] = v]
        /\ heldObjs' = IF v = obj[o] THEN heldObjs
                       ELSE [m \in Migrators |-> heldObjs[m] \ {o}]
        /\ UNCHANGED <<crd, heldCrds>>

\* A write of the status subresource leaves the spec as it is.
PutStored(c, vs) ==
    /\ crd' = [crd EXCEPT ![c].stored = vs]
    /\ heldCrds' = IF vs = crd[c].stored THEN heldCrds
                   ELSE [m \in Migrators |-> heldCrds[m] \ {c}]
    /\ UNCHANGED <<obj, heldObjs>>

-----------------------------------------------------------------------------
(* A run of the migrator.                                                  *)

\* c is the CRD the present loop over the CRDs has reached.
Visiting(m, c) == c \in pending[m] /\ \A d \in pending[m] : c <= d

\* The process ends and everything it knew is gone.
Stop(m, outcome) ==
    /\ pc' = [pc EXCEPT ![m] = outcome]
    /\ pending' = [pending EXCEPT ![m] = {}]
    /\ snap' = [snap EXCEPT ![m] = [c \in Crds |-> NoCrd]]
    /\ require' = [require EXCEPT ![m] = {}]
    /\ todo' = [todo EXCEPT ![m] = {}]
    /\ cur' = [cur EXCEPT ![m] = NoObj]
    /\ attempts' = [attempts EXCEPT ![m] = 0]

\* A visit of c is over: on to the next CRD of the loop at `same`, or, after
\* the last one, to a loop over `cs` at `after`.
Visited(m, c, same, after, cs) ==
    IF pending[m] = {c}
    THEN /\ pc' = [pc EXCEPT ![m] = after]
         /\ pending' = [pending EXCEPT ![m] = cs]
    ELSE /\ pc' = [pc EXCEPT ![m] = same]
         /\ pending' = [pending EXCEPT ![m] = @ \ {c}]

Start(m) ==
    /\ pc[m] \in Stopped
    /\ pc' = [pc EXCEPT ![m] = "ensure"]
    /\ pending' = [pending EXCEPT ![m] = Crds]
    /\ heldObjs' = [heldObjs EXCEPT ![m] = {}]
    /\ heldCrds' = [heldCrds EXCEPT ![m] = {}]
    /\ UNCHANGED <<server, reading, updating>>

\* Any request but the update of an object: an error ends the run.
RequestFails(m) ==
    /\ pc[m] \in Running \ {"update"}
    /\ Stop(m, "failed")
    /\ UNCHANGED <<server, held>>

\* ensureCRDStorageVersionEquals, one CRD.
EnsureStorageVersion(m, c) ==
    /\ pc[m] = "ensure"
    /\ Visiting(m, c)
    /\ \/ /\ crd[c].storage # Target
          /\ Stop(m, "refused")
       \/ /\ crd[c].storage = Target
          /\ snap' = [snap EXCEPT ![m][c] = crd[c]]
          /\ IF m \in SkipCheck
             THEN /\ require' = [require EXCEPT ![m] = @ \cup {c}]
                  /\ Visited(m, c, "ensure", "list", Crds)
             ELSE /\ Visited(m, c, "ensure", "discover", Crds)
                  /\ UNCHANGED require
          /\ UNCHANGED updating
    /\ UNCHANGED <<server, held>>

\* Variant: a CRD is taken to be migrated as soon as it lists the target.
RequiresTarget(s) == s.stored # {} /\ Target \notin s.stored

\* An empty storedVersions means there is nothing to migrate.
RequiresMigration(s) == s.stored # {} /\ s.stored # {Target}

\* discoverCRDsRequiringMigration, one CRD: it is read a second time.
Discover(m, c) ==
    /\ pc[m] = "discover"
    /\ Visiting(m, c)
    /\ LET requiring == require[m] \cup {d \in {c} : RequiresMigration(crd[d])}
       IN  IF pending[m] = {c} /\ requiring = {}
           THEN Stop(m, "nothing")
           ELSE /\ snap' = [snap EXCEPT ![m][c] = crd[c]]
                /\ require' = [require EXCEPT ![m] = requiring]
                /\ Visited(m, c, "discover", "list", requiring)
                /\ UNCHANGED updating
    /\ UNCHANGED <<server, held>>

\* migrateResourcesForCRD: the list request, which names snap's version.
ListObjects(m, c) ==
    LET listed == {o \in Objs : CrdOf[o] = c /\ obj[o] # Absent}
    IN  /\ pc[m] = "list"
        /\ Visiting(m, c)
        /\ pc' = [pc EXCEPT ![m] = "update"]
        /\ todo' = [todo EXCEPT ![m] = listed]
        /\ heldObjs' = [heldObjs EXCEPT ![m] = listed]
        /\ UNCHANGED <<server, pending, reading, cur, attempts, heldCrds>>

\* What the API server can answer to the update of o, with its effect there.
UpdateAnswers(m, o, err) ==
    \/ /\ err = "NotFound"
       /\ obj[o] = Absent
       /\ UNCHANGED <<server, held>>
    \/ /\ err = "Conflict"
       /\ obj[o] # Absent
       /\ o \notin heldObjs[m]
       /\ UNCHANGED <<server, held>>
    \/ /\ err \in {"none", "other"}       \* "other": the answer was lost
       /\ o \in heldObjs[m]
       /\ PutObj(o)
    \/ /\ err = "other"
       /\ UNCHANGED <<server, held>>

\* Variant: a request that timed out is taken for "somebody else wrote it".
AbsorbedTimeout == {"none", "NotFound", "Conflict", "other"}

\* The errors handleUpdateErr turns into nil.
Absorbed == {"none", "NotFound", "Conflict"}

\* Another attempt is allowed after one more than n have failed.
MayRetry(n) == n + 1 < MaxAttempts

\* migrateResourcesForCRD, one attempt of retry.OnError at one object.
UpdateObject(m, o, err) ==
    /\ pc[m] = "update"
    /\ o \in todo[m]
    /\ cur[m] \in {o, NoObj}
    /\ UpdateAnswers(m, o, err)
    /\ \/ /\ err \in Absorbed
          /\ todo' = [todo EXCEPT ![m] = @ \ {o}]
          /\ cur' = [cur EXCEPT ![m] = NoObj]
          /\ attempts' = [attempts EXCEPT ![m] = 0]
          /\ UNCHANGED <<pc, pending, reading>>
       \/ /\ err \notin Absorbed
          /\ MayRetry(attempts[m])
          /\ cur' = [cur EXCEPT ![m] = o]
          /\ attempts' = [attempts EXCEPT ![m] = @ + 1]
          /\ UNCHANGED <<pc, pending, reading, todo>>
       \/ /\ err \notin Absorbed
          /\ ~MayRetry(attempts[m])
          /\ Stop(m, "failed")

\* Variant: the objects are listed again, to migrate those created meanwhile.
ListAgain(m, c) ==
    /\ pc[m] = "update"
    /\ todo[m] = {}
    /\ Visiting(m, c)
    /\ pc' = [pc EXCEPT ![m] = "list"]
    /\ heldObjs' = [heldObjs EXCEPT ![m] = {}]
    /\ UNCHANGED <<server, pending, reading, updating, heldCrds>>

\* The end of the loop over the listed objects of c.
ObjectsDone(m, c) ==
    /\ pc[m] = "update"
    /\ todo[m] = {}
    /\ Visiting(m, c)
    /\ Visited(m, c, "list", "patch", require[m])
    /\ heldObjs' = [heldObjs EXCEPT ![m] = {}]
    /\ UNCHANGED <<server, reading, updating, heldCrds>>

storedVersionsAdded(old, new) == new.stored \ old.stored

\* Variant: only the versions that were added are looked at.
UnexpectedAddition(old, fresh) == storedVersionsAdded(old, fresh) \notin {{}, {old.storage}}

UnexpectedChange(old, fresh) ==
    \/ fresh.storage # old.storage
    \/ storedVersionsAdded(old, fresh) \notin {{}, {old.storage}}

\* patchCRDStoredVersions, one CRD: the fresh copy is read and compared.
ReadFreshCrd(m, c) ==
    /\ pc[m] = "patch"
    /\ Visiting(m, c)
    /\ \/ /\ UnexpectedChange(snap[m][c], crd[c])
          /\ Stop(m, "failed")
          /\ UNCHANGED heldCrds
       \/ /\ ~UnexpectedChange(snap[m][c], crd[c])
          /\ pc' = [pc EXCEPT ![m] = "write"]
          /\ heldCrds' = [heldCrds EXCEPT ![m] = {c}]
          /\ UNCHANGED <<pending, reading, updating>>
    /\ UNCHANGED <<server, heldObjs>>

\* Variant: the status is patched, without a resourceVersion.
StatusForced(m, c) == TRUE

\* The API server refuses a status written from a copy that is stale.
StatusAccepted(m, c) == c \in heldCrds[m]

\* patchCRDStoredVersions, one CRD: the status is written.  When the answer is
\* lost the write counts and the run fails; a conflict is a failed request.
WriteStoredVersions(m, c, err) ==
    /\ pc[m] = "write"
    /\ Visiting(m, c)
    /\ StatusAccepted(m, c)
    /\ PutStored(c, {snap[m][c].storage})
    /\ \/ /\ err = "none"
          /\ IF pending[m] = {c}
             THEN Stop(m, "migrated")
             ELSE /\ Visited(m, c, "patch", "patch", {})
                  /\ UNCHANGED <<reading, updating>>
       \/ /\ err = "other"
          /\ Stop(m, "failed")

\* Ctrl-C twice, an eviction, a lost terminal.
Kill(m) ==
    /\ pc[m] \in Running
    /\ Stop(m, "idle")
    /\ UNCHANGED <<server, held>>

Step(m) ==
    \/ RequestFails(m)
    \/ \E c \in Crds :
        \/ EnsureStorageVersion(m, c)
        \/ Discover(m, c)
        \/ ListObjects(m, c)
        \/ ObjectsDone(m, c)
        \/ ReadFreshCrd(m, c)
        \/ \E err \in {"none", "other"} : WriteStoredVersions(m, c, err)
    \/ \E o \in Objs, err \in {"none", "NotFound", "Conflict", "other"} :
        UpdateObject(m, o, err)

-----------------------------------------------------------------------------
(* Everybody else.                                                         *)

\* A create or an update by the controller or a user.  An update changes the
\* object, so every copy of it is stale even if its version stays.
ClientWrites(o) ==
    /\ obj' = [obj EXCEPT ![o] = crd[CrdOf[o]].storage]
    /\ heldObjs' = [m \in Migrators |-> heldObjs[m] \ {o}]
    /\ UNCHANGED <<crd, heldCrds>>

ClientDeletes(o) ==
    /\ obj[o] # Absent
    /\ obj' = [obj EXCEPT ![o] = Absent]
    /\ heldObjs' = [m \in Migrators |-> heldObjs[m] \ {o}]
    /\ UNCHANGED <<crd, heldCrds>>

\* Deployment tooling applies a CRD; the API server lists a new storage version.
StorageMoved(c, v) ==
    /\ <<crd[c].storage, v>> \in StorageMoves
    /\ crd' = [crd EXCEPT ![c] = [storage |-> v, stored |-> @.stored \cup {v}]]
    /\ heldCrds' = [m \in Migrators |-> heldCrds[m] \ {c}]
    /\ UNCHANGED <<obj, heldObjs>>

\* A change to anything else of a CRD, such as the CA bundle of its webhook.
CrdTouched(c) ==
    /\ heldCrds' = [m \in Migrators |-> heldCrds[m] \ {c}]
    /\ UNCHANGED <<server, heldObjs>>

Environment ==
    /\ \/ \E o \in Objs : ClientWrites(o) \/ ClientDeletes(o)
       \/ \E c \in Crds : CrdTouched(c) \/ \E v \in Versions : StorageMoved(c, v)
    /\ UNCHANGED <<pc, pending, reading, updating>>

-----------------------------------------------------------------------------

Next ==
    \/ \E m \in Migrators : Start(m) \/ Step(m) \/ Kill(m)
    \/ Environment

Spec == Init /\ [][Next]_vars

\* Every request the run sends is answered or fails in the end.
Fairness == \A m \in Migrators : WF_vars(Step(m))

FairSpec == Spec /\ Fairness

-----------------------------------------------------------------------------
(* What deployment tooling is assumed to do; the constants of a run say.   *)

\* A storage version that was left is not returned to.
ForwardOnly ==
    /\ \A v \in Versions : <<v, v>> \notin StorageMoves
    /\ \A u, v, w \in Versions :
        <<u, v>> \in StorageMoves /\ <<v, w>> \in StorageMoves
            => <<u, w>> \in StorageMoves

\* Nothing moves on from the target version: no rollback of cert-manager.
TargetLast == \A v \in Versions : <<Target, v>> \notin StorageMoves

-----------------------------------------------------------------------------
(* Properties.                                                             *)

\* The API server can read all it holds, however runs, clients, deployments
\* and lost answers interleave: no run of the migrator takes a version out of
\* storedVersions that an object is still kept in (migrator.go:197-231).
StoredVersionsCover == Abs!Readable

\* The storage version is always in storedVersions, even if it is changed
\* between the fresh read of the CRD and the write of its status: the write
\* carries the resourceVersion of the copy that was compared (migrator.go:204-225).
StorageVersionListed == Abs!StorageListed

\* When a run has told the user to go on and upgrade ("It is now safe to upgrade",
\* "You may proceed to upgrade", migrator.go:92 and 117), every object is in the
\* target version and storedVersions says so.
SafeToUpgrade ==
    \A m \in Migrators : pc[m] \in Upgrade =>
        /\ \A c \in Crds : crd[c] = [storage |-> Target, stored |-> {Target}]
        /\ \A o \in Objs : obj[o] \in {Target, Absent}

\* Seen from the API server all the runs together do nothing but put objects and
\* prune storedVersions when that is safe (migrator.go:197-199).
ImplementsStoredVersions == Abs!Spec

\* A run that started ends: no error is retried for ever (migrator.go:179-187).
RunEnds == \A m \in Migrators : pc[m] \in Running ~> pc[m] \in Stopped

\* "Successfully migrated all cert-manager resource types. It is now safe to
\* upgrade" (migrator.go:117) is true of the objects at the moment it is printed,
\* whatever deployment tooling does.
SuccessMeansMigrated ==
    [][\A m \in Migrators :
        pc[m] # "migrated" /\ pc'[m] = "migrated"
            => \A o \in Objs : obj'[o] \in {Target, Absent}]_vars

-----------------------------------------------------------------------------
(* The inductive invariants behind StoredVersionsCover and SafeToUpgrade.  *)

Migrating == {"list", "update", "patch", "write"}

\* The run has done for o all it is going to do.
Dealt(m, o) ==
    LET c == CrdOf[o]
    IN  /\ c \in require[m]
        /\ \/ pc[m] \in {"patch", "write"}
           \/ pc[m] \in {"list", "update"} /\ c \notin pending[m]
           \/ pc[m] = "update" /\ Visiting(m, c) /\ o \notin todo[m] \cap heldObjs[m]

Unmoved(m, c) == snap[m][c].storage = crd[c].storage

RunInv(m) ==
    /\ \A c \in require[m] : snap[m][c] \in CrdState
    /\ pc[m] = "ensure" /\ m \in SkipCheck => Crds = pending[m] \cup require[m]
    /\ pc[m] \in Migrating => pending[m] \subseteq require[m]
    /\ pc[m] = "write" => \A c \in heldCrds[m] \cap require[m] : Unmoved(m, c)

\* Holds of any deployment tooling: the CRDs a run migrates are ones it has read,
\* and the copy it compared is the stored one as long as it is not stale.
ServerInv ==
    /\ TypeOK
    /\ Abs!StorageListed
    /\ \A m \in Migrators : RunInv(m)

MovedForward(m, c) ==
    Unmoved(m, c) \/ <<snap[m][c].storage, crd[c].storage>> \in StorageMoves

DealtInv(m) ==
    /\ \A c \in require[m] : MovedForward(m, c)
    /\ \A o \in Objs : Dealt(m, o) /\ Unmoved(m, CrdOf[o])
                        => obj[o] \in {crd[CrdOf[o]].storage, Absent}

\* Holds if storage versions only move forward: as long as the CRD of o has not
\* moved since the run read it, an object the run is done with is in its version.
CoverInv ==
    /\ ServerInv
    /\ Abs!Readable
    /\ \A m \in Migrators : DealtInv(m)

AtTarget(c) == crd[c].storage = Target

Pruned(c) == crd[c].stored = {Target}

UpgradeRunInv(m) ==
    /\ \A c \in require[m] : snap[m][c].storage = Target
    /\ pc[m] = "ensure" => \A c \in Crds \ pending[m] : AtTarget(c)
    /\ pc[m] \in {"discover"} \cup Migrating \cup Upgrade => \A c \in Crds : AtTarget(c)
    /\ pc[m] = "discover" => \A c \in Crds \ (pending[m] \cup require[m]) : Pruned(c)
    /\ pc[m] \in {"list", "update"} => \A c \in Crds \ require[m] : Pruned(c)
    /\ pc[m] \in {"patch", "write"} => \A c \in Crds \ pending[m] : Pruned(c)
    /\ pc[m] \in Upgrade => \A c \in Crds : Pruned(c)

\* Holds if, besides, the target version is never left: what a run found to be in
\* the target version, or has brought there, stays there.
UpgradeInv == \A m \in Migrators : UpgradeRunInv(m)
=============================================================================
