--------------------------- MODULE MigratorProofs ---------------------------
(***************************************************************************)
(* Proofs about Migrator, for any number of CRDs, objects, versions and    *)
(* concurrent runs.                                                        *)
(*                                                                         *)
(*   ServerInv    whatever deployment tooling does                         *)
(*   CoverInv     if storage versions only move forward                    *)
(*   UpgradeInv   if, besides, the target version is never left            *)
(***************************************************************************)
EXTENDS Migrator, WellFoundedInduction, TLAPS

LEMMA RunningStopped ==
    \A p \in Running : p \notin Stopped
BY DEF Running, Stopped

-----------------------------------------------------------------------------
(* ServerInv.                                                              *)

LEMMA TypeInit == Init => TypeOK
BY ConstantsAssumption DEF Init, Abs!Init, Abs!TypeOK, Abs!CrdState, TypeOK, CrdState,
       Stopped, MaxAttempts

\* Ending a run leaves its local state well typed.
LEMMA StopType ==
    ASSUME TypeOK, NEW m \in Migrators, NEW outcome \in Stopped, Stop(m, outcome)
    PROVE  /\ pc' \in [Migrators -> Running \cup Stopped]
           /\ pending' \in [Migrators -> SUBSET Crds]
           /\ snap' \in [Migrators -> [Crds -> CrdState \cup {NoCrd}]]
           /\ require' \in [Migrators -> SUBSET Crds]
           /\ todo' \in [Migrators -> SUBSET Objs]
           /\ cur' \in [Migrators -> Objs \cup {NoObj}]
           /\ attempts' \in [Migrators -> 0..(MaxAttempts - 1)]
BY DEF TypeOK, Stop, MaxAttempts

\* So does going on to the next CRD, or to the next loop.
LEMMA VisitedType ==
    ASSUME TypeOK, NEW m \in Migrators, NEW c \in Crds,
           NEW same \in Running, NEW after \in Running, NEW cs \in SUBSET Crds,
           Visited(m, c, same, after, cs)
    PROVE  /\ pc' \in [Migrators -> Running \cup Stopped]
           /\ pending' \in [Migrators -> SUBSET Crds]
<1>1. CASE pending[m] = {c}
  BY <1>1 DEF TypeOK, Visited
<1>2. CASE pending[m] # {c}
  <2>1. pending[m] \ {c} \in SUBSET Crds
    BY DEF TypeOK
  <2>2. /\ pc' = [pc EXCEPT ![m] = same]
        /\ pending' = [pending EXCEPT ![m] = pending[m] \ {c}]
    BY <1>2 DEF Visited
  <2>3. pc' \in [Migrators -> Running \cup Stopped]
    BY <2>2 DEF TypeOK
  <2>4. pending' \in [Migrators -> SUBSET Crds]
    BY <2>1, <2>2 DEF TypeOK
  <2> QED
    BY <2>3, <2>4
<1> QED
  BY <1>1, <1>2

\* A run remembers a CRD as it read it.
LEMMA SnapType ==
    ASSUME TypeOK, NEW m \in Migrators, NEW c \in Crds
    PROVE  [snap EXCEPT ![m][c] = crd[c]] \in [Migrators -> [Crds -> CrdState \cup {NoCrd}]]
<1>1. crd[c] \in CrdState /\ snap[m] \in [Crds -> CrdState \cup {NoCrd}]
  BY DEF TypeOK
<1>2. [snap[m] EXCEPT ![c] = crd[c]] \in [Crds -> CrdState \cup {NoCrd}]
  BY <1>1
<1> QED
  BY <1>2 DEF TypeOK

\* The server's state stays well typed whoever writes to it.
LEMMA WriteType ==
    ASSUME TypeOK
    PROVE  /\ \A o \in Objs : crd[CrdOf[o]].storage \in Versions
           /\ \A o \in Objs, v \in Versions \cup {Absent} :
                [obj EXCEPT ![o] = v] \in [Objs -> Versions \cup {Absent}]
           /\ \A c \in Crds, vs \in SUBSET Versions :
                [crd EXCEPT ![c].stored = vs] \in [Crds -> CrdState]
           /\ \A c \in Crds, v \in Versions :
                [crd EXCEPT ![c] = [storage |-> v, stored |-> @.stored \cup {v}]]
                    \in [Crds -> CrdState]
           /\ \A o \in Objs : [m \in Migrators |-> heldObjs[m] \ {o}]
                    \in [Migrators -> SUBSET Objs]
           /\ \A c \in Crds : [m \in Migrators |-> heldCrds[m] \ {c}]
                    \in [Migrators -> SUBSET Crds]
<1>1. \A c \in Crds : /\ crd[c] \in CrdState
                       /\ crd[c].storage \in Versions
                       /\ crd[c].stored \in SUBSET Versions
  BY DEF TypeOK, CrdState
<1>2. \A o \in Objs : crd[CrdOf[o]].storage \in Versions
  BY <1>1, ConstantsAssumption
<1>3. ASSUME NEW c \in Crds, NEW vs \in SUBSET Versions
      PROVE  [crd EXCEPT ![c].stored = vs] \in [Crds -> CrdState]
  <2>1. [crd[c] EXCEPT !.stored = vs] \in CrdState
    BY <1>1 DEF CrdState
  <2> QED
    BY <2>1 DEF TypeOK
<1>4. ASSUME NEW c \in Crds, NEW v \in Versions
      PROVE  [crd EXCEPT ![c] = [storage |-> v, stored |-> @.stored \cup {v}]]
                    \in [Crds -> CrdState]
  <2>1. [storage |-> v, stored |-> crd[c].stored \cup {v}] \in CrdState
    BY <1>1 DEF CrdState
  <2> QED
    BY <2>1 DEF TypeOK
<1>5. \A o \in Objs, v \in Versions \cup {Absent} :
         [obj EXCEPT ![o] = v] \in [Objs -> Versions \cup {Absent}]
  BY DEF TypeOK
<1>6. \A o \in Objs : [m \in Migrators |-> heldObjs[m] \ {o}] \in [Migrators -> SUBSET Objs]
  BY DEF TypeOK
<1>7. \A c \in Crds : [m \in Migrators |-> heldCrds[m] \ {c}] \in [Migrators -> SUBSET Crds]
  BY DEF TypeOK
<1> QED
  BY <1>2, <1>3, <1>4, <1>5, <1>6, <1>7

LEMMA TypeStep ==
    ASSUME ServerInv, [Next]_vars
    PROVE  TypeOK'
<1>t. TypeOK
  BY DEF ServerInv
<1> USE <1>t
<1>s. /\ "ensure" \in Running /\ "discover" \in Running /\ "list" \in Running
      /\ "update" \in Running /\ "patch" \in Running /\ "write" \in Running
      /\ "idle" \in Stopped /\ "refused" \in Stopped /\ "nothing" \in Stopped
      /\ "migrated" \in Stopped /\ "failed" \in Stopped
  BY DEF Running, Stopped
<1>1. ASSUME NEW m \in Migrators, Start(m) PROVE TypeOK'
  BY <1>1, <1>s DEF Start, server, reading, updating, TypeOK
<1>2. ASSUME NEW m \in Migrators, RequestFails(m) PROVE TypeOK'
  BY <1>2, <1>s, StopType DEF RequestFails, server, held, TypeOK
<1>3. ASSUME NEW m \in Migrators, NEW c \in Crds, EnsureStorageVersion(m, c)
      PROVE  TypeOK'
  <2>1. CASE Stop(m, "refused")
    BY <1>3, <1>s, <2>1, StopType DEF EnsureStorageVersion, server, held, TypeOK
  <2>2. CASE crd[c].storage = Target
    <3>1. snap' = [snap EXCEPT ![m][c] = crd[c]]
      BY <1>3, <2>2 DEF EnsureStorageVersion
    <3>2. require' = [require EXCEPT ![m] = @ \cup {c}] \/ require' = require
      BY <1>3, <2>2 DEF EnsureStorageVersion
    <3>3. require' \in [Migrators -> SUBSET Crds]
      BY <3>2 DEF TypeOK
    <3>4. \/ Visited(m, c, "ensure", "list", Crds)
          \/ Visited(m, c, "ensure", "discover", Crds)
      BY <1>3, <2>2 DEF EnsureStorageVersion
    <3>5. UNCHANGED <<server, held, updating>>
      BY <1>3, <2>2 DEF EnsureStorageVersion
    <3> QED
      BY <1>s, <3>1, <3>3, <3>4, <3>5, SnapType, VisitedType
      DEF server, held, updating, TypeOK
  <2> QED
    BY <1>3, <2>1, <2>2 DEF EnsureStorageVersion
<1>4. ASSUME NEW m \in Migrators, NEW c \in Crds, Discover(m, c)
      PROVE  TypeOK'
  <2> DEFINE requiring == require[m] \cup {d \in {c} : RequiresMigration(crd[d])}
  <2>1. requiring \in SUBSET Crds
    BY DEF TypeOK
  <2>2. CASE Stop(m, "nothing")
    BY <1>4, <1>s, <2>2, StopType DEF Discover, server, held, TypeOK
  <2>3. CASE /\ snap' = [snap EXCEPT ![m][c] = crd[c]]
             /\ require' = [require EXCEPT ![m] = requiring]
             /\ Visited(m, c, "discover", "list", requiring)
             /\ UNCHANGED updating
    <3>1. require' \in [Migrators -> SUBSET Crds]
      BY <2>1, <2>3 DEF TypeOK
    <3>2. UNCHANGED <<server, held>>
      BY <1>4 DEF Discover
    <3> QED
      BY <1>s, <2>1, <2>3, <3>1, <3>2, SnapType, VisitedType
      DEF server, held, updating, TypeOK
  <2> QED
    BY <1>4, <2>2, <2>3 DEF Discover
<1>5. ASSUME NEW m \in Migrators, NEW c \in Crds, ListObjects(m, c)
      PROVE  TypeOK'
  BY <1>5, <1>s DEF ListObjects, server, reading, TypeOK
<1>6. ASSUME NEW m \in Migrators, NEW o \in Objs,
             NEW err \in {"none", "NotFound", "Conflict", "other"}, UpdateObject(m, o, err)
      PROVE  TypeOK'
  <2>1. /\ crd' \in [Crds -> CrdState]
        /\ obj' \in [Objs -> Versions \cup {Absent}]
        /\ heldObjs' \in [Migrators -> SUBSET Objs]
        /\ heldCrds' \in [Migrators -> SUBSET Crds]
    <3>1. CASE UNCHANGED <<server, held>>
      BY <3>1 DEF server, held, TypeOK
    <3>2. CASE PutObj(o)
      BY <3>2, WriteType DEF PutObj, TypeOK
    <3> QED
      BY <1>6, <3>1, <3>2 DEF UpdateObject, UpdateAnswers
  <2>2. CASE /\ todo' = [todo EXCEPT ![m] = @ \ {o}]
             /\ cur' = [cur EXCEPT ![m] = NoObj]
             /\ attempts' = [attempts EXCEPT ![m] = 0]
             /\ UNCHANGED <<pc, pending, reading>>
    <3>1. todo' \in [Migrators -> SUBSET Objs]
      BY <2>2 DEF TypeOK
    <3> QED
      BY <2>1, <2>2, <3>1 DEF reading, TypeOK, MaxAttempts
  <2>3. CASE /\ MayRetry(attempts[m])
             /\ cur' = [cur EXCEPT ![m] = o]
             /\ attempts' = [attempts EXCEPT ![m] = @ + 1]
             /\ UNCHANGED <<pc, pending, reading, todo>>
    <3>1. attempts[m] \in 0..2 /\ attempts[m] + 1 < 3
      BY <2>3 DEF TypeOK, MaxAttempts, MayRetry
    <3>2. attempts[m] + 1 \in 0..2
      BY <3>1
    <3>3. attempts' \in [Migrators -> 0..2]
      BY <2>3, <3>2 DEF TypeOK, MaxAttempts
    <3> QED
      BY <2>1, <2>3, <3>3 DEF reading, TypeOK, MaxAttempts
  <2>4. CASE Stop(m, "failed")
    BY <1>s, <2>1, <2>4, StopType DEF TypeOK
  <2> QED
    BY <1>6, <2>2, <2>3, <2>4 DEF UpdateObject
<1>7. ASSUME NEW m \in Migrators, NEW c \in Crds, ObjectsDone(m, c)
      PROVE  TypeOK'
  <2>1. require[m] \in SUBSET Crds /\ heldObjs' \in [Migrators -> SUBSET Objs]
    BY <1>7 DEF ObjectsDone, TypeOK
  <2> QED
    BY <1>7, <1>s, <2>1, VisitedType DEF ObjectsDone, server, reading, updating, TypeOK
<1>8. ASSUME NEW m \in Migrators, NEW c \in Crds, ReadFreshCrd(m, c)
      PROVE  TypeOK'
  <2>1. CASE Stop(m, "failed") /\ UNCHANGED heldCrds
    BY <1>8, <1>s, <2>1, StopType DEF ReadFreshCrd, server, TypeOK
  <2>2. CASE /\ pc' = [pc EXCEPT ![m] = "write"]
             /\ heldCrds' = [heldCrds EXCEPT ![m] = {c}]
             /\ UNCHANGED <<pending, reading, updating>>
    BY <1>8, <1>s, <2>2 DEF ReadFreshCrd, server, reading, updating, TypeOK
  <2> QED
    BY <1>8, <2>1, <2>2 DEF ReadFreshCrd
<1>9. ASSUME NEW m \in Migrators, NEW c \in Crds,
             NEW err \in {"none", "other"}, WriteStoredVersions(m, c, err)
      PROVE  TypeOK'
  <2>1. snap[m][c] \in CrdState
    BY <1>9 DEF WriteStoredVersions, Visiting, ServerInv, RunInv, Migrating
  <2>2. {snap[m][c].storage} \in SUBSET Versions
    BY <2>1 DEF CrdState
  <2>3. /\ crd' \in [Crds -> CrdState]
        /\ obj' \in [Objs -> Versions \cup {Absent}]
        /\ heldObjs' \in [Migrators -> SUBSET Objs]
        /\ heldCrds' \in [Migrators -> SUBSET Crds]
    BY <1>9, <2>2, WriteType DEF WriteStoredVersions, PutStored, TypeOK
  <2>4. CASE \E outcome \in Stopped : Stop(m, outcome)
    BY <1>t, <2>3, <2>4, StopType DEF TypeOK
  <2>5. CASE Visited(m, c, "patch", "patch", {}) /\ UNCHANGED <<reading, updating>>
    BY <1>s, <2>3, <2>5, VisitedType DEF reading, updating, TypeOK
  <2> QED
    BY <1>9, <1>s, <2>4, <2>5 DEF WriteStoredVersions
<1>10. ASSUME NEW m \in Migrators, Kill(m) PROVE TypeOK'
  BY <1>10, <1>s, StopType DEF Kill, server, held, TypeOK
<1>11. CASE Environment
  <2>1. /\ crd' \in [Crds -> CrdState]
        /\ obj' \in [Objs -> Versions \cup {Absent}]
        /\ heldObjs' \in [Migrators -> SUBSET Objs]
        /\ heldCrds' \in [Migrators -> SUBSET Crds]
    <3>1. ASSUME NEW o \in Objs, ClientWrites(o) PROVE <2>1
      BY <3>1, WriteType DEF ClientWrites, TypeOK
    <3>4. ASSUME NEW o \in Objs, ClientDeletes(o) PROVE <2>1
      BY <3>4, WriteType DEF ClientDeletes, TypeOK
    <3>2. ASSUME NEW c \in Crds, NEW v \in Versions, StorageMoved(c, v) PROVE <2>1
      BY <3>2, WriteType DEF StorageMoved, TypeOK
    <3>3. ASSUME NEW c \in Crds, CrdTouched(c) PROVE <2>1
      BY <3>3, WriteType DEF CrdTouched, server, TypeOK
    <3> QED
      BY <1>11, <3>1, <3>2, <3>3, <3>4 DEF Environment
  <2> QED
    BY <1>11, <2>1 DEF Environment, reading, updating, TypeOK
<1>12. CASE UNCHANGED vars
  BY <1>12 DEF vars, server, reading, updating, held, TypeOK
<1> QED
  BY <1>1, <1>2, <1>3, <1>4, <1>5, <1>6, <1>7, <1>8, <1>9, <1>10, <1>11, <1>12
  DEF Next, Step

-----------------------------------------------------------------------------
(* What a step leaves alone.                                               *)

\* A step of one run changes nothing the others know, except that it may make
\* copies of theirs stale; and no run changes a storage version.
LEMMA OthersUntouched ==
    ASSUME TypeOK, NEW m \in Migrators, Start(m) \/ Step(m) \/ Kill(m)
    PROVE  /\ \A n \in Migrators \ {m} :
                /\ pc'[n] = pc[n] /\ pending'[n] = pending[n]
                /\ snap'[n] = snap[n] /\ require'[n] = require[n]
                /\ todo'[n] = todo[n] /\ cur'[n] = cur[n] /\ attempts'[n] = attempts[n]
                /\ heldCrds'[n] \subseteq heldCrds[n]
           /\ \A c \in Crds : crd'[c].storage = crd[c].storage
<1> DEFINE Local(n) == /\ pc'[n] = pc[n] /\ pending'[n] = pending[n]
                       /\ snap'[n] = snap[n] /\ require'[n] = require[n]
                       /\ todo'[n] = todo[n] /\ cur'[n] = cur[n] /\ attempts'[n] = attempts[n]
                       /\ heldCrds'[n] \subseteq heldCrds[n]
           Goal == /\ \A n \in Migrators \ {m} : Local(n)
                   /\ \A c \in Crds : crd'[c].storage = crd[c].storage
<1> SUFFICES Goal
  OBVIOUS
<1>1. CASE Start(m)
  BY <1>1 DEF Start, server, reading, updating, TypeOK
<1>2. CASE RequestFails(m)
  BY <1>2 DEF RequestFails, Stop, server, held, TypeOK
<1>3. ASSUME NEW c \in Crds, EnsureStorageVersion(m, c) PROVE Goal
  BY <1>3 DEF EnsureStorageVersion, Stop, Visited, server, held, updating, TypeOK
<1>4. ASSUME NEW c \in Crds, Discover(m, c) PROVE Goal
  BY <1>4 DEF Discover, Stop, Visited, server, held, updating, TypeOK
<1>5. ASSUME NEW c \in Crds, ListObjects(m, c) PROVE Goal
  BY <1>5 DEF ListObjects, server, reading, TypeOK
<1>6. ASSUME NEW c \in Crds, ObjectsDone(m, c) PROVE Goal
  BY <1>6 DEF ObjectsDone, Visited, server, reading, updating, TypeOK
<1>7. ASSUME NEW c \in Crds, ReadFreshCrd(m, c) PROVE Goal
  BY <1>7 DEF ReadFreshCrd, Stop, server, reading, updating, TypeOK
<1>8. ASSUME NEW c \in Crds, NEW err \in {"none", "other"}, WriteStoredVersions(m, c, err)
      PROVE  Goal
  <2>1. \A n \in Migrators \ {m} : Local(n)
    BY <1>8 DEF WriteStoredVersions, PutStored, Stop, Visited, reading, updating, TypeOK
  <2>2. \A d \in Crds : crd'[d].storage = crd[d].storage
    BY <1>8 DEF WriteStoredVersions, PutStored, TypeOK, CrdState
  <2> QED
    BY <2>1, <2>2
<1>9. ASSUME NEW o \in Objs, NEW err \in {"none", "NotFound", "Conflict", "other"},
             UpdateObject(m, o, err)
      PROVE  Goal
  <2>1. crd' = crd /\ heldCrds' = heldCrds
    BY <1>9 DEF UpdateObject, UpdateAnswers, PutObj, server, held
  <2>2. \A n \in Migrators \ {m} : Local(n)
    BY <1>9, <2>1 DEF UpdateObject, Stop, reading, TypeOK
  <2> QED
    BY <2>1, <2>2
<1>10. CASE Kill(m)
  BY <1>10 DEF Kill, Stop, server, held, TypeOK
<1> QED
  BY <1>1, <1>2, <1>3, <1>4, <1>5, <1>6, <1>7, <1>8, <1>9, <1>10 DEF Step

-----------------------------------------------------------------------------
(* ServerInv.                                                              *)

LEMMA ServerInit == Init => ServerInv
BY TypeInit DEF Init, Abs!Init, ServerInv, RunInv, Migrating

\* A run that has stopped satisfies its invariant trivially.
LEMMA StopInv ==
    ASSUME TypeOK, NEW m \in Migrators, NEW outcome \in Stopped, Stop(m, outcome)
    PROVE  RunInv(m)'
BY DEF TypeOK, Stop, RunInv, Migrating, Stopped

\* The invariant of the run that makes the step.
LEMMA OwnRunInv ==
    ASSUME ServerInv,
           NEW m \in Migrators, Start(m) \/ Step(m) \/ Kill(m)
    PROVE  RunInv(m)'
<1>t. TypeOK /\ RunInv(m)
  BY DEF ServerInv
<1> USE <1>t
<1>s. {"idle", "refused", "nothing", "migrated", "failed"} \subseteq Stopped
  BY DEF Stopped
<1>0. CASE \E outcome \in Stopped : Stop(m, outcome)
  BY <1>0, StopInv
<1>u. \A c \in Crds : crd'[c].storage = crd[c].storage
  BY OthersUntouched
<1>1. CASE Start(m)
  BY <1>1 DEF Start, reading, RunInv, Migrating, TypeOK
<1>2. CASE RequestFails(m) \/ Kill(m)
  BY <1>0, <1>2, <1>s DEF RequestFails, Kill
<1>3. ASSUME NEW c \in Crds, EnsureStorageVersion(m, c) PROVE RunInv(m)'
  <2>1. CASE crd[c].storage = Target
    <3>1. snap' = [snap EXCEPT ![m][c] = crd[c]]
      BY <1>3, <2>1 DEF EnsureStorageVersion
    <3>2. \/ /\ require' = [require EXCEPT ![m] = @ \cup {c}]
             /\ Visited(m, c, "ensure", "list", Crds)
             /\ m \in SkipCheck
          \/ /\ require' = require
             /\ Visited(m, c, "ensure", "discover", Crds)
             /\ m \notin SkipCheck
      BY <1>3, <2>1 DEF EnsureStorageVersion
    <3>3. \A d \in require'[m] : snap'[m][d] \in CrdState
      <4>1. \A d \in require'[m] : d \in Crds /\ (d = c \/ d \in require[m])
        BY <3>2 DEF TypeOK
      <4>2. \A d \in Crds : snap'[m][d] = IF d = c THEN crd[c] ELSE snap[m][d]
        BY <3>1 DEF TypeOK
      <4> QED
        BY <4>1, <4>2 DEF RunInv, TypeOK
    <3>4. pc[m] = "ensure" /\ c \in pending[m]
      BY <1>3 DEF EnsureStorageVersion, Visiting
    <3>5. CASE pending[m] = {c}
      BY <3>2, <3>3, <3>4, <3>5 DEF Visited, RunInv, Migrating, TypeOK
    <3>6. CASE pending[m] # {c}
      BY <3>2, <3>3, <3>4, <3>6 DEF Visited, RunInv, Migrating, TypeOK
    <3> QED
      BY <3>5, <3>6
  <2> QED
    BY <1>0, <1>3, <1>s, <2>1 DEF EnsureStorageVersion
<1>4. ASSUME NEW c \in Crds, Discover(m, c) PROVE RunInv(m)'
  <2> DEFINE requiring == require[m] \cup {d \in {c} : RequiresMigration(crd[d])}
  <2>1. CASE /\ snap' = [snap EXCEPT ![m][c] = crd[c]]
             /\ require' = [require EXCEPT ![m] = requiring]
             /\ Visited(m, c, "discover", "list", requiring)
    <3>1. \A d \in require'[m] : snap'[m][d] \in CrdState
      <4>1. \A d \in require'[m] : d \in Crds /\ (d = c \/ d \in require[m])
        BY <2>1 DEF TypeOK
      <4>2. \A d \in Crds : snap'[m][d] = IF d = c THEN crd[c] ELSE snap[m][d]
        BY <2>1 DEF TypeOK
      <4> QED
        BY <4>1, <4>2 DEF RunInv, TypeOK
    <3>2. require'[m] = requiring
      BY <2>1 DEF TypeOK
    <3>3. \/ pc'[m] = "list" /\ pending'[m] = requiring
          \/ pc'[m] = "discover"
      BY <2>1 DEF Visited, TypeOK
    <3> HIDE DEF requiring
    <3> QED
      BY <3>1, <3>2, <3>3 DEF RunInv, Migrating
  <2> QED
    BY <1>0, <1>4, <1>s, <2>1 DEF Discover
<1>5. ASSUME NEW c \in Crds, ListObjects(m, c) PROVE RunInv(m)'
  BY <1>5 DEF ListObjects, reading, server, RunInv, Migrating, TypeOK
<1>6. ASSUME NEW c \in Crds, ObjectsDone(m, c) PROVE RunInv(m)'
  BY <1>6 DEF ObjectsDone, Visited, reading, server, RunInv, Migrating, TypeOK
<1>7. ASSUME NEW c \in Crds, ReadFreshCrd(m, c) PROVE RunInv(m)'
  <2>1. CASE ~UnexpectedChange(snap[m][c], crd[c])
    BY <1>7, <2>1
    DEF ReadFreshCrd, UnexpectedChange, reading, server, RunInv, Unmoved, Migrating, TypeOK
  <2> QED
    BY <1>0, <1>7, <1>s, <2>1 DEF ReadFreshCrd
<1>8. ASSUME NEW c \in Crds, NEW err \in {"none", "other"}, WriteStoredVersions(m, c, err)
      PROVE  RunInv(m)'
  <2>1. CASE Visited(m, c, "patch", "patch", {}) /\ UNCHANGED <<reading, updating>>
    BY <1>8, <2>1 DEF WriteStoredVersions, Visited, reading, RunInv, Migrating, TypeOK
  <2> QED
    BY <1>0, <1>8, <1>s, <2>1 DEF WriteStoredVersions
<1>9. ASSUME NEW o \in Objs, NEW err \in {"none", "NotFound", "Conflict", "other"},
             UpdateObject(m, o, err)
      PROVE  RunInv(m)'
  <2>1. CASE UNCHANGED <<pc, pending, reading>>
    BY <1>9, <2>1 DEF UpdateObject, reading, RunInv, Migrating, TypeOK
  <2> QED
    BY <1>0, <1>9, <1>s, <2>1 DEF UpdateObject
<1> QED
  BY <1>1, <1>2, <1>3, <1>4, <1>5, <1>6, <1>7, <1>8, <1>9 DEF Step

\* Steps of the environment, as far as the runs can tell.
LEMMA EnvironmentEffect ==
    ASSUME TypeOK, Environment
    PROVE  /\ \A m \in Migrators :
                /\ pc'[m] = pc[m] /\ pending'[m] = pending[m]
                /\ snap'[m] = snap[m] /\ require'[m] = require[m]
                /\ todo'[m] = todo[m]
                /\ heldObjs'[m] \subseteq heldObjs[m]
                /\ heldCrds'[m] \subseteq heldCrds[m]
                /\ \A c \in heldCrds'[m] : crd'[c] = crd[c]
           /\ \A c \in Crds :
                \/ crd'[c] = crd[c]
                \/ \E v \in Versions :
                    /\ <<crd[c].storage, v>> \in StorageMoves
                    /\ crd'[c] = [storage |-> v, stored |-> crd[c].stored \cup {v}]
<1>1. ASSUME NEW m \in Migrators
      PROVE  /\ pc'[m] = pc[m] /\ pending'[m] = pending[m]
             /\ snap'[m] = snap[m] /\ require'[m] = require[m]
             /\ todo'[m] = todo[m]
  BY DEF Environment, reading, updating
<1>2. CASE \E o \in Objs : ClientWrites(o) \/ ClientDeletes(o)
  BY <1>1, <1>2 DEF ClientWrites, ClientDeletes, TypeOK
<1>3. CASE \E c \in Crds : CrdTouched(c)
  BY <1>1, <1>3 DEF CrdTouched, server, TypeOK
<1>4. CASE \E c \in Crds, v \in Versions : StorageMoved(c, v)
  <2>1. PICK c \in Crds, v \in Versions : StorageMoved(c, v)
    BY <1>4
  <2>2. \A d \in Crds : crd'[d] = IF d = c THEN [storage |-> v, stored |-> crd[c].stored \cup {v}]
                                   ELSE crd[d]
    BY <2>1 DEF StorageMoved, TypeOK
  <2>3. \A m \in Migrators : heldObjs'[m] = heldObjs[m] /\ heldCrds'[m] = heldCrds[m] \ {c}
    BY <2>1 DEF StorageMoved, TypeOK
  <2>4. \A m \in Migrators : \A d \in heldCrds'[m] : d \in Crds /\ d # c
    BY <2>3 DEF TypeOK
  <2> QED
    BY <1>1, <2>1, <2>2, <2>3, <2>4 DEF StorageMoved
<1> QED
  BY <1>2, <1>3, <1>4 DEF Environment

LEMMA ServerStep ==
    ASSUME ServerInv, [Next]_vars
    PROVE  ServerInv'
<1>t. TypeOK /\ TypeOK'
  BY TypeStep DEF ServerInv
<1>1. ASSUME NEW m \in Migrators, Start(m) \/ Step(m) \/ Kill(m)
      PROVE  ServerInv'
  <2>1. ASSUME NEW n \in Migrators \ {m} PROVE RunInv(n)'
    BY <1>1, <1>t, OthersUntouched DEF ServerInv, RunInv, Unmoved, TypeOK
  <2>2. RunInv(m)'
    BY <1>1, OwnRunInv
  <2>3. Abs!StorageListed'
    <3>1. CASE UNCHANGED crd
      BY <3>1 DEF ServerInv, Abs!StorageListed
    <3>2. ASSUME NEW c \in Crds, NEW err \in {"none", "other"}, WriteStoredVersions(m, c, err)
          PROVE  Abs!StorageListed'
      <4>1. snap[m][c].storage = crd[c].storage
        BY <3>2 DEF WriteStoredVersions, Visiting, StatusAccepted, ServerInv, RunInv,
                    Unmoved, Migrating
      <4>2. crd' = [crd EXCEPT ![c].stored = {crd[c].storage}]
        BY <3>2, <4>1 DEF WriteStoredVersions, PutStored
      <4> QED
        BY <1>t, <4>2 DEF ServerInv, Abs!StorageListed, TypeOK, CrdState
    <3> QED
      BY <1>1, <3>1, <3>2
      DEF Start, Kill, Step, RequestFails, EnsureStorageVersion, Discover, ListObjects,
          ObjectsDone, ReadFreshCrd, UpdateObject, UpdateAnswers, PutObj, server
  <2> QED
    BY <1>t, <2>1, <2>2, <2>3 DEF ServerInv
<1>2. CASE Environment
  <2>1. ASSUME NEW m \in Migrators PROVE RunInv(m)'
    BY <1>2, <1>t, EnvironmentEffect DEF ServerInv, RunInv, Unmoved, TypeOK
  <2>2. ASSUME NEW c \in Crds PROVE crd'[c].storage \in crd'[c].stored
    <3>1. CASE crd'[c] = crd[c]
      BY <3>1 DEF ServerInv, Abs!StorageListed
    <3>2. ASSUME NEW v \in Versions,
                 crd'[c] = [storage |-> v, stored |-> crd[c].stored \cup {v}]
          PROVE  crd'[c].storage \in crd'[c].stored
      BY <3>2
    <3> QED
      BY <1>2, <1>t, <3>1, <3>2, EnvironmentEffect
  <2>3. Abs!StorageListed'
    BY <2>2 DEF Abs!StorageListed
  <2> QED
    BY <1>t, <2>1, <2>3 DEF ServerInv
<1>3. CASE UNCHANGED vars
  BY <1>3, <1>t
  DEF vars, server, reading, updating, held, ServerInv, RunInv, Unmoved, Abs!StorageListed
<1> QED
  BY <1>1, <1>2, <1>3 DEF Next

\* Whatever deployment tooling does, the API server's state and the runs' stay
\* well typed (migrator.go:71-231).
THEOREM TypeCorrect == Spec => []TypeOK
<1>1. Init => ServerInv
  BY ServerInit
<1>2. ServerInv /\ [Next]_vars => ServerInv'
  BY ServerStep
<1>3. ServerInv => TypeOK
  BY DEF ServerInv
<1> QED
  BY <1>1, <1>2, <1>3, PTL DEF Spec

\* Whatever deployment tooling does, the storage version is always listed: a run
\* never writes a status that it compared before the CRD changed (migrator.go:204-225).
THEOREM StorageVersionAlwaysListed == Spec => []StorageVersionListed
<1>1. Init => ServerInv
  BY ServerInit
<1>2. ServerInv /\ [Next]_vars => ServerInv'
  BY ServerStep
<1>3. ServerInv => StorageVersionListed
  BY DEF ServerInv, StorageVersionListed
<1> QED
  BY <1>1, <1>2, <1>3, PTL DEF Spec

-----------------------------------------------------------------------------
(* CoverInv.                                                               *)

\* An object either is as it was, for the server and for run n, or is now in the
\* storage version, or gone.
SameOrStored(n, o) ==
    \/ obj'[o] = obj[o] /\ (o \in heldObjs'[n] <=> o \in heldObjs[n])
    \/ obj'[o] \in {crd'[CrdOf[o]].storage, Absent}

\* What others do cannot undo what run n has done.
LEMMA DealtKept ==
    ASSUME ForwardOnly, TypeOK, NEW n \in Migrators, DealtInv(n),
           pc'[n] = pc[n], pending'[n] = pending[n], snap'[n] = snap[n],
           require'[n] = require[n], todo'[n] = todo[n],
           \A o \in Objs : SameOrStored(n, o),
           \A c \in Crds : /\ crd'[c].storage \in Versions
                           /\ \/ crd'[c].storage = crd[c].storage
                              \/ <<crd[c].storage, crd'[c].storage>> \in StorageMoves,
           \A c \in require[n] : snap[n][c] \in CrdState
    PROVE  DealtInv(n)'
<1>1. \A c \in Crds : crd[c].storage \in Versions
  BY DEF TypeOK, CrdState
<1>2. \A c \in require[n] : c \in Crds /\ snap[n][c].storage \in Versions
  BY DEF TypeOK, CrdState
<1>3. ASSUME NEW c \in require'[n]
      PROVE  /\ MovedForward(n, c)'
             /\ Unmoved(n, c)' => Unmoved(n, c) /\ crd'[c].storage = crd[c].storage
  <2>1. c \in Crds /\ c \in require[n] /\ MovedForward(n, c)
    BY <1>2 DEF DealtInv
  <2>2. \A v \in Versions : <<v, v>> \notin StorageMoves
    BY DEF ForwardOnly
  <2>3. CASE crd'[c].storage = crd[c].storage
    BY <2>1, <2>3 DEF MovedForward, Unmoved
  <2>4. CASE <<crd[c].storage, crd'[c].storage>> \in StorageMoves
    <3>1. <<snap[n][c].storage, crd'[c].storage>> \in StorageMoves
      BY <1>1, <1>2, <2>1, <2>4 DEF ForwardOnly, MovedForward, Unmoved
    <3> QED
      BY <1>2, <2>1, <2>2, <3>1 DEF MovedForward, Unmoved
  <2> QED
    BY <2>1, <2>3, <2>4
<1>4. ASSUME NEW o \in Objs, Dealt(n, o)', Unmoved(n, CrdOf[o])'
      PROVE  obj'[o] \in {crd'[CrdOf[o]].storage, Absent}
  <2>1. CrdOf[o] \in require'[n]
    BY <1>4 DEF Dealt
  <2>2. Unmoved(n, CrdOf[o]) /\ crd'[CrdOf[o]].storage = crd[CrdOf[o]].storage
    BY <1>3, <1>4, <2>1
  <2>3. CASE obj'[o] = obj[o] /\ (o \in heldObjs'[n] <=> o \in heldObjs[n])
    <3>1. Dealt(n, o)
      BY <1>4, <2>3 DEF Dealt, Visiting
    <3> QED
      BY <2>2, <2>3, <3>1 DEF DealtInv
  <2> QED
    BY <2>3 DEF SameOrStored
<1> QED
  BY <1>3, <1>4 DEF DealtInv

LEMMA RunObjectEffect ==
    ASSUME TypeOK, NEW m \in Migrators, Start(m) \/ Step(m) \/ Kill(m)
    PROVE  \A n \in Migrators \ {m}, o \in Objs : SameOrStored(n, o)
<1>1. CASE /\ UNCHANGED obj
           /\ \A n \in Migrators \ {m} : heldObjs'[n] = heldObjs[n]
  BY <1>1 DEF SameOrStored
<1>2. ASSUME NEW p \in Objs, PutObj(p)
      PROVE  \A n \in Migrators \ {m}, o \in Objs : SameOrStored(n, o)
  BY <1>2 DEF PutObj, SameOrStored, TypeOK
<1>3. CASE Start(m)
  BY <1>1, <1>3 DEF Start, server, TypeOK
<1>4. CASE RequestFails(m) \/ Kill(m)
  BY <1>1, <1>4 DEF RequestFails, Kill, server, held
<1>5. ASSUME NEW c \in Crds,
             \/ EnsureStorageVersion(m, c) \/ Discover(m, c) \/ ListObjects(m, c)
             \/ ObjectsDone(m, c) \/ ReadFreshCrd(m, c)
             \/ \E err \in {"none", "other"} : WriteStoredVersions(m, c, err)
      PROVE  /\ UNCHANGED obj
             /\ \A n \in Migrators \ {m} : heldObjs'[n] = heldObjs[n]
  BY <1>5 DEF EnsureStorageVersion, Discover, ListObjects, ObjectsDone, ReadFreshCrd,
              WriteStoredVersions, PutStored, server, held, TypeOK
<1>6. ASSUME NEW o \in Objs, NEW err \in {"none", "NotFound", "Conflict", "other"},
             UpdateObject(m, o, err)
      PROVE  UNCHANGED <<server, held>> \/ PutObj(o)
  BY <1>6 DEF UpdateObject, UpdateAnswers
<1>7. CASE \E o \in Objs, err \in {"none", "NotFound", "Conflict", "other"} :
              UpdateObject(m, o, err)
  BY <1>1, <1>2, <1>6, <1>7 DEF server, held
<1> QED
  BY <1>1, <1>3, <1>4, <1>5, <1>7 DEF Step

LEMMA EnvironmentObjectEffect ==
    ASSUME TypeOK, Environment
    PROVE  \A n \in Migrators, o \in Objs : SameOrStored(n, o)
<1>1. CASE \E p \in Objs : ClientWrites(p)
  BY <1>1 DEF ClientWrites, SameOrStored, TypeOK
<1>2. CASE \E p \in Objs : ClientDeletes(p)
  BY <1>2 DEF ClientDeletes, SameOrStored, TypeOK
<1>3. CASE \E c \in Crds : CrdTouched(c) \/ \E v \in Versions : StorageMoved(c, v)
  BY <1>3 DEF CrdTouched, StorageMoved, server, SameOrStored
<1> QED
  BY <1>1, <1>2, <1>3 DEF Environment

\* What a run does itself: it is done with an object only when the object is in
\* the version of the CRD the run has read, unless the CRD has moved since.
LEMMA OwnDealtInv ==
    ASSUME ServerInv, NEW m \in Migrators, DealtInv(m), Start(m) \/ Step(m) \/ Kill(m)
    PROVE  DealtInv(m)'
<1>t. TypeOK /\ RunInv(m)
  BY DEF ServerInv
<1> USE <1>t
<1>u. \A c \in Crds : crd'[c].storage = crd[c].storage
  BY OthersUntouched
<1>v. \A o \in Objs : CrdOf[o] \in Crds
  BY ConstantsAssumption
<1>0. CASE \E outcome : Stop(m, outcome)
  BY <1>0 DEF Stop, DealtInv, Dealt, TypeOK
<1>1. CASE Start(m)
  <2>1. pc'[m] = "ensure" /\ UNCHANGED <<server, reading>>
    BY <1>1 DEF Start, TypeOK
  <2> QED
    BY <2>1 DEF server, reading, DealtInv, Dealt, MovedForward, Unmoved
<1>2. CASE RequestFails(m) \/ Kill(m)
  BY <1>0, <1>2 DEF RequestFails, Kill
<1>3. ASSUME pc'[m] \in {"ensure", "discover"} \/ (pc'[m] = "list" /\ pending'[m] = require'[m]),
             \A c \in require'[m] : MovedForward(m, c)'
      PROVE  DealtInv(m)'
  BY <1>3 DEF DealtInv, Dealt
<1>4. ASSUME NEW c \in Crds, EnsureStorageVersion(m, c) PROVE DealtInv(m)'
  <2>1. CASE crd[c].storage = Target
    <3>1. snap' = [snap EXCEPT ![m][c] = crd[c]] /\ crd' = crd
      BY <1>4, <2>1 DEF EnsureStorageVersion, server
    <3>2. \/ /\ require' = [require EXCEPT ![m] = @ \cup {c}]
             /\ Visited(m, c, "ensure", "list", Crds)
             /\ m \in SkipCheck
          \/ /\ require' = require
             /\ Visited(m, c, "ensure", "discover", Crds)
             /\ m \notin SkipCheck
      BY <1>4, <2>1 DEF EnsureStorageVersion
    <3>3. \A d \in require'[m] : MovedForward(m, d)'
      <4>1. \A d \in require'[m] : d \in Crds /\ (d = c \/ d \in require[m])
        BY <3>2 DEF TypeOK
      <4>2. \A d \in Crds : snap'[m][d] = IF d = c THEN crd[c] ELSE snap[m][d]
        BY <3>1 DEF TypeOK
      <4> QED
        BY <3>1, <4>1, <4>2 DEF DealtInv, MovedForward, Unmoved
    <3>4. pc[m] = "ensure" /\ c \in pending[m]
      BY <1>4 DEF EnsureStorageVersion, Visiting
    <3>5. pc'[m] \in {"ensure", "discover"} \/ (pc'[m] = "list" /\ pending'[m] = require'[m])
      <4>1. CASE pending[m] # {c} \/ m \notin SkipCheck
        BY <3>2, <4>1 DEF Visited, TypeOK
      <4>2. CASE pending[m] = {c} /\ m \in SkipCheck
        <5>1. require'[m] = require[m] \cup {c} /\ Crds = {c} \cup require[m]
          BY <3>2, <3>4, <4>2 DEF RunInv, TypeOK
        <5>2. pc'[m] = "list" /\ pending'[m] = Crds
          BY <3>2, <4>2 DEF Visited, TypeOK
        <5> QED
          BY <5>1, <5>2
      <4> QED
        BY <4>1, <4>2
    <3> QED
      BY <1>3, <3>3, <3>5
  <2> QED
    BY <1>0, <1>4, <2>1 DEF EnsureStorageVersion
<1>5. ASSUME NEW c \in Crds, Discover(m, c) PROVE DealtInv(m)'
  <2> DEFINE requiring == require[m] \cup {d \in {c} : RequiresMigration(crd[d])}
  <2>1. CASE /\ snap' = [snap EXCEPT ![m][c] = crd[c]]
             /\ require' = [require EXCEPT ![m] = requiring]
             /\ Visited(m, c, "discover", "list", requiring)
    <3>1. crd' = crd
      BY <1>5 DEF Discover, server
    <3>2. \A d \in require'[m] : MovedForward(m, d)'
      <4>1. \A d \in require'[m] : d \in Crds /\ (d = c \/ d \in require[m])
        BY <2>1 DEF TypeOK
      <4>2. \A d \in Crds : snap'[m][d] = IF d = c THEN crd[c] ELSE snap[m][d]
        BY <2>1 DEF TypeOK
      <4> QED
        BY <3>1, <4>1, <4>2 DEF DealtInv, MovedForward, Unmoved
    <3>3. require'[m] = requiring
      BY <2>1 DEF TypeOK
    <3>4. \/ pc'[m] = "list" /\ pending'[m] = requiring
          \/ pc'[m] = "discover"
      BY <2>1 DEF Visited, TypeOK
    <3>5. pc'[m] \in {"ensure", "discover"} \/ (pc'[m] = "list" /\ pending'[m] = require'[m])
      BY <3>3, <3>4
    <3> QED
      BY <1>3, <3>2, <3>5
  <2> QED
    BY <1>0, <1>5, <2>1 DEF Discover
<1>r. ASSUME UNCHANGED reading PROVE \A c \in require'[m] :
                /\ MovedForward(m, c)'
                /\ Unmoved(m, c)' <=> Unmoved(m, c)
  BY <1>r, <1>u DEF reading, DealtInv, MovedForward, Unmoved, TypeOK
<1>6. ASSUME NEW c \in Crds, ListObjects(m, c) PROVE DealtInv(m)'
  <2> DEFINE listed == {o \in Objs : CrdOf[o] = c /\ obj[o] # Absent}
  <2>1. /\ pc[m] = "list" /\ pc'[m] = "update" /\ Visiting(m, c)
        /\ todo'[m] = listed /\ heldObjs'[m] = listed
        /\ UNCHANGED <<server, pending, reading>>
    BY <1>6 DEF ListObjects, TypeOK
  <2>2. ASSUME NEW o \in Objs, Dealt(m, o)', Unmoved(m, CrdOf[o])'
        PROVE  obj'[o] \in {crd'[CrdOf[o]].storage, Absent}
    <3>1. CASE CrdOf[o] \notin pending[m]
      BY <2>1, <2>2, <3>1, <1>r DEF Dealt, DealtInv, server, reading
    <3>2. CASE CrdOf[o] \in pending[m]
      <4>1. Visiting(m, CrdOf[o]) /\ o \notin listed
        BY <2>1, <2>2, <3>2 DEF Dealt, Visiting
      <4>2. CrdOf[o] = c
        BY <2>1, <4>1, <1>v DEF Visiting, Crds
      <4> QED
        BY <2>1, <4>1, <4>2 DEF server
    <3> QED
      BY <3>1, <3>2
  <2> QED
    BY <1>r, <2>1, <2>2 DEF DealtInv
<1>7. ASSUME NEW c \in Crds, ObjectsDone(m, c) PROVE DealtInv(m)'
  <2>1. /\ pc[m] = "update" /\ todo[m] = {} /\ Visiting(m, c)
        /\ UNCHANGED <<server, reading>>
    BY <1>7 DEF ObjectsDone
  <2>2. \/ pending[m] = {c} /\ pc'[m] = "patch"
        \/ pc'[m] = "list" /\ pending'[m] = pending[m] \ {c}
    BY <1>7 DEF ObjectsDone, Visited, TypeOK
  <2>3. ASSUME NEW o \in Objs, Dealt(m, o)' PROVE Dealt(m, o)
    BY <2>1, <2>2, <2>3 DEF Dealt, reading
  <2> QED
    BY <1>r, <2>1, <2>3 DEF DealtInv, Dealt, server, reading
<1>8. ASSUME NEW c \in Crds,
             \/ ReadFreshCrd(m, c)
             \/ \E err \in {"none", "other"} : WriteStoredVersions(m, c, err)
      PROVE  DealtInv(m)'
  <2>1. CASE UNCHANGED reading
    <3>1. pc[m] \in {"patch", "write"} /\ UNCHANGED obj
      BY <1>8 DEF ReadFreshCrd, WriteStoredVersions, PutStored, server
    <3>2. ASSUME NEW o \in Objs, Dealt(m, o)' PROVE Dealt(m, o)
      BY <2>1, <3>1, <3>2 DEF Dealt, reading
    <3> QED
      BY <1>r, <1>u, <1>v, <2>1, <3>1, <3>2 DEF DealtInv, Dealt, reading
  <2> QED
    BY <1>0, <1>8, <2>1 DEF ReadFreshCrd, WriteStoredVersions
<1>9. ASSUME NEW o \in Objs, NEW err \in {"none", "NotFound", "Conflict", "other"},
             UpdateObject(m, o, err)
      PROVE  DealtInv(m)'
  <2>1. CASE UNCHANGED <<pc, pending, reading>>
    <3>1. ASSUME NEW p \in Objs, Dealt(m, p)', Unmoved(m, CrdOf[p])'
          PROVE  obj'[p] \in {crd'[CrdOf[p]].storage, Absent}
      <4>1. crd' = crd
        BY <1>9 DEF UpdateObject, UpdateAnswers, PutObj, server
      <4>2. CASE Dealt(m, p)
        <5>1. obj[p] \in {crd[CrdOf[p]].storage, Absent}
          BY <2>1, <3>1, <4>1, <4>2 DEF DealtInv, Unmoved, reading
        <5>2. obj'[p] = obj[p] \/ obj'[p] = crd[CrdOf[p]].storage
          BY <1>9 DEF UpdateObject, UpdateAnswers, PutObj, server, TypeOK
        <5> QED
          BY <4>1, <5>1, <5>2
      <4>3. CASE ~Dealt(m, p)
        \* The object has just been dealt with: rewritten, or found gone or written.
        <5>1. p \in todo[m] \cap heldObjs[m] /\ p \notin todo'[m] \cap heldObjs'[m]
          BY <2>1, <3>1, <4>3 DEF Dealt, Visiting, reading
        <5>2. \/ todo'[m] = todo[m]
              \/ todo'[m] = todo[m] \ {o} /\ err \in Absorbed
          <6>1. ~Stop(m, "failed")
            BY <1>9, <2>1 DEF UpdateObject, Stop, TypeOK
          <6> QED
            BY <1>9, <6>1 DEF UpdateObject, TypeOK
        <5>3. CASE PutObj(o)
          <6>1. p = o \/ p \notin heldObjs'[m] \/ p \in heldObjs'[m] \cap todo'[m]
            BY <5>1, <5>2
          <6>2. \A q \in Objs : q # o => (q \in heldObjs'[m] <=> q \in heldObjs[m])
            BY <5>3 DEF PutObj, TypeOK
          <6>3. p = o
            BY <5>1, <5>2, <6>2
          <6> QED
            BY <4>1, <5>3, <6>3 DEF PutObj, TypeOK
        <5>4. CASE UNCHANGED <<server, held>>
          <6>1. p = o /\ err \in Absorbed
            BY <5>1, <5>2, <5>4 DEF held
          <6>2. CASE err = "NotFound"
            BY <1>9, <5>4, <6>1, <6>2 DEF UpdateObject, UpdateAnswers, server
          <6>3. CASE err # "NotFound"
            BY <1>9, <4>1, <5>1, <5>4, <6>1, <6>3
            DEF UpdateObject, UpdateAnswers, PutObj, Absorbed, server, held, TypeOK
          <6> QED
            BY <6>2, <6>3
        <5> QED
          BY <1>9, <5>3, <5>4 DEF UpdateObject, UpdateAnswers
      <4> QED
        BY <4>2, <4>3
    <3> QED
      BY <1>r, <2>1, <3>1 DEF DealtInv
  <2> QED
    BY <1>0, <1>9, <2>1 DEF UpdateObject
<1> QED
  BY <1>1, <1>2, <1>4, <1>5, <1>6, <1>7, <1>8, <1>9 DEF Step

\* When a run may write the status of c, everything is where the status will say.
LEMMA PruneSafe ==
    ASSUME ServerInv, NEW m \in Migrators, DealtInv(m), NEW c \in Crds,
           NEW err \in {"none", "other"}, WriteStoredVersions(m, c, err)
    PROVE  Abs!Prune(c)
<1>1. c \in require[m] /\ Unmoved(m, c) /\ pc[m] = "write"
  BY DEF WriteStoredVersions, Visiting, StatusAccepted, ServerInv, RunInv, Migrating
<1>2. Abs!AllAtStorage(c)
  BY <1>1 DEF DealtInv, Dealt, Abs!AllAtStorage
<1> QED
  BY <1>1, <1>2 DEF WriteStoredVersions, PutStored, Unmoved, Abs!Prune

\* Every step of the migrators and their environment is one the API server's
\* contract allows.
LEMMA StepRefines ==
    ASSUME ServerInv, \A m \in Migrators : DealtInv(m), [Next]_vars
    PROVE  [Abs!Next]_(Abs!vars)
<1>1. CASE UNCHANGED server
  BY <1>1 DEF server, Abs!vars
<1>2. ASSUME NEW o \in Objs, PutObj(o) PROVE Abs!Next
  BY <1>2 DEF PutObj, Abs!Next, Abs!Put
<1>3. ASSUME NEW m \in Migrators, Start(m) \/ Step(m) \/ Kill(m)
      PROVE  [Abs!Next]_(Abs!vars)
  <2>1. CASE \E c \in Crds, err \in {"none", "other"} : WriteStoredVersions(m, c, err)
    BY <2>1, PruneSafe DEF Abs!Next
  <2>2. CASE \E o \in Objs, err \in {"none", "NotFound", "Conflict", "other"} :
                UpdateObject(m, o, err)
    BY <1>1, <1>2, <2>2 DEF UpdateObject, UpdateAnswers
  <2> QED
    BY <1>1, <1>3, <2>1, <2>2
    DEF Start, Kill, Step, RequestFails, EnsureStorageVersion, Discover, ListObjects,
        ObjectsDone, ReadFreshCrd
<1>4. CASE Environment
  <2>1. ASSUME NEW o \in Objs, ClientWrites(o) \/ ClientDeletes(o) PROVE Abs!Next
    BY <2>1 DEF ClientWrites, ClientDeletes, Abs!Next, Abs!Put, Abs!Delete
  <2>2. ASSUME NEW c \in Crds, NEW v \in Versions, StorageMoved(c, v) PROVE Abs!Next
    BY <2>2 DEF StorageMoved, Abs!Next, Abs!Move
  <2>3. ASSUME NEW c \in Crds, CrdTouched(c) PROVE UNCHANGED Abs!vars
    BY <2>3 DEF CrdTouched, server, Abs!vars
  <2> QED
    BY <1>4, <2>1, <2>2, <2>3 DEF Environment
<1>5. CASE UNCHANGED vars
  BY <1>1, <1>5 DEF vars
<1> QED
  BY <1>3, <1>4, <1>5 DEF Next

\* The contract keeps the API server able to read what it holds.
LEMMA ContractReadable ==
    ASSUME TypeOK, Abs!StorageListed, Abs!Readable, [Abs!Next]_(Abs!vars)
    PROVE  Abs!Readable'
<1>v. \A o \in Objs : CrdOf[o] \in Crds
  BY ConstantsAssumption
<1>1. CASE \E o \in Objs : Abs!Put(o) \/ Abs!Delete(o)
  BY <1>1, <1>v DEF Abs!Put, Abs!Delete, Abs!Readable, Abs!StorageListed, TypeOK
<1>2. ASSUME NEW c \in Crds, Abs!Prune(c) PROVE Abs!Readable'
  BY <1>2, <1>v DEF Abs!Prune, Abs!AllAtStorage, Abs!Readable, TypeOK, CrdState
<1>3. ASSUME NEW c \in Crds, NEW v \in Versions, Abs!Move(c, v) PROVE Abs!Readable'
  BY <1>3, <1>v DEF Abs!Move, Abs!Readable, TypeOK, CrdState
<1>4. CASE UNCHANGED Abs!vars
  BY <1>4 DEF Abs!vars, Abs!Readable
<1> QED
  BY <1>1, <1>2, <1>3, <1>4 DEF Abs!Next

LEMMA CoverInit == Init => CoverInv
BY ServerInit DEF Init, Abs!Init, CoverInv, DealtInv, Dealt

LEMMA CoverStep ==
    ASSUME ForwardOnly, CoverInv, [Next]_vars
    PROVE  CoverInv'
<1>t. ServerInv /\ TypeOK /\ ServerInv' /\ \A m \in Migrators : DealtInv(m) /\ RunInv(m)
  BY ServerStep DEF CoverInv, ServerInv
<1>1. Abs!Readable'
  BY <1>t, StepRefines, ContractReadable DEF CoverInv, ServerInv
<1>v. \A c \in Crds : crd'[c].storage \in Versions
  BY <1>t DEF ServerInv, TypeOK, CrdState
<1>2. ASSUME NEW m \in Migrators, Start(m) \/ Step(m) \/ Kill(m), NEW n \in Migrators
      PROVE  DealtInv(n)'
  <2>1. CASE n = m
    BY <1>2, <1>t, <2>1, OwnDealtInv
  <2>2. CASE n # m
    <3>1. /\ pc'[n] = pc[n] /\ pending'[n] = pending[n] /\ snap'[n] = snap[n]
          /\ require'[n] = require[n] /\ todo'[n] = todo[n]
          /\ \A c \in Crds : crd'[c].storage = crd[c].storage
      BY <1>2, <1>t, <2>2, OthersUntouched
    <3>2. \A o \in Objs : SameOrStored(n, o)
      BY <1>2, <1>t, <2>2, RunObjectEffect
    <3> QED
      BY <1>t, <1>v, <3>1, <3>2, DealtKept DEF RunInv
  <2> QED
    BY <2>1, <2>2
<1>3. ASSUME Environment, NEW n \in Migrators PROVE DealtInv(n)'
  <2>1. /\ pc'[n] = pc[n] /\ pending'[n] = pending[n] /\ snap'[n] = snap[n]
        /\ require'[n] = require[n] /\ todo'[n] = todo[n]
    BY <1>3, <1>t, EnvironmentEffect
  <2>2. \A o \in Objs : SameOrStored(n, o)
    BY <1>3, <1>t, EnvironmentObjectEffect
  <2>3. \A c \in Crds : \/ crd'[c].storage = crd[c].storage
                        \/ <<crd[c].storage, crd'[c].storage>> \in StorageMoves
    <3>1. ASSUME NEW c \in Crds, NEW v \in Versions,
                 <<crd[c].storage, v>> \in StorageMoves,
                 crd'[c] = [storage |-> v, stored |-> crd[c].stored \cup {v}]
          PROVE  <<crd[c].storage, crd'[c].storage>> \in StorageMoves
      BY <3>1
    <3> QED
      BY <1>3, <1>t, <3>1, EnvironmentEffect
  <2> QED
    BY <1>t, <1>v, <2>1, <2>2, <2>3, DealtKept DEF RunInv
<1>4. ASSUME UNCHANGED vars, NEW n \in Migrators PROVE DealtInv(n)'
  <2>1. /\ UNCHANGED <<crd, obj, pc, pending, snap, require, todo, heldObjs>>
    BY <1>4 DEF vars, server, reading, updating, held
  <2>2. \A o \in Objs : SameOrStored(n, o)
    BY <2>1 DEF SameOrStored
  <2> QED
    BY <1>t, <1>v, <2>1, <2>2, DealtKept DEF RunInv
<1> QED
  BY <1>t, <1>1, <1>2, <1>3, <1>4 DEF CoverInv, Next

\* If storage versions only move forward, no run takes a version out of
\* storedVersions that an object is still kept in (migrator.go:163-231).
THEOREM Covered == ASSUME ForwardOnly PROVE Spec => []StoredVersionsCover
<1>1. Init => CoverInv
  BY CoverInit
<1>2. CoverInv /\ [Next]_vars => CoverInv'
  BY CoverStep
<1>3. CoverInv => StoredVersionsCover
  BY DEF CoverInv, StoredVersionsCover
<1> QED
  BY <1>1, <1>2, <1>3, PTL DEF Spec

\* Under the same assumption all the runs together implement the API server's
\* contract: storedVersions is pruned in one step, when nothing needs the rest.
THEOREM Refinement == ASSUME ForwardOnly PROVE Spec => ImplementsStoredVersions
<1>1. Init => CoverInv
  BY CoverInit
<1>2. CoverInv /\ [Next]_vars => CoverInv'
  BY CoverStep
<1>3. Init => Abs!Init
  BY DEF Init
<1>4. CoverInv /\ [Next]_vars => [Abs!Next]_(Abs!vars)
  BY StepRefines DEF CoverInv
<1> QED
  BY <1>1, <1>2, <1>3, <1>4, PTL DEF Spec, ImplementsStoredVersions, Abs!Spec

-----------------------------------------------------------------------------
(* UpgradeInv.                                                             *)

\* What holds of CRDs in the target version stays true.
Stable ==
    \A c \in Crds : AtTarget(c) => AtTarget(c)' /\ (Pruned(c) => Pruned(c)')

LEMMA TargetStable ==
    ASSUME TargetLast, ServerInv, UpgradeInv, [Next]_vars
    PROVE  Stable
<1>t. TypeOK
  BY DEF ServerInv
<1>1. CASE UNCHANGED crd
  BY <1>1 DEF Stable, AtTarget, Pruned
<1>2. ASSUME NEW m \in Migrators, Start(m) \/ Step(m) \/ Kill(m)
      PROVE  Stable
  <2>1. ASSUME NEW d \in Crds, NEW err \in {"none", "other"}, WriteStoredVersions(m, d, err)
        PROVE  Stable
    <3>1. d \in require[m]
      BY <2>1 DEF WriteStoredVersions, Visiting, ServerInv, RunInv, Migrating
    <3>2. crd' = [crd EXCEPT ![d].stored = {Target}]
      BY <2>1, <3>1 DEF WriteStoredVersions, PutStored, UpgradeInv, UpgradeRunInv
    <3> QED
      BY <1>t, <3>2 DEF Stable, AtTarget, Pruned, TypeOK, CrdState
  <2> QED
    BY <1>1, <1>2, <2>1
    DEF Start, Kill, Step, RequestFails, EnsureStorageVersion, Discover, ListObjects,
        ObjectsDone, ReadFreshCrd, UpdateObject, UpdateAnswers, PutObj, server
<1>3. CASE Environment
  <2>1. ASSUME NEW c \in Crds, AtTarget(c) PROVE crd'[c] = crd[c]
    BY <1>3, <1>t, <2>1, EnvironmentEffect DEF TargetLast, AtTarget
  <2> QED
    BY <2>1 DEF Stable, AtTarget, Pruned
<1>4. CASE UNCHANGED vars
  BY <1>1, <1>4 DEF vars, server
<1> QED
  BY <1>2, <1>3, <1>4 DEF Next

\* Nothing others do disturbs what a run has established.
LEMMA UpgradeKept ==
    ASSUME Stable, TypeOK, NEW n \in Migrators, UpgradeRunInv(n),
           pc'[n] = pc[n], pending'[n] = pending[n], snap'[n] = snap[n], require'[n] = require[n]
    PROVE  UpgradeRunInv(n)'
<1>1. \A c \in require[n] : c \in Crds
  BY DEF TypeOK
<1>2. pc[n] \in {"discover", "list", "update", "patch", "write"} \cup Upgrade
        => \A c \in Crds : AtTarget(c)
  BY DEF UpgradeRunInv, Migrating
<1> QED
  BY <1>1, <1>2 DEF Stable, UpgradeRunInv, Migrating

LEMMA OwnUpgradeInv ==
    ASSUME TargetLast, ServerInv, Stable, NEW m \in Migrators, UpgradeRunInv(m),
           Start(m) \/ Step(m) \/ Kill(m)
    PROVE  UpgradeRunInv(m)'
<1>t. TypeOK /\ RunInv(m)
  BY DEF ServerInv
<1> USE <1>t
<1>0. CASE \E outcome \in {"idle", "refused", "failed"} : Stop(m, outcome)
  BY <1>0 DEF Stop, UpgradeRunInv, Migrating, Upgrade, TypeOK
<1>1. CASE Start(m)
  BY <1>1 DEF Start, reading, UpgradeRunInv, Migrating, Upgrade, TypeOK
<1>2. CASE RequestFails(m) \/ Kill(m)
  BY <1>0, <1>2 DEF RequestFails, Kill
<1>3. ASSUME NEW c \in Crds, EnsureStorageVersion(m, c) PROVE UpgradeRunInv(m)'
  <2>1. CASE crd[c].storage = Target
    <3>1. /\ pc[m] = "ensure" /\ c \in pending[m] /\ crd' = crd
          /\ snap' = [snap EXCEPT ![m][c] = crd[c]]
      BY <1>3, <2>1 DEF EnsureStorageVersion, Visiting, server
    <3>2. \/ /\ require' = [require EXCEPT ![m] = @ \cup {c}]
             /\ Visited(m, c, "ensure", "list", Crds)
             /\ m \in SkipCheck
          \/ /\ require' = require
             /\ Visited(m, c, "ensure", "discover", Crds)
             /\ m \notin SkipCheck
      BY <1>3, <2>1 DEF EnsureStorageVersion
    <3>3. \A d \in require'[m] : snap'[m][d].storage = Target
      <4>1. \A d \in require'[m] : d \in Crds /\ (d = c \/ d \in require[m])
        BY <3>2 DEF TypeOK
      <4>2. \A d \in Crds : snap'[m][d] = IF d = c THEN crd[c] ELSE snap[m][d]
        BY <3>1 DEF TypeOK
      <4> QED
        BY <2>1, <4>1, <4>2 DEF UpgradeRunInv
    <3>4. \A d \in (Crds \ pending[m]) \cup {c} : AtTarget(d)'
      BY <2>1, <3>1 DEF UpgradeRunInv, AtTarget
    <3>5. CASE pending[m] # {c}
      <4>1. pc'[m] = "ensure" /\ pending'[m] = pending[m] \ {c}
        BY <3>2, <3>5 DEF Visited, TypeOK
      <4> QED
        BY <3>3, <3>4, <4>1 DEF UpgradeRunInv, Migrating, Upgrade
    <3>6. CASE pending[m] = {c} /\ m \in SkipCheck
      <4>1. pc'[m] = "list" /\ pending'[m] = Crds
        BY <3>2, <3>6 DEF Visited, TypeOK
      <4>2. Crds \ require'[m] = {}
        BY <3>1, <3>2, <3>6 DEF RunInv, TypeOK
      <4> QED
        BY <3>3, <3>4, <3>6, <4>1, <4>2 DEF UpgradeRunInv, Migrating, Upgrade
    <3>7. CASE pending[m] = {c} /\ m \notin SkipCheck
      <4>1. pc'[m] = "discover" /\ pending'[m] = Crds
        BY <3>2, <3>7 DEF Visited, TypeOK
      <4> QED
        BY <3>3, <3>4, <3>7, <4>1 DEF UpgradeRunInv, Migrating, Upgrade
    <3> QED
      BY <3>5, <3>6, <3>7
  <2> QED
    BY <1>0, <1>3, <2>1 DEF EnsureStorageVersion
<1>4. ASSUME NEW c \in Crds, Discover(m, c) PROVE UpgradeRunInv(m)'
  <2> DEFINE requiring == require[m] \cup {d \in {c} : RequiresMigration(crd[d])}
  <2>1. /\ pc[m] = "discover" /\ c \in pending[m] /\ crd' = crd
        /\ \A d \in Crds : AtTarget(d) /\ AtTarget(d)'
    BY <1>4 DEF Discover, Visiting, server, UpgradeRunInv, AtTarget
  <2>2. c \notin requiring => Pruned(c)
    BY DEF RequiresMigration, Pruned, ServerInv, Abs!StorageListed
  <2>3. \A d \in Crds \ ((pending[m] \ {c}) \cup requiring) : Pruned(d)'
    BY <2>1, <2>2 DEF UpgradeRunInv, Pruned
  <2>4. CASE pending[m] = {c} /\ Stop(m, "nothing") /\ requiring = {}
    <3>1. pc'[m] = "nothing" /\ require'[m] = {}
      BY <2>4 DEF Stop, TypeOK
    <3>2. \A d \in Crds : Pruned(d)'
      BY <2>3, <2>4
    <3> QED
      BY <2>1, <3>1, <3>2 DEF UpgradeRunInv, Migrating, Upgrade
  <2>5. CASE /\ snap' = [snap EXCEPT ![m][c] = crd[c]]
             /\ require' = [require EXCEPT ![m] = requiring]
             /\ Visited(m, c, "discover", "list", requiring)
    <3>1. \A d \in require'[m] : snap'[m][d].storage = Target
      <4>1. \A d \in require'[m] : d \in Crds /\ (d = c \/ d \in require[m])
        BY <2>5 DEF TypeOK
      <4>2. \A d \in Crds : snap'[m][d] = IF d = c THEN crd[c] ELSE snap[m][d]
        BY <2>5 DEF TypeOK
      <4> QED
        BY <2>1, <4>1, <4>2 DEF UpgradeRunInv, AtTarget
    <3>2. require'[m] = requiring
      BY <2>5 DEF TypeOK
    <3>3. \/ pc'[m] = "list" /\ pending'[m] = requiring /\ pending[m] = {c}
          \/ pc'[m] = "discover" /\ pending'[m] = pending[m] \ {c}
      BY <2>5 DEF Visited, TypeOK
    <3> HIDE DEF requiring
    <3> QED
      BY <2>1, <2>3, <3>1, <3>2, <3>3 DEF UpgradeRunInv, Migrating, Upgrade
  <2> QED
    BY <1>4, <2>4, <2>5 DEF Discover
<1>r. ASSUME UNCHANGED reading PROVE \A c \in require'[m] : snap'[m][c].storage = Target
  BY <1>r DEF reading, UpgradeRunInv
<1>5. ASSUME NEW c \in Crds, ListObjects(m, c) PROVE UpgradeRunInv(m)'
  <2>1. /\ pc[m] = "list" /\ pc'[m] = "update" /\ UNCHANGED <<crd, pending, require, snap>>
    BY <1>5 DEF ListObjects, reading, server, TypeOK
  <2> QED
    BY <2>1 DEF UpgradeRunInv, Migrating, Upgrade, AtTarget, Pruned
<1>6. ASSUME NEW c \in Crds, ObjectsDone(m, c) PROVE UpgradeRunInv(m)'
  <2>1. pc[m] = "update" /\ UNCHANGED <<crd, require, snap>>
    BY <1>6 DEF ObjectsDone, reading, server
  <2>2. \/ pc'[m] = "patch" /\ pending'[m] = require[m]
        \/ pc'[m] = "list"
    BY <1>6 DEF ObjectsDone, Visited, TypeOK
  <2> QED
    BY <2>1, <2>2 DEF UpgradeRunInv, Migrating, Upgrade, AtTarget, Pruned
<1>7. ASSUME NEW c \in Crds, ReadFreshCrd(m, c) PROVE UpgradeRunInv(m)'
  <2>1. CASE pc' = [pc EXCEPT ![m] = "write"] /\ UNCHANGED <<pending, reading, updating>>
    <3>1. /\ pc[m] = "patch" /\ pc'[m] = "write" /\ UNCHANGED <<crd, pending, require, snap>>
      BY <1>7, <2>1 DEF ReadFreshCrd, reading, server, TypeOK
    <3> QED
      BY <3>1 DEF UpgradeRunInv, Migrating, Upgrade, AtTarget, Pruned
  <2> QED
    BY <1>0, <1>7, <2>1 DEF ReadFreshCrd
<1>8. ASSUME NEW c \in Crds, NEW err \in {"none", "other"}, WriteStoredVersions(m, c, err)
      PROVE  UpgradeRunInv(m)'
  <2>1. /\ pc[m] = "write" /\ c \in pending[m] /\ c \in require[m]
        /\ \A d \in Crds : AtTarget(d) /\ AtTarget(d)'
    BY <1>8 DEF WriteStoredVersions, Visiting, UpgradeRunInv, RunInv, Migrating, Stable
  <2>2. Pruned(c)'
    BY <1>8, <2>1 DEF WriteStoredVersions, PutStored, UpgradeRunInv, Pruned, TypeOK, CrdState
  <2>3. \A d \in (Crds \ pending[m]) \cup {c} : Pruned(d)'
    BY <2>1, <2>2 DEF UpgradeRunInv, Stable
  <2>4. CASE pending[m] = {c} /\ Stop(m, "migrated")
    <3>1. pc'[m] = "migrated" /\ require'[m] = {}
      BY <2>4 DEF Stop, TypeOK
    <3>2. \A d \in Crds : Pruned(d)'
      BY <2>3, <2>4
    <3> QED
      BY <2>1, <3>1, <3>2 DEF UpgradeRunInv, Migrating, Upgrade
  <2>5. CASE /\ pending[m] # {c}
             /\ Visited(m, c, "patch", "patch", {})
             /\ UNCHANGED <<reading, updating>>
    <3>1. /\ pc'[m] = "patch" /\ pending'[m] = pending[m] \ {c}
          /\ UNCHANGED <<snap, require>>
      BY <2>5 DEF Visited, reading, TypeOK
    <3> QED
      BY <2>1, <2>3, <2>5, <3>1 DEF UpgradeRunInv, Migrating, Upgrade
  <2> QED
    BY <1>0, <1>8, <2>4, <2>5 DEF WriteStoredVersions
<1>9. ASSUME NEW o \in Objs, NEW err \in {"none", "NotFound", "Conflict", "other"},
             UpdateObject(m, o, err)
      PROVE  UpgradeRunInv(m)'
  <2>1. crd' = crd
    BY <1>9 DEF UpdateObject, UpdateAnswers, PutObj, server
  <2>2. CASE UNCHANGED <<pc, pending, reading>>
    BY <2>1, <2>2 DEF reading, UpgradeRunInv, AtTarget, Pruned
  <2> QED
    BY <1>0, <1>9, <2>2 DEF UpdateObject
<1> QED
  BY <1>1, <1>2, <1>3, <1>4, <1>5, <1>6, <1>7, <1>8, <1>9 DEF Step

LEMMA UpgradeStep ==
    ASSUME TargetLast, ServerInv, UpgradeInv, [Next]_vars
    PROVE  UpgradeInv'
<1>t. TypeOK /\ Stable
  BY TargetStable DEF ServerInv
<1>1. ASSUME NEW m \in Migrators, Start(m) \/ Step(m) \/ Kill(m), NEW n \in Migrators
      PROVE  UpgradeRunInv(n)'
  <2>1. CASE n = m
    BY <1>1, <1>t, <2>1, OwnUpgradeInv DEF UpgradeInv
  <2>2. CASE n # m
    <3>1. /\ pc'[n] = pc[n] /\ pending'[n] = pending[n]
          /\ snap'[n] = snap[n] /\ require'[n] = require[n]
      BY <1>1, <1>t, <2>2, OthersUntouched
    <3> QED
      BY <1>t, <3>1, UpgradeKept DEF UpgradeInv
  <2> QED
    BY <2>1, <2>2
<1>2. ASSUME Environment \/ UNCHANGED vars, NEW n \in Migrators
      PROVE  UpgradeRunInv(n)'
  <2>1. /\ pc'[n] = pc[n] /\ pending'[n] = pending[n]
        /\ snap'[n] = snap[n] /\ require'[n] = require[n]
    BY <1>2 DEF Environment, vars, reading
  <2> QED
    BY <1>t, <2>1, UpgradeKept DEF UpgradeInv
<1> QED
  BY <1>1, <1>2 DEF UpgradeInv, Next

\* What StoredVersionsCover and the refinement rest on holds in every state, for any
\* custom resource definitions, objects and runs (migrator.go:62-121, 178-217).
THEOREM CoverInvariant == ASSUME ForwardOnly PROVE Spec => []CoverInv
<1>1. CoverInv /\ [Next]_vars => CoverInv'
  BY CoverStep
<1> QED
  BY CoverInit, <1>1, PTL DEF Spec

\* If, besides, the target version is never left, what a run believes of the custom
\* resource definitions it is done with is still so (migrator.go:86-117).
THEOREM UpgradeInvariant == ASSUME ForwardOnly, TargetLast PROVE Spec => []UpgradeInv
<1>1. Init => UpgradeInv
  BY DEF Init, UpgradeInv, UpgradeRunInv, Migrating, Upgrade
<1>2. CoverInv /\ UpgradeInv /\ [Next]_vars => UpgradeInv'
  BY UpgradeStep DEF CoverInv
<1> QED
  BY <1>1, <1>2, CoverInvariant, PTL DEF Spec

\* If, besides, the target version is never left, then whenever a run has told
\* the user to upgrade every object is in the target version and storedVersions
\* lists nothing else (migrator.go:92 and 117).
THEOREM Upgradable == ASSUME ForwardOnly, TargetLast PROVE Spec => []SafeToUpgrade
<1>1. Init => CoverInv /\ UpgradeInv
  BY CoverInit DEF Init, UpgradeInv, UpgradeRunInv, Migrating, Upgrade
<1>2. CoverInv /\ UpgradeInv /\ [Next]_vars => CoverInv' /\ UpgradeInv'
  BY CoverStep, UpgradeStep DEF CoverInv
<1>3. CoverInv /\ UpgradeInv => SafeToUpgrade
  <2>1. SUFFICES ASSUME CoverInv, UpgradeInv, NEW m \in Migrators, pc[m] \in Upgrade
                 PROVE  /\ \A c \in Crds : crd[c] = [storage |-> Target, stored |-> {Target}]
                        /\ \A o \in Objs : obj[o] \in {Target, Absent}
    BY DEF SafeToUpgrade
  <2>2. \A c \in Crds : AtTarget(c) /\ Pruned(c)
    BY <2>1 DEF UpgradeInv, UpgradeRunInv
  <2>3. \A c \in Crds : crd[c] = [storage |-> Target, stored |-> {Target}]
    BY <2>1, <2>2 DEF CoverInv, ServerInv, TypeOK, CrdState, AtTarget, Pruned
  <2>4. \A o \in Objs : obj[o] \in {Target, Absent}
    BY <2>1, <2>2, ConstantsAssumption DEF CoverInv, Abs!Readable, Pruned
  <2> QED
    BY <2>3, <2>4
<1> QED
  BY <1>1, <1>2, <1>3, PTL DEF Spec

\* What migrator_target refutes holds under the same assumptions, so that it takes a
\* rollback to make the success message untrue (migrator.go:117, 148).
THEOREM SuccessIsMigrated ==
    ASSUME ForwardOnly, TargetLast
    PROVE  Spec => SuccessMeansMigrated
<1> DEFINE Migrated ==
      \A m \in Migrators :
          pc[m] # "migrated" /\ pc'[m] = "migrated"
              => \A o \in Objs : obj'[o] \in {Target, Absent}
<1>1. SafeToUpgrade' => Migrated
  BY DEF SafeToUpgrade, Upgrade
<1> QED
  BY <1>1, Upgradable, PTL DEF SuccessMeansMigrated

-----------------------------------------------------------------------------
(* A run comes to an end: what of RunEnds is not about fairness.            *)

\* The loops of a run in their order, the last one first.
LoopsLeft(p) ==
    CASE p = "ensure" -> 4
      [] p = "discover" -> 3
      [] p \in {"list", "update"} -> 2
      [] p \in {"patch", "write"} -> 1
      [] OTHER -> 0

Fewer(new, old) == new \subseteq old /\ new # old

\* A run goes on to a later loop, to the next CRD of the loop, from reading a CRD to
\* changing it, to the next object of the CRD, or to the next attempt at the object:
\* there are finitely many of each, and of the attempts no more than MaxAttempts.
Advances(m) ==
    \/ LoopsLeft(pc'[m]) < LoopsLeft(pc[m])
    \/ /\ LoopsLeft(pc'[m]) = LoopsLeft(pc[m])
       /\ \/ Fewer(pending'[m], pending[m])
          \/ /\ pending'[m] = pending[m]
             /\ \/ pc[m] = "list" /\ pc'[m] = "update"
                \/ pc[m] = "patch" /\ pc'[m] = "write"
                \/ /\ pc[m] = "update" /\ pc'[m] = "update"
                   /\ \/ Fewer(todo'[m], todo[m])
                      \/ /\ todo'[m] = todo[m]
                         /\ attempts'[m] > attempts[m] /\ attempts'[m] < MaxAttempts

\* All a run knows but for what the API server can tell it is stale.
LocalState(m) ==
    <<pc[m], pending[m], snap[m], require[m], todo[m], cur[m], attempts[m]>>

\* Nobody makes a run go back: neither its own requests, whatever they answer, nor
\* other runs, clients or deployment tooling (migrator.go:127-231).
RunsAdvance ==
    \A m \in Migrators :
        /\ Step(m) => Advances(m)
        /\ pc[m] \in Running => Advances(m) \/ LocalState(m)' = LocalState(m)

\* A run that has not stopped has a request to send.
HasRequest(m) ==
    /\ \E c \in Crds : Visiting(m, c)
    /\ pc[m] = "update" => todo[m] = {} \/ \E o \in todo[m] : cur[m] \in {o, NoObj}

NeverStuck == \A m \in Migrators : pc[m] \in Running => HasRequest(m)

\* The object that is tried again is one of those still to be dealt with, and the
\* loops are over CRDs that there are.
LoopInv(m) ==
    /\ pc[m] \in Running => pending[m] # {}
    /\ pc[m] # "update" => cur[m] = NoObj
    /\ pc[m] = "update" => cur[m] \in todo[m] \cup {NoObj}

LEMMA LeastCrd ==
    ASSUME NEW T \in SUBSET Crds, T # {}
    PROVE  \E x \in T : \A y \in T : x <= y
<1> DEFINE R == {ss \in Nat \X Nat : ss[1] < ss[2]}
<1>1. IsWellFoundedOn(R, Nat)
  BY NatLessThanWellFounded DEF OpToRel
<1>2. ASSUME NEW x \in Nat, NEW y \in Nat, y < x
      PROVE  <<y, x>> \in R
  BY <1>2
<1>3. T \subseteq Nat
  BY ConstantsAssumption DEF Crds
<1> HIDE DEF R
<1>4. PICK x \in T : \A y \in T : ~(<<y, x>> \in R)
  BY <1>1, <1>3, WFMin
<1>5. ASSUME NEW y \in T
      PROVE  x <= y
  <2>1. x \in Nat /\ y \in Nat
    BY <1>3
  <2>2. ~(y < x)
    BY <1>2, <1>4, <2>1
  <2> QED
    BY <2>1, <2>2
<1> QED
  BY <1>4, <1>5

LEMMA LoopOrder ==
    /\ LoopsLeft("ensure") = 4 /\ LoopsLeft("discover") = 3
    /\ LoopsLeft("list") = 2 /\ LoopsLeft("update") = 2
    /\ LoopsLeft("patch") = 1 /\ LoopsLeft("write") = 1
    /\ \A p \in Stopped : LoopsLeft(p) = 0
    /\ \A p \in Running : LoopsLeft(p) \in 1..4
<1>1. \A p \in Running : LoopsLeft(p) \in 1..4
  BY DEF LoopsLeft, Running
<1>2. \A p \in Stopped : LoopsLeft(p) = 0
  BY DEF LoopsLeft, Stopped
<1> QED
  BY <1>1, <1>2 DEF LoopsLeft

\* Ending is an advance.
LEMMA StopAdvances ==
    ASSUME TypeOK, NEW m \in Migrators, pc[m] \in Running,
           NEW outcome \in Stopped, Stop(m, outcome)
    PROVE  Advances(m) /\ LoopInv(m)'
<1>1. pc'[m] = outcome /\ cur'[m] = NoObj /\ outcome \notin Running
  BY RunningStopped DEF Stop, TypeOK
<1>2. LoopsLeft(pc'[m]) < LoopsLeft(pc[m])
  <2>1. LoopsLeft(pc[m]) \in 1..4 /\ LoopsLeft(outcome) = 0
    BY LoopOrder
  <2> QED
    BY <1>1, <2>1
<1>3. outcome # "update"
  BY DEF Stopped
<1> QED
  BY <1>1, <1>2, <1>3 DEF Advances, LoopInv

\* The end of a visit is an advance, within the loop or to the next one.
LEMMA VisitAdvances ==
    ASSUME TypeOK, NEW m \in Migrators, NEW c \in Crds, c \in pending[m],
           NEW same \in Running, NEW after \in Running, NEW cs \in SUBSET Crds,
           LoopsLeft(same) = LoopsLeft(pc[m]),
           LoopsLeft(after) < LoopsLeft(pc[m]),
           Visited(m, c, same, after, cs)
    PROVE  /\ Advances(m)
           /\ pc'[m] \in {same, after}
           /\ pending[m] = {c} => pc'[m] = after /\ pending'[m] = cs
           /\ pending[m] # {c} => pending'[m] # {}
<1>1. CASE pending[m] = {c}
  <2>1. pc'[m] = after /\ pending'[m] = cs
    BY <1>1 DEF Visited, TypeOK
  <2> QED
    BY <1>1, <2>1 DEF Advances
<1>2. CASE pending[m] # {c}
  <2>1. pc'[m] = same /\ pending'[m] = pending[m] \ {c}
    BY <1>2 DEF Visited, TypeOK
  <2>2. Fewer(pending'[m], pending[m]) /\ pending'[m] # {}
    BY <1>2, <2>1 DEF Fewer
  <2> QED
    BY <1>2, <2>1, <2>2 DEF Advances
<1> QED
  BY <1>1, <1>2

\* Every request of a run advances it, and keeps what it is doing consistent.
LEMMA OwnAdvance ==
    ASSUME ServerInv, NEW m \in Migrators, LoopInv(m), Step(m)
    PROVE  Advances(m) /\ LoopInv(m)'
<1> DEFINE Goal == Advances(m) /\ LoopInv(m)'
<1>t. TypeOK /\ RunInv(m)
  BY DEF ServerInv
<1>s. {"idle", "refused", "nothing", "migrated", "failed"} \subseteq Stopped
  BY DEF Stopped
<1>r. {"ensure", "discover", "list", "update", "patch", "write"} \subseteq Running
  BY DEF Running
<1>c. Crds # {} /\ NoObj \notin Objs
  BY ConstantsAssumption DEF Crds
<1>0. ASSUME pc[m] \in Running, NEW outcome \in Stopped, Stop(m, outcome) PROVE Goal
  BY <1>0, <1>t, StopAdvances
<1>v. ASSUME NEW c \in Crds, c \in pending[m], NEW same \in Running, NEW after \in Running,
             NEW cs \in SUBSET Crds,
             LoopsLeft(same) = LoopsLeft(pc[m]), LoopsLeft(after) < LoopsLeft(pc[m]),
             Visited(m, c, same, after, cs),
             pending[m] = {c} => cs # {},
             same # "update", after # "update", cur'[m] = NoObj
      PROVE  Goal
  <2>1. /\ Advances(m)
        /\ pc'[m] \in {same, after}
        /\ pending[m] = {c} => pending'[m] = cs
        /\ pending[m] # {c} => pending'[m] # {}
    BY <1>v, <1>t, VisitAdvances
  <2> QED
    BY <1>v, <2>1 DEF LoopInv
<1> HIDE DEF Goal
<1>2. CASE RequestFails(m)
  <2>1. pc[m] \in Running /\ Stop(m, "failed") /\ "failed" \in Stopped
    BY <1>2, <1>s DEF RequestFails
  <2> QED
    BY <1>t, <2>1, StopAdvances DEF Goal
<1>3. ASSUME NEW c \in Crds, EnsureStorageVersion(m, c) PROVE Goal
  <2>1. pc[m] = "ensure" /\ c \in pending[m] /\ cur[m] = NoObj
    BY <1>3 DEF EnsureStorageVersion, Visiting, LoopInv
  <2>2. CASE Stop(m, "refused")
    BY <1>0, <1>s, <1>r, <2>1, <2>2
  <2>3. ASSUME NEW after \in {"list", "discover"}, Visited(m, c, "ensure", after, Crds),
               UNCHANGED updating
        PROVE  Goal
    <3>1. cur'[m] = NoObj
      BY <2>1, <2>3 DEF updating
    <3>2. LoopsLeft(after) < LoopsLeft("ensure")
      BY LoopOrder
    <3> QED
      BY <1>v, <1>r, <1>c, <2>1, <2>3, <3>1, <3>2
  <2> QED
    BY <1>3, <2>2, <2>3 DEF EnsureStorageVersion
<1>4. ASSUME NEW c \in Crds, Discover(m, c) PROVE Goal
  <2> DEFINE requiring == require[m] \cup {d \in {c} : RequiresMigration(crd[d])}
  <2>1. pc[m] = "discover" /\ c \in pending[m] /\ cur[m] = NoObj
    BY <1>4 DEF Discover, Visiting, LoopInv
  <2>2. CASE Stop(m, "nothing")
    BY <1>0, <1>s, <1>r, <2>1, <2>2
  <2>3. CASE /\ ~(pending[m] = {c} /\ requiring = {})
             /\ Visited(m, c, "discover", "list", requiring)
             /\ UNCHANGED updating
    <3>1. cur'[m] = NoObj
      BY <2>1, <2>3 DEF updating
    <3>2. LoopsLeft("list") < LoopsLeft("discover")
      BY LoopOrder
    <3>3. requiring \in SUBSET Crds
      BY <1>t DEF TypeOK
    <3> HIDE DEF requiring
    <3> QED
      BY <1>v, <1>r, <2>1, <2>3, <3>1, <3>2, <3>3
  <2> QED
    BY <1>4, <2>2, <2>3 DEF Discover
<1>5. ASSUME NEW c \in Crds, ListObjects(m, c) PROVE Goal
  <2>1. /\ pc[m] = "list" /\ cur[m] = NoObj
        /\ pc'[m] = "update" /\ cur'[m] = NoObj /\ pending'[m] = pending[m]
    BY <1>5, <1>t DEF ListObjects, LoopInv, TypeOK
  <2>2. pending[m] # {}
    BY <1>r, <2>1 DEF LoopInv
  <2> QED
    BY <2>1, <2>2, LoopOrder DEF Goal, Advances, LoopInv
<1>6. ASSUME NEW c \in Crds, ObjectsDone(m, c) PROVE Goal
  <2>1. /\ pc[m] = "update" /\ c \in pending[m] /\ UNCHANGED updating
        /\ Visited(m, c, "list", "patch", require[m])
        /\ todo[m] = {}
    BY <1>6 DEF ObjectsDone, Visiting
  <2>2. cur'[m] = NoObj
    BY <2>1 DEF LoopInv, updating
  <2>3. c \in require[m] /\ require[m] \in SUBSET Crds
    BY <1>t, <2>1 DEF RunInv, Migrating, TypeOK
  <2>4. LoopsLeft("list") = LoopsLeft("update") /\ LoopsLeft("patch") < LoopsLeft("update")
    BY LoopOrder
  <2> QED
    BY <1>v, <1>r, <2>1, <2>2, <2>3, <2>4
<1>7. ASSUME NEW c \in Crds, ReadFreshCrd(m, c) PROVE Goal
  <2>1. pc[m] = "patch" /\ cur[m] = NoObj
    BY <1>7 DEF ReadFreshCrd, LoopInv
  <2>2. CASE Stop(m, "failed")
    BY <1>0, <1>s, <1>r, <2>1, <2>2
  <2>3. CASE pc' = [pc EXCEPT ![m] = "write"] /\ UNCHANGED <<pending, reading, updating>>
    <3>1. pc'[m] = "write" /\ pending'[m] = pending[m] /\ cur'[m] = NoObj
      BY <1>t, <2>1, <2>3 DEF TypeOK, updating
    <3>2. pending[m] # {}
      BY <1>r, <2>1 DEF LoopInv
    <3> QED
      BY <2>1, <3>1, <3>2, LoopOrder DEF Goal, Advances, LoopInv
  <2> QED
    BY <1>7, <2>2, <2>3 DEF ReadFreshCrd
<1>8. ASSUME NEW c \in Crds, NEW err \in {"none", "other"}, WriteStoredVersions(m, c, err)
      PROVE  Goal
  <2>1. pc[m] = "write" /\ c \in pending[m] /\ cur[m] = NoObj
    BY <1>8 DEF WriteStoredVersions, Visiting, LoopInv
  <2>2. CASE Stop(m, "migrated") \/ Stop(m, "failed")
    BY <1>0, <1>s, <1>r, <2>1, <2>2
  <2>3. CASE /\ pending[m] # {c}
             /\ Visited(m, c, "patch", "patch", {})
             /\ UNCHANGED updating
    <3>1. /\ pc'[m] = "patch" /\ pending'[m] = pending[m] \ {c} /\ cur'[m] = NoObj
      BY <1>t, <2>1, <2>3 DEF Visited, TypeOK, updating
    <3>2. Fewer(pending'[m], pending[m]) /\ pending'[m] # {}
      BY <2>1, <2>3, <3>1 DEF Fewer
    <3> QED
      BY <2>1, <3>1, <3>2, LoopOrder DEF Goal, Advances, LoopInv
  <2> QED
    BY <1>8, <2>2, <2>3 DEF WriteStoredVersions
<1>9. ASSUME NEW o \in Objs, NEW err \in {"none", "NotFound", "Conflict", "other"},
             UpdateObject(m, o, err)
      PROVE  Goal
  <2>1. pc[m] = "update" /\ o \in todo[m] /\ pending[m] # {}
    BY <1>9, <1>r DEF UpdateObject, LoopInv
  <2>2. CASE /\ todo' = [todo EXCEPT ![m] = @ \ {o}]
             /\ cur' = [cur EXCEPT ![m] = NoObj]
             /\ UNCHANGED <<pc, pending>>
    <3>1. todo'[m] = todo[m] \ {o} /\ cur'[m] = NoObj /\ pc'[m] = pc[m] /\ pending'[m] = pending[m]
      BY <1>t, <2>2 DEF TypeOK
    <3>2. Fewer(todo'[m], todo[m])
      BY <2>1, <3>1 DEF Fewer
    <3> QED
      BY <2>1, <3>1, <3>2 DEF Goal, Advances, LoopInv
  <2>3. CASE /\ MayRetry(attempts[m])
             /\ cur' = [cur EXCEPT ![m] = o]
             /\ attempts' = [attempts EXCEPT ![m] = @ + 1]
             /\ UNCHANGED <<pc, pending, reading, todo>>
    <3>1. /\ todo'[m] = todo[m] /\ cur'[m] = o /\ pc'[m] = pc[m] /\ pending'[m] = pending[m]
          /\ attempts'[m] = attempts[m] + 1
      BY <1>t, <2>3 DEF TypeOK
    <3>2. attempts'[m] > attempts[m] /\ attempts'[m] < MaxAttempts
      <4>1. attempts[m] \in 0..(MaxAttempts - 1)
        BY <1>t DEF TypeOK
      <4>2. attempts[m] + 1 < MaxAttempts
        BY <2>3 DEF MayRetry
      <4> QED
        BY <3>1, <4>1, <4>2 DEF MaxAttempts
    <3> QED
      BY <2>1, <3>1, <3>2 DEF Goal, Advances, LoopInv
  <2>4. CASE Stop(m, "failed")
    BY <1>0, <1>s, <1>r, <2>1, <2>4
  <2> QED
    BY <1>9, <2>2, <2>3, <2>4 DEF UpdateObject, reading
<1> QED
  BY <1>2, <1>3, <1>4, <1>5, <1>6, <1>7, <1>8, <1>9 DEF Step, Goal

\* What others do leaves a run where it is.
LEMMA LocalKept ==
    ASSUME TypeOK, [Next]_vars, NEW m \in Migrators,
           ~(Start(m) \/ Step(m) \/ Kill(m))
    PROVE  /\ pc'[m] = pc[m] /\ pending'[m] = pending[m]
           /\ snap'[m] = snap[m] /\ require'[m] = require[m]
           /\ todo'[m] = todo[m] /\ cur'[m] = cur[m] /\ attempts'[m] = attempts[m]
<1>1. ASSUME NEW n \in Migrators, Start(n) \/ Step(n) \/ Kill(n)
      PROVE  /\ pc'[m] = pc[m] /\ pending'[m] = pending[m]
             /\ snap'[m] = snap[m] /\ require'[m] = require[m]
             /\ todo'[m] = todo[m] /\ cur'[m] = cur[m] /\ attempts'[m] = attempts[m]
  <2>1. m \in Migrators \ {n}
    BY <1>1
  <2> QED
    BY <1>1, <2>1, OthersUntouched
<1>2. CASE Environment
  BY <1>2 DEF Environment, reading, updating
<1>3. CASE UNCHANGED vars
  BY <1>3 DEF vars, reading, updating
<1> QED
  BY <1>1, <1>2, <1>3 DEF Next

LEMMA LoopStep ==
    ASSUME ServerInv, [Next]_vars, NEW m \in Migrators, LoopInv(m)
    PROVE  LoopInv(m)' /\ (Step(m) => Advances(m))
           /\ (pc[m] \in Running => Advances(m) \/ LocalState(m)' = LocalState(m))
<1>t. TypeOK
  BY DEF ServerInv
<1>1. CASE Step(m)
  BY <1>1, OwnAdvance
<1>2. CASE Start(m) /\ ~Step(m)
  <2>1. /\ pc[m] \notin Running /\ pc[m] # "update"
        /\ pc'[m] = "ensure" /\ pending'[m] = Crds /\ cur'[m] = cur[m]
    BY <1>t, <1>2, RunningStopped DEF Start, TypeOK, updating, Stopped
  <2>2. Crds # {}
    BY ConstantsAssumption DEF Crds
  <2> QED
    BY <1>2, <2>1, <2>2 DEF LoopInv
<1>3. CASE Kill(m) /\ ~Step(m)
  <2>1. pc[m] \in Running /\ Stop(m, "idle") /\ "idle" \in Stopped
    BY <1>3 DEF Kill, Stopped
  <2> QED
    BY <1>t, <1>3, <2>1, StopAdvances
<1>4. CASE ~(Start(m) \/ Step(m) \/ Kill(m))
  <2>1. /\ pc'[m] = pc[m] /\ pending'[m] = pending[m]
        /\ snap'[m] = snap[m] /\ require'[m] = require[m]
        /\ todo'[m] = todo[m] /\ cur'[m] = cur[m] /\ attempts'[m] = attempts[m]
    BY <1>t, <1>4, LocalKept
  <2>2. LoopInv(m)'
    BY <2>1 DEF LoopInv
  <2>3. LocalState(m)' = LocalState(m)
    BY <2>1 DEF LocalState
  <2> QED
    BY <1>4, <2>2, <2>3
<1> QED
  BY <1>1, <1>2, <1>3, <1>4

LEMMA LoopsConsistent == Spec => [](\A m \in Migrators : LoopInv(m))
<1> DEFINE Loops == \A m \in Migrators : LoopInv(m)
<1>1. Init => Loops
  BY DEF Init, LoopInv, Running
<1>2. ServerInv /\ Loops /\ [Next]_vars => Loops'
  BY LoopStep
<1>3. Init => ServerInv
  BY ServerInit
<1>4. ServerInv /\ [Next]_vars => ServerInv'
  BY ServerStep
<1> HIDE DEF Loops
<1>5. Spec => []Loops
  BY <1>1, <1>2, <1>3, <1>4, PTL DEF Spec
<1> QED
  BY <1>5 DEF Loops

\* A run that has started takes a bounded number of steps, whatever is answered and
\* whatever others do: each brings it nearer to its end (migrator.go:62-231).
THEOREM RunsOnlyAdvance == Spec => [][RunsAdvance]_vars
<1>1. ServerInv /\ (\A m \in Migrators : LoopInv(m)) /\ [Next]_vars => [RunsAdvance]_vars
  BY LoopStep DEF RunsAdvance
<1>2. Init => ServerInv
  BY ServerInit
<1>3. ServerInv /\ [Next]_vars => ServerInv'
  BY ServerStep
<1> QED
  BY <1>1, <1>2, <1>3, LoopsConsistent, PTL DEF Spec

\* And in every state before its end there is a step it can take: the object it tries
\* again is still to be dealt with, the loop it is in has a CRD left (migrator.go:127-231).
THEOREM RunsNeverStuck == Spec => []NeverStuck
<1>1. ServerInv /\ (\A m \in Migrators : LoopInv(m)) => NeverStuck
  <2> SUFFICES ASSUME ServerInv, NEW m \in Migrators, LoopInv(m), pc[m] \in Running
               PROVE  HasRequest(m)
    BY DEF NeverStuck
  <2>1. pending[m] \in SUBSET Crds /\ pending[m] # {}
    BY DEF LoopInv, ServerInv, TypeOK
  <2>2. \E c \in Crds : Visiting(m, c)
    BY <2>1, LeastCrd DEF Visiting
  <2>3. pc[m] = "update" => todo[m] = {} \/ \E o \in todo[m] : cur[m] \in {o, NoObj}
    BY DEF LoopInv
  <2> QED
    BY <2>2, <2>3 DEF HasRequest
<1>2. Init => ServerInv
  BY ServerInit
<1>3. ServerInv /\ [Next]_vars => ServerInv'
  BY ServerStep
<1> QED
  BY <1>1, <1>2, <1>3, LoopsConsistent, PTL DEF Spec
=============================================================================
