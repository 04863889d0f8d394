# cmctl in TLA+

A specification of [cmctl](https://github.com/cert-manager/cmctl), the command
line tool of cert-manager, kept beside its code. Paths below are relative to the
repository; `migrator.go:163-195` means those lines of the file named in the
section.

## 1. Inventory

cmctl is a one-shot process: it parses its flags, talks to the Kubernetes API
server (and, for install and uninstall, to Helm), prints, and exits. It keeps no
state of its own between runs apart from the files it is asked to write. What is
hard about it is therefore not its data structures but what happens around it:
the objects it read change before it writes them, requests fail or succeed
without an answer, the process is interrupted, and a run that stopped half way
is started again.

| Component | Source | State | Operations | What makes it correct |
|---|---|---|---|---|
| Migrator (`upgrade migrate-api-version`) | `pkg/upgrade/migrateapiversion/migrator.go` | snapshots of CRDs, the listed objects, attempts per object | preflight, discovery, list, update with retries, status write | never removes from `status.storedVersions` a version some object is kept in; says "upgrade" only when that is safe; ends |
| Exit handling | `internal/util/{signal,exit}.go`, `cmd/main.go` | exit code channel of size 1, context | first and second signal, command result, exit | an interrupted command exits with 128+signal, others with their own code |
| `check api` | `pkg/check/api/api.go` | last error, start time | poll | a failed check is never reported as ready; 124 exactly on timeout |
| `approve`, `deny` | `pkg/approve`, `pkg/deny` | copy of the CertificateRequest | get, set condition, update status | never both decisions; a denied request is never signed |
| `renew` | `pkg/renew` | list of Certificates | list, set Issuing, update status | success means that each selected certificate was marked, and that a mark undoes nothing the controllers wrote |
| `create certificaterequest` | `pkg/create/certificaterequest` | key file, request, poll | validate, write key, create, poll, write certificate | certificate on disk matches the key on disk; key before request; wait ends when the request is ready |
| `create certificatesigningrequest` | `pkg/create/certificatesigningrequest` | as above | as above | as above; duration fits 32 bits |
| `install` | `pkg/install` | Helm release, CRDs | dry run, CRDs, chart | either refuses or leaves CRDs and release installed |
| `uninstall` | `pkg/uninstall` | Helm release | annotate CRDs, uninstall | CRDs survive the uninstall |
| `status certificate` | `pkg/status/certificate` | none | follow references | the parts of a report, read at different times, belong to one another |
| `version`, version checker | `pkg/version`, `internal/versionchecker` | set of detected versions | detect from CRD, labels, images | one version, or an error that names all found |
| `inspect secret` | `pkg/inspect/secret` | none | parse and describe | says of the revocation what the servers said of it |
| `convert` | `pkg/convert` | none | decode, convert, encode | no field is lost or confused, back and forth; all documents or none |
| factory, command groups, completion, build info | `pkg/factory`, `pkg/build`, `pkg/completion`, `cmd/cmd` | none | wiring | no state |

Components meet in four places: every command gets its context, and through it
its cancellation, from the exit handler; `check api` and the top level both set
the exit code; approve, deny, renew and the migrator write objects that
cert-manager's controllers and other users write too; and install, uninstall and
the migrator act on the same CRDs.

## 2. Plan

The order is that of what a mistake costs: a cluster whose API server cannot
read its objects, then a wrong exit status that scripts act on, then wrong
decisions and lost keys, then lost CRDs, then wrong reports.

| Step | Modules | Composition | State |
|---|---|---|---|
| 1 | `StoredVersions`, `Migrator`, `MigratorProofs` | `Migrator` implements `StoredVersions` | done |
| 2 | `ExitHandler`, `CheckApi`, `ExitHandlerProofs` | `CheckApi` extends `ExitHandler` with the one command that sets an exit code itself, and implements it | done |
| 3 | `Decision`, `Approval`, `ApprovalProofs` | `Approval` implements `Decision` | done |
| 4 | `CreateRequest`, `CreateRequestProofs` | one module for both create commands | done |
| 5 | `HelmRelease`, `HelmReleaseProofs` | install, uninstall and helm on one release | done |
| 6 | `Issuance`, `Renew`, `RenewProofs` | `Renew` extends the issuance that goes on around it | done |
| 7 | `CertificateStatus`, `StatusProofs` | extends the same `Issuance` | done |
| 8 | `VersionChecker`, `Inspect`, `Convert`, `Conversions` (`Layouts`, `SchemaInternal`, `SchemaV1`, `SchemaV1beta1`, `SchemaV1alpha3`, `SchemaV1alpha2`), `ReportProofs` | `Conversions` gives `Convert` its conversion functions; `MCReports` composes them with `MCIssuance` for one run of TLC | done |

`StoredVersions` and `Decision` are the two abstract specifications: what the
API server needs of everybody who prunes `storedVersions`, and what users expect
of approve and deny together. `ExitHandler` plays that part for a command: it
says what main and the signal goroutine make of any command, and `CheckApi` is
shown to be one.

The conversion functions are apart from the command (`Conversions`, `Convert`)
because they are of another nature: they follow a path through structs within
structs, which takes `RECURSIVE` operators, and they are finite, so that `reports`
goes through all of them. The command is proved about for any conversion
functions, which are its constants.

## 3. The modules and the code

In every module an action is one handler, or the part of one between two
requests to a server: whatever the code does between two points where somebody
else can act is one step. The constants of a run of TLC are in its `.cfg`, and in
the `MC` module of the same name where they need an expression. Operators whose
comment begins with "Variant:" are plausible mistakes; no specification uses
them, they are there to show that each property notices one.

### Migrator, StoredVersions

`pkg/upgrade/migrateapiversion/migrator.go`. The state is that of the API server
(`crd`: storage version and `storedVersions` of each CRD; `obj`: the version
each object is kept in) and that of each run of the command (`pc`, the CRDs its
loop has still to visit, its snapshots, `crdsRequiringMigration`, the objects
still to be updated, the attempts at the present one).

| Action | Code |
|---|---|
| `EnsureStorageVersion` | `ensureCRDStorageVersionEquals`, one `Get`, 84-87, 121-136 |
| `Discover` | `discoverCRDsRequiringMigration`, the second `Get`, 141-161, and 89-93 |
| `ListObjects` | `migrateResourcesForCRD`, the list in the snapshot's storage version, 163-176 |
| `UpdateObject` | one attempt of `retry.OnError` at one object, 178-191, with `handleUpdateErr` |
| `ObjectsDone` | the end of that loop, 192-195 |
| `ReadFreshCrd` | `patchCRDStoredVersions`: fresh copy and comparison, 204-219 |
| `WriteStoredVersions` | `UpdateStatus`, 221-228 |
| `RequestFails`, `Kill` | any request that fails; a run that is killed |

`resourceVersion` is not a number: each run has the set of objects and CRDs it
read that nobody has written since, which is all it is used for. An update that
would store what is stored changes nothing, as in the API server; an update
whose answer is lost may have been applied or not. The other actors are clients
that create, update and delete objects, deployment tooling that changes a
storage version (`StorageMoves` says from which to which) or anything else of a
CRD, and other runs of the command.

### ExitHandler, CheckApi

`internal/util/signal.go`, `internal/util/exit.go`, `cmd/main.go`: the signal
goroutine (`HandlerReceives`, `HandlerSends`, `HandlerCancels`, `HandlerExits`),
main (`CommandEnds`, `Fatal` for `CheckErr`, `Exit` for the deferred function)
and the channel of size one they share. What waits in the code (the goroutine's
send) is a guard; what does not (`SetExitCodeValue`, the receive of `Exit`) is a
conditional. The channel of signals has size two and drops what does not fit.

`CheckApi` is the command `check api` (`pkg/check/api/api.go:106-147`) inside that
process: `Check` is the condition of the poll, `Sleep` the time between two
checks, `SetsExitCode` (131-137) what follows a poll that failed, `Return`
(139-145) the end. Between these two the signal goroutine may send its own code,
as it may in the code: `told` remembers that the first is done. Time is counted
in ticks from the start of the poll. `CheckApi` takes the variables and the other
processes from `ExitHandler`, and none of its command actions: that it implements
`ExitHandler` is a claim about its own. `ExitHandler` lets a command put its code
into the channel in the step in which it ends; the refinement mapping
(`CommandCodes`) therefore hides a code of the command until it has returned.

### Approval, Decision

`pkg/approve/approve.go:94-140` and `pkg/deny/deny.go:94-140` differ in the
condition they set, so `verdict` tells which a user runs. `Get` has the two
early returns, `Update` the status write, which the API server accepts only of
a copy that is current. `resourceVersion` is a number here, because a request
may be deleted and created again under its name. The approver and the issuer of
cert-manager are steps of `Cluster`.

### CreateRequest

`pkg/create/certificaterequest/certificaterequest.go` (`kind = "cr"`) and
`pkg/create/certificatesigningrequest/certificatesigningrequest.go`
(`kind = "csr"`). `req` is the variable of that name in the code: sent to
`Create` and overwritten by its answer, and by every answer of `Get` in the
condition of the poll (`Answered`), so that a `Get` that fails blanks it. Each run knows
its private key; a certificate is the key it was issued for. The directory has
the two default file names and one other, so flags can make files meet. `Poll`
is where the commands differ: the one retries an error, with the blank `req`
(section 7), the other gives up; the one wants `Ready` and a certificate, the other
only a certificate. `created` is a history variable: the uid of the object a run
created, which the code does not keep; `CreateInv` compares with it what the run
holds.

### HelmRelease

`pkg/install/install.go` and `pkg/uninstall/uninstall.go` on the release and the
CRDs of the cluster. A CRD is absent, "owned" (helm may adopt it) or "bare", and
`merged` once `CreateCRDs` has changed one that was there. Of
a release the last revision counts, with the CRDs its manifest has and those of
them annotated to be kept. Install: `StartInstall` (dry run), `Fetch` (which CRDs
are there: `originalCRDs`), `Refuse` (if there are any) or `CreateCRDs`, `Install`
(the pending release), `Deploy`. `CreateCRDs` calls helm's `Create` without options
(`applycrd.go:34`), which applies on the server: a CRD that is there by then does not
make it fail but is merged with the chart's, stays as it is if it has all of it, or
conflicts. Uninstall:
`StartUninstall`, `Read` and `Annotate` (the two halves of
`addCRDAnnotations`), `Remove`. Helm itself, its storage and what `helm upgrade`
and `helm uninstall` do are external and modelled from how the commands use
them.

### Issuance, Renew

`Issuance` is external: the Certificates with their status, Secrets,
CertificateRequests, Orders and Challenges, and one action for everything
cert-manager's controllers and users do to them that the two commands can notice.
A Certificate has a `uid` and a `resourceVersion`; `attempts` counts the
issuances that ended, well or badly; `Revisions` says how many there may have been
before the command starts.

`Renew` is `pkg/renew/renew.go`: `Validate` (95-130), `ListNamespaces` (the
current one, or all), `ListCertificates` and `GetCertificate` (all reads come
before the first write), `StartMarking` ("No Certificates found"), then for each
copy `Mark` or `MarkFails` (`renewCertificate`, 216-224), and `Succeed`. A list
answers with the selected Certificates of the namespace in any order. The update
sends the whole status of a copy that may be old; the API server takes it for
the `resourceVersion` of the copy only, and an update that failed for the
command may have been applied. An update that changes nothing, as of a Certificate
that was marked by an earlier renew, keeps the `resourceVersion`.

### CertificateStatus

`pkg/status/certificate`. One action for each call of `GetResources` (140-268),
in its order: `GetSubject`, `SearchEvents`, `GetGenericIssuer`, `GetSecret`,
`FindRequest`, `FindOrder`, `FindChallenges`, and `StatusFails` for the calls whose
error ends the command. A reading was `Found` or `Lacks` what was looked for, with
the reason the report gives. `KeyUsageBits` is the arithmetic of the one text
that has any (`types.go:395-413`); an `ASSUME` compares it with the bits of all
512 usages.

### VersionChecker

`internal/versionchecker`: `extractVersionFromCrd` (one of four lookups: two names
of the CRD, two versions of the API), `extractVersionFromService`, `ListPods` and
`determineVersion` keep the names of the code; `sources` is `versionSources`.
`Upgrade` is somebody who upgrades the installation meanwhile, one part at a
time. A version is the label of the version, of the chart, or the tag of an
image; pods are named by their places in the list, so that "the first whose image
tells the version" is the least of a set.

### Inspect

`pkg/inspect/secret/secret.go`: `GetTLSSecret` with the split of `tls.crt` into PEM
blocks (`splitPEMs`: the places of the certificates, whose order is that of the
chain), then `describeCRL` and `describeOCSP`, one step for each
server asked. What a server answers is a choice; what the code makes of an answer
and when it stops asking is the model.

### Convert, Conversions, Layouts, SchemaInternal, SchemaV1, SchemaV1beta1, SchemaV1alpha3, SchemaV1alpha2

`pkg/convert/convert.go` and `pkg/convert/internal/apis`. The `Schema` modules are
tables read off the source: `Types` gives each struct as the sequence of its
fields in the order of their declaration; for each generated conversion function
`Moves` says which fields it assigns (`copied`), which it casts with
`unsafe.Pointer` (`cast`), and for which it calls another conversion
(`converted`); the fields that hand-written functions set are in `ToInternal` and
`FromInternal`, with the values they spell differently. A document is its kind and version
with one of its fields, named by its path, and a value. In `Conversions`, `ByName` follows the path
through the conversion functions; below a cast `ByPosition` takes over, which
follows positions and not names, as the cast does. The generated functions treat
the fields alike in both directions, so one table serves both.

`Convert` is the command, for any conversion functions: `DecodedField` and
`EncodedField` are its constants, to which the runs give `FieldIntoInternal` and
`FieldFromInternal` of `Conversions`. It is `Infos` or `InfosFail` (the builder decodes all files first),
`ParseGroupVersion`, `AsVersionedObject` for one document after the other,
`AllConverted` and `PrintObj`; any failure ends it without output.

## 4. What is checked

| Run | Instance | Shows |
|---|---|---|
| `migrator_upgrade` | 2 CRDs, 3 objects, 2 versions, 2 runs, one with `--skip-stored-version-check` | storage versions only move to the target: "safe to upgrade" is true whenever it is said and stays true (`SafeToUpgrade`), by `UpgradeInv`; every run ends (`RunEnds`) |
| `migrator_rollback` | 1 CRD, 2 objects, 3 versions, 2 runs | storage versions move back under the runs: nothing in use is pruned (`StoredVersionsCover`), the storage version stays listed (`StorageVersionListed`), the runs implement `StoredVersions` (`ImplementsStoredVersions`), by `CoverInv` |
| `migrator_target` | the same with 1 run | `SuccessMeansMigrated` is violated: see section 7 |
| `exit_handler` | 2 signals, up to 3 sent, any command | an interrupted command exits with 128+signal (`InterruptedCode`), every exit status is one that something that happened accounts for (`StatusMeans`), and the process ends when the command returned or a second signal came (`ReturnEnds`, `SecondSignalEnds`) |
| `check_api` | `--wait` 0 or 3, `--interval` 2, a check of up to 2 ticks, up to 2 signals | 0 means ready (`ZeroMeansReady`), 124 means timed out (`TimeoutReported`), an interrupted wait ends with 128+signal whatever the checks before it came to (`InterruptReported`), the wait is bounded (`WaitBounded`), the command ends (`CheckEnds`), only the signal goroutine ever waits (`CheckMoves`), and it implements `ExitHandler` (`ImplementsExitHandler`) |
| `approval` | 3 users, 5 writes to the request | one decision, by the one command that reports success; a denied request is never signed; `Decision` is implemented |
| `create_request` | 2 runs of either command, 3 objects under the name | key before request; the certificate written is that of the key written (`FilesMatch`); what is stored was seen signed, a run follows the object it created or one created after it under the name, and the csr command never polls for nothing (`CreateInv`, of which `CsrKeepsPolling` is a part) |
| `create_poll` | 1 run, 1 object | `KeepsPolling` is violated: see section 7 |
| `helm_release` | 3 runs, 2 CRDs, 3 revisions | no step of a run deletes a CRD, and none changes one, but that install merges the chart's into one that came after it had looked for them (`CrdsUntouched`, by `ReleaseInv`); no release of install has one (`ReleaseWithoutCrds`) |
| `helm_store` | 1 run, 2 CRDs, 1 revision, helm's storage may fail | `CrdsUntouched` is violated: see section 7 |
| `reports` | one run of `renew`, `status certificate`, `version`, `inspect secret` or `convert` in each behaviour | renew: success triggered what was asked for (`RenewsSelection`), no mark is lost (`MarkNotLost`) or takes back what a controller wrote (`NeverUndone`); status: the parts fit together (`ReportFits`); version: right about an installation that stands still (`VersionReported`); inspect: says what the servers said (`RevocationReported`); convert: no field lost or confused (`ConvertKeeps`), all or nothing (`ConvertWhole`) |

### Bounds, and why they are enough

- Migrator: what a run decides about a CRD depends on that CRD and on the
  position in the loop, so two CRDs show the first, the last, and what happens
  to one while the other is visited. Two objects of one CRD show one that is
  dealt with and one that is not. With three versions a CRD can leave the target
  and arrive elsewhere than it came from. Two runs meet at every pair of steps.
  A run stopped is started again without a bound. Three attempts are the code's
  own number. The proofs cover all other sizes except for `RunEnds`.
- Exit handling: three signals fill the handler and the channel of size two.
- `check api`: the wait is longer than an interval and shorter than two; an
  interval may be over at once, because the ticker runs while a check does.
- Approval: five writes are a creation, a decision, a signature, a deletion and
  a new creation, in any mix; three users are the two sides of a race and one
  who comes late.
- CreateRequest: three objects under the name are one of each run and one
  replaced; each run is made once, a second invocation is the second run.
- HelmRelease: two CRDs can be in different states; three runs allow an install,
  an uninstall and one more to overlap; three revisions are an install and two
  upgrades.

- `reports`: a behaviour is one run of one command, so the state spaces add up
  instead of multiplying. Renew and status meet two Certificates in two
  namespaces, to which others write twice each: a trigger and its end, an edit
  between reading and marking, or a new creation under the name (the proofs cover
  any number). A status begins with a Certificate never issued or issued once.
  There are two CertificateRequests, which is the case of "several found". Renew is
  given no name, each name, and one name twice. The version checker finds every
  combination of labels on the CRD, the service and up to two pods. A Secret has
  up to three PEM blocks and a certificate up to two CRL and two OCSP servers: a
  first, a next and a last one. Convert is exhaustive in the schema: every field
  of every kind and version, to every version; and up to three documents of
  which some cannot be decoded or converted.

Symmetry is used for users, for runs and for the CRDs of a chart, in runs
without liveness properties. CRDs and runs of the migrator are not symmetric:
the CRDs are visited in order, and one run skips a check.

Deadlock is not checked where the system stops: exit handling, `check api`, the
create commands and those of `reports` end.

### Fairness

- `Migrator!FairSpec`: weak fairness of each run's steps, so every request is
  answered or fails: a connection that dies is an error, which is a step. Nothing is assumed of other clients, and no request has to succeed.
- `ExitHandler!FairSpec`: weak fairness of the signal goroutine and of main:
  goroutines that can run do. The command is not fair: it may ignore its context.
- `CheckApi!CheckFairSpec`: the same, and each check is answered and each sleep
  over: checks are requests, sleeps are timers.

## 5. What is proved

The proofs hold for all values of the constants that satisfy the module's named
`ASSUME`, and under the further assumption in the table.

| Theorem | Statement | Further assumption |
|---|---|---|
| `MigratorProofs!TypeCorrect`, `StorageVersionAlwaysListed` | `TypeOK`, `StorageVersionListed` | none: any deployment tooling |
| `MigratorProofs!CoverInvariant`, `Covered`, `Refinement` | `CoverInv`, `StoredVersionsCover`, `ImplementsStoredVersions` | `ForwardOnly`: a version left is not returned to |
| `MigratorProofs!UpgradeInvariant`, `Upgradable`, `SuccessIsMigrated` | `UpgradeInv`, `SafeToUpgrade`, `SuccessMeansMigrated` | `ForwardOnly`, `TargetLast`: the target is not left |
| `MigratorProofs!RunsOnlyAdvance`, `RunsNeverStuck` | `RunsAdvance`, `NeverStuck`: what of `RunEnds` is not about fairness | none: any deployment tooling |
| `ExitHandlerProofs!ExitInvariant`, `ExitTypeCorrect`, `Interrupted`, `FailuresReported`, `StatusIsMeant` | `ExitInv`, `TypeOK`, `InterruptedCode`, `FailureReported`, `StatusMeans` | none |
| `ExitHandlerProofs!NeverHeldUp`, `EndOnlyAdvances` | `NotHeldUp`, `EndAdvances`: what of `SecondSignalEnds` and `ReturnEnds` is not about fairness | none |
| `ExitHandlerProofs!SecondSignal`, `ReturnIsTheEnd` | `SecondSignalEnds`, `ReturnEnds` | fairness (`FairSpec`), and `ReadyMoves`: the actions that have to be ENABLED are |
| `ExitHandlerProofs!PollOnlyAdvances` | `PollAdvances`: what of `CheckEnds` is not about fairness | none |
| `ExitHandlerProofs!OneSignalIsEnough`, `PollOverEnds` | `InterruptEnds`: one signal ends check api, whatever the wait and the answers; and so does a poll that is over (`~Running ~> Ended`) | fairness (`CheckFairSpec`), and `CheckMoves`, which is about ENABLED |
| `ExitHandlerProofs!CheckRefines`, `ReadyWhenZero`, `InterruptIsReported` | `ImplementsExitHandler`, `ZeroMeansReady`, `InterruptReported` | none |
| `ExitHandlerProofs!WaitIsBounded`, `TimeoutIsReported` | `WaitBounded`, `TimeoutReported` | none |
| `ApprovalProofs!ApprovalInvariant`, `SuccessStands`, `OnlyOneDecider`, `NeverSigned` | `ApprovalInv`, `SuccessDecides`, `OneDecider`, `DeniedNeverSigned` | none |
| `ApprovalProofs!DecidedOnlyOnce` | `ImplementsDecision` | none |
| `HelmReleaseProofs!ReleaseInvariant`, `CrdsStay` | `ReleaseInv`, `CrdsUntouched` | `Undisturbed`: no other Helm client during a run, no failure of helm's storage |
| `HelmReleaseProofs!InstalledWithoutCrds` | `ReleaseWithoutCrds` | none |
| `CreateRequestProofs!FetchInvariant`, `CreateInvariant`, `FilesMatchInvariant`, `KeyIsFirst` | `FetchInv`, `CreateInv`, `FilesMatch`, `KeyBeforeRequest` | none |
| `CreateRequestProofs!CsrAsksOn`, `LostForGood` | `CsrKeepsPolling`; a run that lost the name of its request can only fail (`StaysLost`) | none |
| `RenewProofs!RenewInvariant`, `MarkIsNotLost`, `UpdateUndoesNothing`, `SelectionIsRenewed` | `RenewInv`, `MarkNotLost`, `NeverUndone`, `RenewsSelection` | none |
| `StatusProofs!ReportIsWhole` | `ReportFits` | none |
| `ReportProofs!AllOrNothing` | `ConvertWhole` | none: any conversion functions |
| `ReportProofs!ConvertsEachByItself` | `EachByItself`: what is printed of a document depends on that document | none: any conversion functions |
| `ReportProofs!ConvertsAsItsFunctions` | a relation between each document and its conversion is one between all and what is printed | the relation, of single documents |
| `ReportProofs!ReportsVersion` | `VersionReported` | none: any installation, any number of pods |
| `ReportProofs!ReportsRevocation` | `RevocationReported` | none: any chain, any number of servers |

**Migrator.** The invariant has three layers, each assuming more of deployment
tooling. `ServerInv` assumes nothing: a run migrates only CRDs it has read, and
while its fresh copy is not stale it is the stored CRD; this gives that the
storage version stays listed, because the write is refused otherwise. `CoverInv`
adds that an object a run is done with is in the storage version of its CRD, or
the CRD has moved on since the run read it. It is here that `ForwardOnly` is
needed: if a CRD could move away and back, the comparison before the write would
not notice, and objects written in between would be in a version that is pruned.
From it follow that each status write is a `Prune` that `StoredVersions` allows
(`PruneSafe`), and the refinement (`StepRefines`). `UpgradeInv` adds that the
target is never left, so that what a run has checked stays so; for each place in
the program it says which CRDs are at the target and which are pruned.

The assumption is not the code's, and the instances say which part of it each
needs: `migrator_rollback` runs with rollbacks, which satisfy `ForwardOnly` (no
version is returned to) but not `TargetLast`, and `migrator_target` shows what
fails without the latter.

That a run ends has a part that is no question of fairness. A run has loops, each
loop CRDs still pending, each CRD objects still to do, and each object attempts, of
which there are at most `MaxAttempts`. `RunsOnlyAdvance` says that each step of a run
goes down in this order, compared in the order of the list, and that whatever
other runs, clients and deployment tooling do leaves a run that has not stopped
where it is or advances it; `RunsNeverStuck`, that such a run has a request to send. It rests on
`LoopInv`: a loop is over CRDs that there are, and the object tried again is one
still to do. With weak fairness of each run, `RunEnds` follows; that last step, an
induction over the steps left, is left to TLC.

**Exit handling.** `CodeInv` states where the code of the signal is between the
send and the exit: in the channel from before the cancellation on, as long as the
command runs or ends because of it. That and the blocking send, which cannot
happen twice, give the two safety properties. For `check api`, `ReachInv` is
`ExitInv`, the part `SignalsHeld` of `HeldInv`, and `PollInv`, which ties the poll to
the channel and to main: a command that has not set its code has none in the channel,
where the goroutine then finds room, and one that has returned gave main the outcome of
the poll. The steps of `ExitHandler`'s own processes keep the parts they kept there
(`ExitHandlerStep`), `SetsExitCode` fills only a channel that is empty (`CodeSet`), and
the poll touches nothing of it (`PollStep`). With `ReachInv` each step, `SetsExitCode`
included, is under the mapping a step of `ExitHandler` or a stutter (`RefinedStep`),
hence `CheckRefines`; and `ZeroMeansReady` and `InterruptReported` follow, the latter
from `InterruptedCode`.
`ElapsedInv` bounds the time by the place in the poll, which gives `WaitBounded` for
every interval and every duration of a check. `QuietInv` describes a process
without signals, in which the channel holds the code of the poll or nothing: so
what the poll decides is what the process exits with (`TimeoutReported`).
`HeldInv` follows the channels from the first signal on: the two places of the
channel of signals are enough for the two that count, so that a signal that finds
it full is one too many; and nobody has put a code in the way of the goroutine's
send while the command runs. So after two signals the goroutine or main can always
move (`NeverHeldUp`), and they have five moves at most (`EndOnlyAdvances`).
`MeansInv` says of every code in the channel or in the hands of the goroutine or of main
what put it there; with it each exit status has its reason (`StatusIsMeant`). The two
liveness properties follow by temporal logic from weak fairness: the goroutine has
four places at most to go through and main two (`HandlerGoesOn`, `MainGoesOn`), and at each of
them the next step leads on. That such a step is ENABLED is a hypothesis of the two
theorems, `ReadyMoves`. It says no more than the guards do, which the prover cannot read
off, so no run spends a property on it. For `check api`,
`PollOnlyAdvances` says that each step of the poll ends it, waits or checks again, that time never
goes back, and that each check takes some of the time `WaitBounded` leaves. One signal is
enough to end it (`OneSignalIsEnough`): the goroutine hands it on until the context is
cancelled (`SignalCancels`); of a cancelled poll one check and one wait are left at most
(`CancelledEnds`); and once the command has returned, as it also does when the poll is
over (`PollOverEnds`), the goroutine and main share at most eight steps (`StepsLeft`), one
less after each (`OneStepLess`), to the end of the process (`DoneEnds`). Again that the
steps are ENABLED is a hypothesis, `CheckMoves`, checked in every state of `check_api`. In
that run `CheckEnds` implies `InterruptEnds`, which is therefore not checked a second time.

**Approval.** `CopiesOld` says that a copy is never newer than the stored
request and equal to it if the versions are equal, and that a copy about to be
written is undecided; so an accepted update decides an undecided request. The
abstract decision is a function of the conditions, and every step but `Decide`,
`Sign` and a change of the uid leaves it alone.

**HelmRelease.** `ReleaseInv`: what is about to be removed keeps all CRDs of its
manifest, and what is about to be annotated is the release that was read or one
that removes nothing. That a merge meets only CRDs that were not found follows from
the step itself: it is taken only when none were. `StrippedInv`, which needs no assumption: a release of
install, stored or read, has no CRD.

**CreateRequest.** `FetchInv` is `CreateInv` with three more facts: the stored
request is the youngest one, a run between its key and its certificate still has
its key on disk unless another run or its own certificate file has that name
(`KeyKept`), and `FilesMatch`, which is inductive only together with them. That
the key is first follows for each object from the step that creates it.
Its part `CsrKeepsPolling` rests only on the answers of the server having a name.

**Renew.** `RenewInv` compares every copy with the Certificate now stored
(`CopyOf`): never newer, equal if the versions are, and of the same uid with a
revision and attempts that are no larger. Every step of controllers, users and
the command `Grows` a Certificate, and `CopyKept` and its companion say that
growing preserves these comparisons. An accepted update is of an equal copy, so it
undoes nothing, and the Certificate it marks stays marked until an attempt ends.
`SelectionInv` keeps account of what has been read: the names still to be got and
those already read are the arguments; the namespaces still to be listed and those
of the copies cover what was selected and never deleted.

**CertificateStatus.** Four parts: what is stored (`ClusterInv`: a Secret is as new
as the revision of its Certificate, where there is one), how the copy compares
with what is stored now (`CopyInv`: a Secret read after the copy cannot be older
than it), what one part of the report says of another (`PartsInv`), and which
parts are there at which step (`OrderInv`).

**Convert.** `ConvertInv`: the objects converted so far fit the documents at their
places (`ProgressInv`, `Fits`), nothing is printed before the end, and each document
has one object. That a version is found in the order of the group (`VersionChosen`)
needs only that the first of several places exists, not what the conversion
makes of the fields. `ExactInv` says which object is behind each document and what
was made of it; so the documents do not meet, and what TLC finds of each field alone
(`ConvertKeeps`) carries over to files of many documents.

**VersionChecker.** `StillInv` says what the sources hold at each call as long as the
installation has not changed: what the parts read before it show (`ShownBefore`),
and in the end all it shows; `LookupsInv` that the lookups passed over found
nothing, so that the last of four means that there is no CRD. Running pods that
are alike tell the same wherever the walk over them stops (`PodsRead`). Without
standing still there is only `SourcesInv`, which is enough for the other half: the
version reported without an error is the only one that was found.

**Inspect.** Each loop has a formula for its course and one for what it says in the
end (`CRLGoesOn`, `CRLTold`; `OCSPGoesOn`, `OCSPTold`): a loop that goes on has heard
nothing but good answers, each of a URL that could give it. `IssuerOfLeaf` is the
fact about chains: with one intermediate at most the last certificate is the
issuer of the leaf.

**Only model-checked**: `RunEnds` and `CheckEnds`, whose proofs need an induction, over
the steps a run has left or the time a poll has left, of a temporal formula, which the
prover does not do; what of them is no question of fairness is proved
(`RunsOnlyAdvance`, `RunsNeverStuck`, `PollOnlyAdvances`, `WaitIsBounded`), and of `CheckEnds`
only that the poll is over some time when no signal comes is left (`PollOverEnds`,
`OneSignalIsEnough`). `CheckMoves`, which is about ENABLED, as the hypothesis
`ReadyMoves` of two theorems is. And `ConvertKeeps`, which is about recursive
operators and tables that TLC goes through completely.

## 6. How the properties meet the hazards

`PROJECT.json` lists the hazards with their lines. Those without a property are
of two kinds: promises the code does not make (two runs of create that share a
key file, a request replaced under its name, another Helm client during an
uninstall), where the model has the case and no property denies it; and
divergences that need no state space to be seen, listed at the end of the next
section.

## 7. Findings

Three runs end in a counterexample, each of a sentence the program prints, its
help or a comment in it:

- `migrator_target`: the CRDs are read twice (`migrator.go:121-136`, `148`) and
  only the first reading is compared with the target version. A storage version
  rolled back in between makes the run migrate everything to the older version,
  prune the target from `storedVersions`, and print "It is now safe to upgrade"
  (`migrator.go:117`). Nothing is lost, as `migrator_rollback` shows; what is
  said is not so.
- `create_poll`: the poll of `create certificaterequest` assigns the answer of
  `Get` to the variable that names what it gets (`certificaterequest.go:244`).
  After one error it asks for the name "" until the timeout, contrary to "Retry
  and keep polling" (246).
- `helm_store`: when helm cannot store the annotated manifest, `uninstall` logs
  it and goes on (`uninstall.go:253-258`), and the CRDs are deleted, contrary to
  "it will not delete any of the cert-manager CRDs" (63-64).

Seen while modelling, without a run of their own:

- `signal.go:35-36` says the first signal decides the exit code; it does not when
  the command has already failed, or when the goroutine has not yet sent.
- `certificaterequest.go:145` compares flags and not the names that result:
  `--output-key-file name.crt --fetch-certificate` puts the certificate over the
  key.
- `uninstall.go:118` and `157-161`: every error of the removal but "not found" is
  dropped, and the release is reported as uninstalled.
- `install.go:240-245`: an install that ended after its first CRD cannot be run
  again, because CRDs exist.
- `migrator.go:214`: a storage version that moves away and back is not noticed;
  `ForwardOnly` excludes it.
- `renew.go:208`: a Certificate named twice is read twice before the first write,
  so the second update conflicts and the command fails, unless the first changed
  nothing because the Certificate had been marked before.
- `applycrd.go:28-29` says that "we made sure that the CRDs are not yet installed".
  That was one request earlier (`install.go:235`): CRDs that have come since are
  not refused but merged with the chart's, because helm's `Create` applies on the
  server by default. `CrdsUntouched` allows exactly this change.
- `types_certificate.go` of v1alpha2 (410), v1alpha3 (418) and v1beta1 (415):
  `PKCS12Keystore.Password` has no json tag, so that its name in a document of these
  versions is `Password` where v1 has `password`.
- `certificate.go`, `GetResources`: the typed client returns an empty object with
  its error, so that events are searched for an issuer or a Secret that could not
  be read as well; if that search fails, the command ends without a report.
- `fromservice.go:55-71`: pods are listed in all namespaces, and the label of one
  overwrites that of the one before, so pods of different versions may be
  reported as one version. `VersionReported` is therefore stated of an
  installation with at most one kind of running pod.
- `secret.go:366`: the issuer for OCSP is the last intermediate, which with two or
  more of them did not issue the leaf; `RevocationReported` says so only up to
  one intermediate. An answer "unknown" counts as valid. `ldap` is accepted as a
  scheme of a CRL, but the HTTP client cannot speak it: always an error. The
  signature of a CRL is not checked, as a TODO in the code says (`util.go:144`).
- `convert.go:77`: the help says that an output version that is not supported gives
  the latest version; the code reports an error.

## 8. What is not modelled

- Of `create certificatesigningrequest` how the name of the signer is built
  (`buildSignerName`, 295-338) and how the duration becomes 32 bits of seconds
  (372): data of the request that nothing in the model depends on. Of both create
  commands the conditions of a denied or failed request, for which the code
  waits until the timeout as for any other.
- Of `inspect secret` the check of trust (`describeTrusted`, which asks the pool of
  certificates of the system) and the descriptions of the certificate's fields.
- Of `convert` the generated `DeepCopy` functions and the registration of the types:
  values of TLA+ are not shared. The v1 types are a library of cert-manager and
  are taken to be laid out as the internal ones. Paths are made of the names of the
  Go fields: the json tags, and what a document spells otherwise than its type
  (section 7), are not in the tables.
- What the API checker of cert-manager does in one check, what Helm does inside a
  call, and how charts are located and values merged: external; their outcomes
  are choices.
- Text, templates and completion scripts: no state and no property.
- Client construction, the command tree and build information: wiring, no state
  that outlives a call.
- The end-to-end tests and build files were read as documentation.
