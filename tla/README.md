# A specification of the epistemic ledger

This directory holds TLA+ models of the ledger kernel (`src/ledger`), of the
gates around it (`tools/check_append_only.py`, `tools/check_frozen.py`, the
pre-commit hook, CI) and of the fixture verifier (`src/nre`), TLC configurations that check them on small instances, and proofs that
TLAPS checks for every instance. Paths below are relative to the repository;
`PROJECT.json` maps every definition to the lines it stands for.

## 1. The system

| Component | State it keeps | Operations | Modelled in |
|---|---|---|---|
| Object store, `src/ledger/cas.py` | `ledger/objects/<d[:2]>/<d>`, and `<d>.tmp` on the way | `store_blob` | `LedgerStore` |
| Node manifests, `manifest.py` | `ledger/nodes/<id>.json` | `write_node_manifest`, `read_node_manifest` | `LedgerStore` |
| Retractions, `retract.py` | `ledger/retractions/<id>.json` | `write_retraction`, `is_retracted` | `LedgerStore` |
| Refs, `refs.py` | `ledger/refs/<name>` | `set_ref` (and the read-only `get_ref`, `resolve`) | `LedgerStore` |
| Command line, `cli.py` | none | `ingest`, `retract`, `refs set` write; `verify`, `verify-reachable`, `fsck`, `replay` read | `LedgerStore`, the audits below |
| Audits, `verify.py` | none | `verify_node`, `fsck`, `verify_reachable` | `StoreAudit` (on a store at rest), `VerifyReachable` (while it is written), `AuditedStore` (by the commands) |
| Schemas, `schema.py` | pinned files | `validate_manifest` | an exit of `ingest` |
| Replay, `replay.py` | a work directory, temporary or given with `--workdir` | `replay_node` | `Replay` (in its directory), `VerifyReachable` (as `--replay` uses it) |
| Append-only gate, `tools/check_append_only.py`, `tools/hooks`, `.github/workflows/ci.yml` | the git history | the check of a diff, the hook, the CI job | `GitGate` |
| Frozen pins, `tools/check_frozen.py` | pinned files and `fixtures/FROZEN_SHA256SUMS` | comparison, on push and pull request | `FrozenGate`, `FixtureGate` |
| Fixture gate and engine, `src/nre/verify` | fixtures, the pinned schema | `run_fixtures`, `verify_triplet` | `FixtureGate` |
| Canonical bytes, `src/nre/canon` | none | pure functions | as data of `FixtureGate` |

Commands are operating-system processes. Nothing excludes them from each other
(ADR-015 dropped the session lock), so they interact through the files, one
system call at a time, and any of them may be killed between two calls. The
audits read the same files while commands write them. Git carries the store from
clone to clone, and the gate is to keep the history append-only.

What is hard, and what makes each part correct:

* **Store.** Two processes that store the same bytes share the name
  `<digest>.tmp`, the look at the object and the rename that depends on it are
  far apart, `open("x")` and the write after it are two effects, and so are the
  truncation and the write of a ref. It is correct if it is an append-only
  ledger whatever is interleaved or killed (`ImplementsLedger`), if what refs and
  retractions name exists (`LinksResolve`), if no incomplete file is abandoned
  unless its writer was killed (`TornHasWriter`), if a node that verifies goes on
  verifying (`VerifiedStaysVerified`, which three ingests of the same bytes break),
  and if a store at rest is clean (`QuiescentClean`, for callers that name ingested
  parents).
* **Audits.** `fsck` looks at each manifest alone, and the conclusion for whole
  histories is drawn from the existence of the parents' manifests
  (`FsckCoversReach`). `verify-reachable` reads file after file, so its verdict
  is put together from observations of different moments, and it reads each
  manifest twice. It is correct if an "OK" is true when it is printed
  (`VerdictSound`), if an error is not caused by what is being written
  (`NoFalseAlarm`), if no retraction is passed over (`RetractionsReported`) and
  if it ends (`Terminates`). What the walk needs of the other processes must be
  what the commands do (`AuditRefines`); then an "OK" also goes on to be true
  (`VerdictStands`).
* **Replay.** The inputs are laid out one after the other in a directory that
  may hold the remains of other replays, or be in use by them; some may be
  missing, or torn by racing ingests when they are copied; the transform is a program that may fail, write nothing, or go on
  after its replay was killed. It is correct if OK means that the derivation
  recorded in the manifest yields the node (`SuccessIsReproduction`), if a
  mismatch means that it does not (`MismatchIsReal`), and if it cleans up after
  itself (`TempDirsRemoved`) unless it was told not to (`KeptDirsStay`, which the
  code does not do). In `verify-reachable --replay` a parent's bytes are
  used before they are checked, and a transform may run only after the checks of
  its own node (`RunsOnlyVerified`).
* **Append-only gate.** It compares the two ends of a range, git reports renames
  as one line with two paths, a pull request may be merged long after it was
  found green, and the hook sees single commits but only against `HEAD`. It is
  correct if the default branch never loses or changes a protected file
  (`MainAppendOnly`), if with the hook no single commit does
  (`HookedHistoryAddOnly`), and if a refusal has a cause (`NoFalseRefusal`).
* **Frozen pins.** A file and its line are merged apart by git, and late. The
  check is correct if the pins hold on the default branch (`MainPinsHold`), if
  frozen bytes change only together with their line (`FrozenChangeIsLoud`), and
  if a refusal has a cause (`RefusalHasCause`).
* **Fixture gate.** It stops early in several places (`--fail-fast`, exceptions,
  vectors before cases) and knows only the cases that are there. It is correct
  if OK is complete (`GreenIsComplete`), if a mismatch can be seen
  (`MismatchIsShown`), if what is shipped passes (`ShippedIsGreen`), and if
  together with the pins it freezes the engine (`GatesFreezeEngine`).

`PROJECT.json` lists these hazards at their lines.

## 2. Modules

```
AppendOnlyLedger      what docs/SPEC.md promises of the store
LedgerStore           the commands that write, one file-system effect a step
  StoreAudit          verify, verify-reachable and fsck of a store at rest,
  |                   the properties of the store, the refinement mapping
  |  MCStore          symmetry for TLC
LedgerStore_proofs    types, links, refinement
  StoreAudit_proofs   the other safety properties
VerifyReachable       the recursive audit of a store that is being written
  MCVerifyReachable   parent lists and cases for TLC
  VerifyReachable_proofs
AuditedStore          StoreAudit and VerifyReachable: the store written and
  |                   audited at the same time
  MCAuditedStore      orders of parent lists, symmetry
  AuditedStore_proofs extends StoreAudit_proofs, INSTANCEs VerifyReachable_proofs
Replay                replay_node in its work directory
  MCReplay            ledgers and a transform for TLC
  Replay_proofs
GitTree               three-way merges
  GitGate             branches, the hook, the append-only gate, merges
    GitGate_proofs
  FrozenGate          the frozen pins on pushes, pull requests and merges
    MCFrozenGate, FrozenGate_proofs
FixtureGate           the fixture gate, the engine, and the pins beside them
  MCFixtureGate, FixtureGate_proofs
```

### LedgerStore

The variables `obj`, `tmp`, `man`, `retr`, `refs` are the files; `pc`, `job`,
`stage`, `fd` belong to processes. Bytes are represented by their sha256, so an
object is right when `obj[d] = d`. `Torn` is a file that is there without its
bytes. `fd[p]` follows the *open file* of a process and not its name: after
another process's rename, the file that `p` has open as `<d>.tmp` is the object
`<d>`, and `p`'s write goes there.

| Action | Code |
|---|---|
| `StartIngest` | `cmd_ingest` up to the first `store_blob`, with the ADR-004 guard |
| `FindBlob`, `MissBlob` | `dst.exists()` and the comparison of its hash |
| `OpenTmp`, `WriteTmp`, `RenameTmp` | `tmp.write_bytes(src.read_bytes())`, `tmp.replace(dst)` |
| `RefuseIngest` | the exits after a blob was stored: transform file, params, schema |
| `CreateManifest`, `FillManifest` | `open("x")` and `f.write` of `write_node_manifest` |
| `StartRetract`, `CreateRetraction`, `FillRetraction` | `write_retraction` |
| `StartSetRef`, `TruncateRef`, `WriteRef` | `set_ref` |
| `Crash` | a kill; what was written stays |

Simplifications. A write of a file's bytes is one step: files longer than a
buffer pass through partial contents, which are `Torn` as well. Parents are a
set here (their order and repetition matter to the walk and are in
`VerifyReachable`). The source is read when it is written. Files given to
`ingest` are not empty: `RootTransform` is the digest of no bytes, and is not in
`Digest`. A power failure that loses written pages is not modelled; nothing in
the code syncs a file.

Parameters choose the environment: `Commands`, `ParentsFirst` (callers name only
ingested nodes as parents, which the code does not check), `EditedSource` (the
source may change between the read that hashes it and the one that copies it),
`MaxCrashes`.

### StoreAudit

`VerifyNodeOk`, `VerifyReachableOk` and `FsckOk` are the verdicts of the three
audits on the present state. `Reach(n)` is the least set that contains `n` and is
closed under parents. The module states the properties of the store and, with
`Ledger == INSTANCE AppendOnlyLedger WITH ...`, that it implements the abstract
ledger: an id is taken when its manifest file exists, and its record is there
when the file can be read.

### VerifyReachable

`verify_reachable`, the `verify_node` it calls and, with `--replay`, the
`replay_node` that this calls, one step for each file read: `Pop`,
`ReadManifest`, `CheckObject`, `CheckParents`, `CheckTransform`,
`CheckRetraction`, `CopyParent`, `EndReplay`, `PushParents` (the second read of the
manifest), `Finish`. The store may start in any condition, with objects that hold
other bytes than their names say (`corrupt`). Other processes add blobs,
manifests (empty, then complete) and retractions at any time; they do not take
away, which `AuditedStore` shows of at most two concurrent writers.
In the cases with `race` they also store the same bytes at the same time, so that
an object is published torn and healed later. The checks of the parents'
manifests are one step: as manifests do not go away, looking at them one after
the other finds no less. `before` is a history variable with what was true of the
store at the start. A transform is taken to be a function of its inputs
(`Reproduces`), and `env_digest` is left out here.

`VerdictSound` under `--replay` excepts races: the parent's object may be torn
when it is copied and complete when the walk comes to it. An output made from
other bytes may then still have the node's digest, and TLC finds this when the
exception is dropped.

### AuditedStore

The commands of `LedgerStore` and one process that runs `verify-reachable`, in one
state space. `Auditor == INSTANCE VerifyReachable WITH ...` has the audit's own
variables (its `pc` is called `at` here) and, in the place of its store, a view of
`LedgerStore`'s files: a manifest with its parents in the order of the file
(`Listing`), the objects that hash to their names, those that hold something else,
the nodes with a retraction file. A step is one of a command (`Next`), of the audit
(`Auditor!Audit`), or the beginning of the audit at any moment (`StartAudit`).
`AuditRefines` says of every step of a command what `VerifyReachable` assumes of
its environment, so that neither of the two modules has to trust the other.

### Replay

`man` and `obj` are the store; `listed`, `params`, `script`, `out` are the files of
the work directories, of which `listed` has the parents' bytes in the order of
`parents.json` (a transform reads them through that file only; files of earlier
runs beside them do not matter). A process `p` has the temporary directory `p` or
one of `Shared`.

| Action | Code |
|---|---|
| `ReplayRoot`, `RefuseReplay`, `BeginReplay` | `replay_node` up to the work directory: roots pass, transform and environment must be stored |
| `EnterWorkdir` | `TemporaryDirectory(...)` or `mkdir(exist_ok=True)` |
| `CopyParent`, `GiveUp` | the loop over parents, and the exit after it |
| `WriteInputs` | `parents.json`, `params.json`, the transform (one step) |
| `NoRunner`, `StartTransform`, `EndTransform`, `TransformFails` | `subprocess.run` and its exit code |
| `Judge` | `out.bin` missing, another digest, or the node |
| `Return` | every `return` behind the `finally` |
| `Kill`, `OrphanWrites`, `OrphanEnds` | a replay is killed, its transform goes on |
| `Publish` | `store_blob` by a command that nobody races: a complete file appears |
| `PublishTorn`, `WriteTorn` | `store_blob` by commands that race for one of the digests `Racing`: the rename of a file that another has emptied, and the write through that one's open file |

`mixed` and `met` are history variables: the replays that shared their directory
with another one that was at work, and those that read an object while it was
torn. Nothing is claimed of their verdicts (`Undisturbed`): a torn parent is copied
as it is, completed later, and the mismatch, or the OK, was about other bytes than
the ones in the store. `Derived` is about settled bytes, what an object holds when
nobody is writing it any more. What the properties
do say of a `--workdir` used again is that OK is right *unless the transform writes
nothing and an `out.bin` of the right bytes lies there from before*. Replay looks
at the existence of transform and parents, not at their hashes, so an object with
other bytes is an input like any other: `Derived` is about the bytes that are
stored. `Return` has both the
`cleanup()`, which `--keep` leaves out, and the finalizer of the
`TemporaryDirectory` object, which nothing refers to when `replay_node` has
returned, and which removes the directory nevertheless. A
manifest that cannot be read ends the command with a traceback before anything
is done.

### GitGate

A commit is the function from paths to contents; protected and other paths are
separate sets. Of a branch the model keeps where it left the default branch,
its tip, and whether each of its commits only adds (`addOnly`). The actions are
`Commit` (through the hook, where the clone has it), `UpdateBranch` (the default
branch is merged into it, conflicts resolved in any way), `PullRequestGate` (CI on
the merge commit) and `MergePullRequest` (possibly much later). `Renames` lets git
pair deleted and added files in any way, since similarity is a matter of
contents. Git and GitHub are external; that merges do not follow renames is a
simplification, and that the default branch moves by pull requests only is an
assumption (`docs/RELEASES.md` says that its gate jobs are required).

### FrozenGate

As in `GitGate`, a commit is a function from what git merges on its own, here a
file and its line in the sums file, to contents. `PushRun` is the verdict on the
tip of a branch, which depends on the tip alone; `PullRequestRun` is the verdict
on the merge with the default branch of that moment; both are required. The run
on the tip is what keeps the pins under late merges, and it has to be a required one, which
it cannot be for pull requests from forks: with pull-request runs alone
a file may be changed and pinned, found green, and merged after the default branch
went back and forth. A line that is *added* to the default branch is another
matter: a branch that left before and has other bytes of the file merges without
a conflict, and the default branch is red afterwards. `newlines` is the history
variable that excepts these files.

### FixtureGate

The documents of a case are what `verify_triplet` asks of them; the envelope is
its exit code, which documents have schema errors and which hashes are listed;
the schema digest and those of the inputs are compared, too. Vector files match,
differ or raise. `KeyError` and `Broken` are the two kinds of exceptions that
`cli.main` tells apart. `Start` to `Finish` follow `run_fixtures`; `CheckFrozen` is
`check_frozen.py` over the same files; `Edit` changes a case, the vectors, the schema
or the engine, in any way, between runs. The digests of `expected.json`'s inputs
are the inputs themselves, and Python's `True == 1` in the comparison of envelopes
is left out.

## 3. What is checked

| Run | Instance | Shows |
|---|---|---|
| `store_serial` | 1 process, 2 artifacts, all commands, 2 kills | types; with one command at a time objects are never wrong or incomplete (`BlobsMatchNames`), a stray `.tmp` is reused (`StrayTmpIsReused`); `FsckCoversReach`; `ImplementsLedger` |
| `store_race` | 2 processes, 1 artifact, all commands, 1 kill, fair | `ImplementsLedger`, `LinksResolve`, `TornHasWriter`, `VerifiedStaysVerified`; an object that is published without its bytes gets them (`TornBlobHeals`) |
| `store_audited` | 2 processes that ingest, 2 artifacts, 1 transform, parents ingested first, no kill, and one `verify-reachable --replay` | `AuditRefines`, `VerdictStands`, `AlarmHasCause`, `RunsOnVerifiedFiles`; `QuiescentClean`, `Acyclic` |
| `verify` | every store within five cases: 2 nodes with all lists up to length 2 and writers; 3 nodes in chains, forks and cycles; `--replay` with damaged objects, quiet, with writers, with racing writers; fair | `VerdictSound`, `NoFalseAlarm`, `RetractionsReported`, `RunsOnlyVerified`, `Terminates`, types |
| `replay` | 2 replays, a shared and two temporary directories, transforms that depend on order and parameters or write nothing, missing and damaged inputs, a parent that is torn and completed at any time, 1 kill | `SuccessIsReproduction`, `MismatchIsReal`, `TempDirsRemoved`, types |
| `gate` | 2 branches, 1 protected and 1 other path, 2 contents, clones with and without the hook | `MainAppendOnly`, `HookedHistoryAddOnly`, `NoFalseRefusal`, types |
| `frozen` | 2 branches, 1 file and its line, 3 contents | `MainPinsHold`, `FrozenChangeIsLoud`, `RefusalHasCause`, types |
| `fixtures` | 5 case names of which 4 are pinned as in `fixtures/cases`, 3 engines, 4 states of the vectors, 2 edits | `GreenIsComplete`, `MismatchIsShown`, `ShippedIsGreen`, `GatesFreezeEngine`, types |

Four runs show where the code does not do what a document or a comment says:

| Run | What happens | What is said |
|---|---|---|
| `three_writers` | of three ingests of the same bytes one has published them, the next renames a `<d>.tmp` that the third has emptied: the object of a node that verified loses its bytes (`VerifiedStaysVerified`) | `cas.py:71` "atomic temp -> rename to avoid partial writes" |
| `edited_source` | the source is edited between hash and copy: wrong bytes under a digest | `cas.py:54` "Store bytes at their content address" |
| `replay_keep` | with `--keep` a transform fails, and the temporary directory is gone (`KeptDirsStay`) | `cli.py:295` "Keep the workdir (when using an auto-temp dir) after replay." |
| `gate_history` | a commit changes a protected file, the next changes it back: green | `docs/RELEASES.md:25` "the gates refuse history that modifies protected paths" |

Met on the way and without a run of their own: two ingests
of the same bytes are enough to publish an object without them (`BlobsMatchNames`
holds of one process only; `TornBlobHeals` is about these objects); an ingest may
name its own digest, or two ingests each other, as parents, where
`tests/test_verify.py:149` says that cycles "cannot be produced by ingest"
(`Acyclic` fails without `ParentsFirst`); the loser of a race for `<d>.tmp` ends with
`FileNotFoundError`, although its bytes are stored; `ingest --transform-file`
without `--parent` makes a root without the sentinel of ADR-005; a kill between
`open("x")` and the write leaves an empty manifest for good, where
`docs/SPEC.md:27` says "created atomically" (the model has it, and the abstract
ledger counts the id as taken without a record); a vector without `"in"` or a schema without a `$def` ends the fixture
gate with 2, the code for usage errors (`nre/verify/cli.py:76`), and hides vectors
that differ; `--all --case X` runs only `X`.

**Bounds.** The hazards of the store need two processes on one digest, and three for
a complete object that becomes incomplete again: the passing runs have two
writers, the theorems of section 4 that depend on it say so in their premises, and
`three_writers` is the run beyond; two artifacts are enough for a parent
and for a cycle, and transforms are stored by the same code as artifacts. One
kill is enough for any single file left behind, two for a kill during the
cleanup of another one's remains. An audit that begins at any moment of two
ingests meets every kind of half-written file but a ref and a retraction, which
`verify` has; kills during an audit, and more processes for `QuiescentClean` and
`Acyclic`, are in the proofs only. Two nodes with lists of two give self-loops,
cycles and repeated parents; three give a chain and a fork. One protected and
one other path are what a rename needs; two branches are what a late merge needs.
Replay needs two
processes on one directory, two parents for their order, one kill for an
orphan, and one racing parent (a transform that is torn when it is copied is in the
proofs only). In the frozen gate a change and its reversal need two contents, and a
third stands for what is neither; in the fixture gate two edits are a case and the
engine, or the engine and a pin. Safety is also proved without these bounds
(section 4).

**Fairness.** `FairSpec` of `LedgerStore` is weak fairness of `Step(p)`: a running
command that is not killed gets to its next system call, and none of them waits
for another process. No command has to be started, and kills are not fair.
`FairSpec` of `VerifyReachable` is weak fairness of the audit as a whole: one
process that never waits, but for the transform that `--replay` runs: `subprocess.run`
has no timeout, and `Terminates` takes transforms to end. Writers need not write.
The other modules have no fairness.

**Deadlock.** No run of the store or of the gate can stop, and TLC checks it. A
finished audit on a store without writers stops, and so do replays when all of
them were killed: `CHECK_DEADLOCK FALSE` in `verify` and `replay`.

Each property of a passing run has a mutant, an operator next to the one it
changes (comment "Mutant"), under which the run finds it violated.

## 4. What is proved

For any sets of processes, artifacts, nodes, paths and branches:

* `LedgerStore_proofs`: `TypeCorrect`; `LinksAlwaysResolve`;
  `StoreImplementsLedger`, and from it `NothingIsLost` (what is in the ledger is
  neither removed nor changed, a step at a time). The refinement rests on an inductive invariant of
  three parts: what a process has stored is there when it comes to its manifest
  (`StoredInv`), a complete manifest's blobs and id are there and a process
  between create and fill owns its empty file (`ManifestInv`), and what jobs,
  refs and retractions name has a manifest (`LinkInv`). None of it follows from
  the refinement alone: an `AddRecord` step needs to know that no other process is
  at `fill` for the same id.
* `StoreAudit_proofs`: `ObjectsAreOwnOrTorn` and `DamageIsTears`, for any number of
  processes and kills: an object is complete or torn, and `fsck` fails only because
  of something torn, stray or never ingested; `TornFilesHaveWriters` (each incomplete file is one that
  a process has open; kills only increase `crashes`); `QuietStoreIsClean` (for
  callers that name ingested parents and do not edit their files; the invariant
  says of each process how far its blobs are, and of each object that it is
  complete or open); `RecordsFormDAG` (whatever manifest names a parent, that
  parent was filled before it; a step fills one manifest, which no manifest
  names yet, so it joins no cycle); `FsckImpliesReachable`; `SerialStoreIsAtomic`
  and `StrayTmpsAreReused` (one process); `TwoWritersKeepVerdicts` (at most two
  processes: while one is between open and rename of an object that is complete,
  there would have to be a second to have published it and a third to empty the
  file again); `TwoWritersKeepHistories` (the set that a recursive audit visits is
  the least one closed under parents, so it stays the same while its records do).
* `VerifyReachable_proofs`: `TypeCorrect`; `VerdictIsSound`: as long as no error
  was reported, every visited node but the present one verifies now and has its
  parents visited or on the stack (`WalkInv`), and growth of the store does not
  undo it; at the end the visited nodes are closed under parents, so they contain
  `Reach(Root)`. `NoFalseAlarms`: if everything reachable verified at the start
  then the reachable set no longer changes, and the walk stays in it (`AlarmInv`).
  `RetractionsAreReported` (`ReportInv`). `OnlyVerifiedRuns`: what the checks of a
  node have found is still so when its transform is started.
* `AuditedStore_proofs`: the composition. `AuditsOnlyRead`: the store implements
  `LedgerStore` whether it is audited or not. `AuditsRefineTheWalk` (the property
  `AuditRefines`): a step of a command is, through the view, a step of
  `VerifyReachable`'s environment or a stutter, action by action: a rename that
  publishes torn bytes is its `StoreTornBlob`, one that publishes complete bytes
  or a write through the open file its `StoreBlob`. It needs the store's invariants
  (`PairInv`: what a rename puts in the place of an object is complete), and `SystemInv`
  carries them together with the walk's own invariants, which are cited from
  `VerifyReachable_proofs` through `V == INSTANCE ...` and not proved again. With
  it, `VerdictsStand`, `AlarmsHaveCauses`, `RunsAreVerified`, `RetractionsAreSeen`,
  and, for one writer, `ReplaysStand` (with two, a replay may have copied a torn
  parent). The premise is `TwoWriters`: at most two writing processes, whose
  sources are not edited; with three the commands do what `VerifyReachable` does
  not allow. Kills, and the order and number of commands, are arbitrary.
* `Replay_proofs`: `TypeCorrect`; `SuccessSound`, `MismatchSound`, `NoDirLeft`, `TemporaryReplaysDecide` (without `--workdir` no directory is shared, so what is
  left of the exceptions is a torn input) and `TearsComeFromRaces` (with no
  racing commands no object is torn, and no replay meets one that is). The inductive invariant says of each undisturbed replay how far
  it is: what it copied are the parents' settled bytes so far (no step of the others changes
  these, `StoreKeepsSettled`), what lies in the directory are the inputs of its node, and `out.bin`,
  once the transform has ended, is `Derived(n)` or from before. The transform is
  any operator.
* `GitGate_proofs`: `TypeCorrect`; `MainIsAppendOnly` (the default branch extends
  each fork, and a green branch extends its fork, so a three-way merge keeps both
  sides, however old the verdict); `RefusalsHaveCause`; `HookedHistoryIsAddOnly`
  (a hooked branch adds only or is stuck in conflict with the default branch for
  good, and then it is never green again).

* `FrozenGate_proofs`: `TypeCorrect`; `PinsHold`, `ChangesAreLoud`,
  `RefusalsHaveCause`. The lemma is about one merge (`MergeHolds`): where a file
  agrees with its line in the base and on both sides, it does in the merge,
  unless the line is new on both; forks were the default branch once, so they
  hold their pins, and the run on the tip gives the third side.
* `FixtureGate_proofs`: `TypeCorrect`; `GreenIsCompleteHolds`,
  `MismatchIsShownHolds`, `GatesFreezeEngineHolds`; `ShippedIsGreenHolds`, under
  the premise `PinsAgree` that each pinned case expects what `verify_triplet`
  answers (as in `fixtures/cases`, and in the instance of the run); and
  `VerdictIsOfTheFiles`: green and red are a matter of the files and the engine,
  not of the options, and an absent case is never counted as passed. The invariant of the loop: as
  long as no mismatch is on record, every selected case that is no longer to do
  has passed, and each mismatch on record is one and has its trace.

Assumptions are the named `ASSUME`s of the modules (sentinels differ from data)
and the premises stated in the theorems.

Every invariant and action property of a passing run is stated by a theorem.
Only model-checked: liveness (`TornBlobHeals`, `Terminates`), which the prover has
no means for, and the violation runs.

## 5. What is left out

* A power failure that loses written pages: no file is synced, and the models keep
  what was written.
* `fsck` file by file on a store that is being written, and `fsck --replay`:
  `StoreAudit` has `fsck` on a store at rest, without replay.
* The bases of the append-only check on pushes, new branches and manual runs
  (`ci.yml`), and the default range of the script: `GitGate` has pull requests and
  the hook.
* The installation of the hook (`tools/install_hooks.py`): clones have it or not. A
  kill between its write and its chmod leaves a hook that git does not run and
  that the next installation reports as installed.
* The hook's run of the frozen checks, which looks at the working tree where git
  commits the index, and is not started when a rename leads out of the pinned
  directories: `FrozenGate` lets a commit hold anything.
* Canonical JSON, string normalisation, the JSON schemas, argument parsing and
  printing: pure functions of their input. The example transform: `Replay` has any
  transform.
