# Verification of ssh-archive-deploy

TLA+ specifications of `ssh-archive-deploy` (sources in `src/ssh_archive_deploy/`
of the repository), checked with TLC on small instances; their safety
properties are proved with TLAPS for all instances. Paths below are relative to the repository.

## The system

The tool packages the files of a Git working tree that a configuration selects,
compares the archive with the document root of a remote server, writes it there
over ssh, and can undo the latest deployment. It has no server side: everything
remote is a shell script that one ssh call carries, and all state lives in files.

| Part | Code | State | Operations | Talks to |
| --- | --- | --- | --- | --- |
| Configuration | `config.py` | none (scopes, patterns, generated inputs) | `load_config` | all others |
| Packaging and validation | `archive.py` | working tree, package directory, manifest, archive | `build_archive`, `validate_archive` | Git, configuration |
| Report and fetch | `report.py`, `planner.py` | a copy of the covered part of the document root | `fetch_remote_archive`, `compute_plan`, `write_report` | server (reads) |
| Execution plan | `execution_plan.py` | create, replace, skip or conflict for each file of the archive | `build_execution_plan`, `ensure_no_conflicts` | the fetched copy |
| Remote lock | `deploy.py` `RemoteLock` | `workdir/locks/deploy.lock` | `acquire`, `release` | server |
| Apply, recovery, rollback | `deploy.py`, `transaction.py` | document root; `workdir/transactions/<id>` (artifact, plan, before-manifest, record, checkpoint), `pointers/`, `baselines/` | `apply_deployment`, `recover_incomplete_apply`, `rollback_deployment`, `apply_retention` | server, lock, plan |
| Complete backup format | `complete_backup.py`, `scripts/generate_complete_backup_fixture.py` | a bundle: manifest, archive, metadata | `validate_complete_backup_bundle`, `select_retention_deletions`; no command uses them yet | the bundle's files |
| Doctor | `doctor.py` | none | `inspect_remote`, `evaluate_doctor` | server (reads) |
| Summaries, CLI, release scripts, test harness | `summary.py`, `cli.py`, `scripts/`, `tests/` | none | - | - |

What makes it hard:

- a session is a long sequence of ssh calls, and each may fail before or after its
  effect, or the process may be interrupted or killed between two of them; the next
  session has to make sense of what is left in the workdir;
- two sessions may run at once; the lock is a directory made with `mkdir` and
  removed with `rm -rf`, and a remote script may outlive its connection: a writing
  script goes on next to the sessions that follow, which the lock does not prevent;
- an upload is `cat` into a temporary file and `mv`: a connection that breaks looks to
  `cat` like the end of the file, and a part gets the final name;
- transaction ids are seconds of the client's clock: they collide, and they run
  backwards when a client's clock is behind;
- users change the document root all the time, also while a session is at work, and
  the scripts check a file and then write it;
- the same coverage of files is expressed three times: in the packaging, in the
  report, and as arguments of a remote `tar`;
- retention deletes what a later rollback might need, with `rm -rf`, which may be cut
  off within a directory;
- a complete backup is written file by file and may be validated meanwhile; its paths
  are ordered as strings, where `a.txt` comes before `a/x`, but lie below one another
  by their parts;
- doctor asks one question after the other of a server that may change.

What makes each part correct: the lock admits one session; whatever is overwritten
is saved first, in a checkpoint that a rollback or a recovery can use; records and
pointers never promise more than the files hold; a plan is the true difference of
archive and server; what `build` writes `validate` accepts; a backup that is accepted
was read in one piece and can be unpacked, and retention leaves no gaps; a verdict of
doctor has its reasons in what was there. `PROJECT.json` lists the
hazards at their lines, each with the properties that watch over it.

## The modules

| Module | Models | Composed with |
| --- | --- | --- |
| `AbstractLock` | what the lock promises: one holder, who alone works | |
| `RemoteLock` | the two lock scripts, command by command, with unattended scripts | implements `AbstractLock` |
| `RemoteLock_proofs` | theorems about both | |
| `Deploy` | sessions of apply, recovery and rollback, call by call | takes and gives back the lock in one step; implements `AbstractLock` too |
| `DeployClaims` | sentences of the documentation as properties of `Deploy` | |
| `Deploy_proofs` | theorems about types, exclusion and the lock | |
| `DeployUndo` | the inductive invariant of the undo log | extends `Deploy` |
| `DeployUndo_proofs` | theorems about undo log, pointers, outcomes | |
| `Scopes` | operators: what a configuration says of a path | extended by `Packaging` and `ScopePlan` |
| `Scopes_proofs` | lemmas about paths and patterns | used by the proofs of both |
| `Packaging` | `build_archive` and `validate_archive` | |
| `Packaging_proofs` | theorems about it | |
| `ScopePlan` | package, fetch, plan, preflight and write, several times over | its `Operation` and `Holds` are the plan and preflight that `Deploy` takes for granted |
| `ScopeClaims` | sentences of the documentation as properties of `ScopePlan` | |
| `ScopePlan_proofs` | theorems about it | |
| `BackupBundle` | a complete backup: its generator, and its validation file by file | |
| `BackupRetention` | `select_retention_deletions`, and an engine that deletes | |
| `CompleteBackup` | the library `complete_backup.py` | both of them, which share no state |
| `CompleteBackup_proofs` | theorems about both | |
| `Doctor` | the remote script, the records that arrive, the verdict | |
| `Doctor_proofs` | theorems about it | |
| `MC*` | constants for TLC; one `.cfg` for each run | |

### AbstractLock, RemoteLock

`AbstractLock` has two variables: who has the lock, and who works under its
protection. The lock passes from one holder to another only through being free; a lock
whose holder is lost is *left over* until it is cleared by hand; and a holder may still
be inside when the others look, or have left before it gives the lock back. `RemoteLock`
implements it command by command, `Deploy` in one step, each with a mapping of its own
(`Holder`, and `Inside` or `Workers`): that is why `Deploy` need not repeat the scripts.

`client[s]` is where the local process of a session is, `script[s]` the next command
of its remote script, `dir` and `owner` the lock directory and its owner file. Each
command of the scripts is an action (`MakeDir`, `WriteOwner`, `WriteJson`;
`TestOwner`, `RemoveFiles`, `RemoveDir`: `rm -rf` is two steps). `Disconnect` breaks
a connection or kills the local process; its script dies with it or runs on.
`OperatorCleanup` is the manual removal of a left-over lock, which the tool does not
offer itself: the operator checks that no session runs and no release script is at
work, but cannot see an unattended acquire script.

### Deploy

`root` is the document root, `txn` the transaction directories, `applyPtr` and
`lastPtr` the pointers, `baseline` the protected first copy, `lock` the lock. The
session of client `c` stands in front of the call `pc[c]` and has the local variables
`job[c]`. There is one action for each ssh call, in the order of the code (`Step`);
`Call` gives every call that changes the workdir its outcomes: done, failed without
effect, failed with its effect. `Upload` adds the one of an upload that is cut short: a
record that is not whole, a plan or artifact that cannot be read, a pointer that is
empty or names nothing (`Garbled`). A checkpoint is written by `tar` under its final
name and may be left torn, or *spoilt* if a complete one was there before: a recovery whose
`remote_file_exists` fails takes the checkpoint for missing and makes it again. Retention (`Retain`) deletes the
expired directories in any order, may fail between two of them, and may be cut off
within one: `rm -rf` then leaves any part of what was in it (`Remains`), a record that says
applied without its checkpoint included. Recovery and rollback compare the
plan with the record (`Matches`). The scripts that write the document root are stepped file by
file, check and write apart; `WriteFile` may be cut short and leave the old file, none,
a torn one or the new one. `Raise` goes to the exception handler if the local record is
set and to the `finally` block otherwise; `Interrupt` (KeyboardInterrupt is no
`Exception`) goes to `finally`, `Crash` nowhere.

`LoseScript` breaks the connection of a writing script: the session sees an error, is
interrupted or is killed, and the script, `left`, goes on by itself (`LeftStarts`,
`LeftChecks`, `LeftWrites`, `LeftEnds`), whoever takes the lock meanwhile. What it shares
with a recovery of its transaction is the extract directory (`SharesExtract`).

`Start` gives a session the id of a second: a new one or, within `MaxSkews`, one that has
been used or lies behind. `IdOf` maps the second and the archive to the id, so two
applies of one archive, or two rollbacks, that start in one second share id and
directory; ids are ordered as their strings are.

History variables, which only properties read: `writer`, the last session that wrote a
file; `raced`, files edited while a session held the lock; `blind`, files changed between
a check and its write or between the preflight and the checkpoint; `reused`, ids under
which two transactions were made, or one while a script of the other was still at work;
`shed`, whether retention has begun to delete a directory. `blind` and `reused` are exceptions that the properties of the
undo log make, and they need them: TLC finds counterexamples without. An edit in such a
window is overwritten without a trace, and two transactions that share a directory
overwrite each other's checkpoint. An unattended script is an editor like any other in
this respect, which is the limit of the promise of `docs/security-model.md:31-34`: the
lock keeps sessions apart, not scripts that have lost theirs.

Abstractions: contents are model values, so a digest is its content; a release id and
an archive are values with `ReleaseOf`; `latest-transaction` is written but read by
retention only; `ensure_remote_state` is in `Init`; `preparing` is a status nothing
writes. The verification that follows an extraction is folded into the write.
A record matches the configuration. At most one script at a time is unattended, and it
is a writing one: a checkpoint, an upload or the retention script dies with its
connection, before or after its effect or cut short. `MakePlan` sees every file of the archive:
`ScopePlan` is about when that is so.

### Scopes, Packaging, ScopePlan

A path is a sequence of components. Patterns have the three forms the code tells
apart: a path, a subtree `a/b/**` and a glob. `Packaging` steps through the loop
of `collect_files`: `Select` searches and tests the generated inputs of a scope, `Copy`
copies what is there of them and of the tracked files, and `Change` lets the working
tree change before, between and after. The files of one scope are copied in one step:
each copy is listed with the digest of the copy, so no property relates two of them.
`WriteArchive` passes over files named like the
manifest, as the code does, and `Accepts` is `validate_archive` with a configuration:
contributions of generated inputs, scopes, one list of files against the other, and the
tests of names. Of names the model knows whether they have a control character, which
`package_source_file` refuses as well, or a backslash, which only the validation refuses.

`ScopePlan` fetches with `remote_tar_script`'s semantics: the roots of
`remote_include_paths`, and GNU tar's `--exclude`, which matches from any slash on
and leaves out what is below (`TarExcludes`, an external definition, tried with tar
1.34). The report operators are those of `planner.py`. Users edit the server in every
stage, between the preflight and the writing script too; that script tests the plan
again before it writes.

### BackupBundle, BackupRetention

`bundle` holds the three files of a backup, each absent, torn or with its content; the
`generator` writes them in the order of the fixture script, may be killed at any point
and is run again with another snapshot; the `reader` takes the steps of
`validate_complete_backup_bundle`, one file access at a time, and keeps what it has read
in `read` (the archive is accessed twice: for its digest and for its members). A path is
a sequence of names, and a name a number, 0 for one that is refused: its place in the order
of all names and of all names followed by a slash (`Slash`). `Text` is a path in these
places and `Before` its order, which is that of the path strings: where two paths part,
either one string ends or the characters decide, so `a-b` comes before `a/x`; a digest is the content it is of. `ManifestValid` and `ArchiveValid` are
the rules of the code; `Forest` and `Sound` say independently what they must amount to.

`BackupRetention` has the backups there are, what points at them, and the deletions that
were selected and are carried out one by one by a remote engine, which is external: the
code only selects. The engine may be killed between deletions, or after it has made a
baseline and before it points to it.

### Doctor

`step` is the next command of the remote script, `held` the tests that held so far for
the path at hand, `reply` the set of records that have arrived. A `Change` of the server
may fall between any two commands; the output may be `Cut`; ssh may `Break`. `Conclude`
parses and evaluates. `past` lists what the server was like since the script began.
What a single test cannot promise: a workdir that is removed between two tests is
reported as unusable, not as absent, and a tar that is exchanged between two questions
is judged by its old version and its new options. `VerdictOfAMoment` says for which
changes the verdict is exact, `VerdictIsFounded` what holds for all.

## The runs

Deadlock is not checked: all sessions of a bound end, and a deployment that is
refused stays so. Every bound is a named constant.

| Run | Configuration | Shows |
| --- | --- | --- |
| `lock` | 3 sessions, two with one id, 2 broken connections, fair | `MutualExclusion` and its reason, `LockInv`; `LockFreedOrFault`, `LockFreedOrOrphaned`; `ImplementsLock` |
| `recovery` | 1 client, 2 releases, 2 paths, 4 sessions in 4 seconds, 2 faults | the undo log: `ApplyingIsUndoable`, `WrittenIsSaved`, `NothingOverwrittenUnsaved`; the outcomes: `ApplyDelivers`, `RollbackRestores`; `PointerUsable`, `BaselineIsPristine` |
| `edits` | 1 client, 1 archive, 2 seconds, 3 faults, 2 external edits | the undo log while users edit: `NothingOverwrittenUnsaved`; `SavedIsNotLost`, a checkpoint that is made again over one that was taken for missing; and the inductive invariant `UndoInv` of the proofs |
| `sessions` | 2 clients, 2 seconds and 1 session with a used id or a clock behind, 1 fault, two archives of one release, fair | `Exclusive`; `UndoInv`, which implies `ApplyDelivers` and `PointerUsable`; `SessionEnds`, `LockGivenBack`; `ImplementsLock` |
| `packaging` | 8 configurations, 5 trees, 2 changes | `BuildPassesValidation`, with its exceptions; `OneOrigin` |
| `scope_plan` | 8 configurations, 4 of them not `Aligned`, 3 trees (one with a file named like the manifest), 2 deployments, 2 changes | `PlanIsOverlay`, `ReportAgreesWithPlan`, `FailsForAReason` |
| `backup` | 2 runs of the generator over two snapshots (and one that is refused), over a thousand bundles put together by others; 4 backup ids, 2 timestamps, retention 1 | `VerdictIsRight`, `AcceptedInOnePiece`, `AcceptedUnpacks`; `ReferencesHold`, `NoGaps`, `NewestSurvive` |
| `doctor` | 72 servers, 2 changes | `VerdictOfAMoment`, `VerdictIsFounded`, `LostMeansNoVerdict` |

Why these bounds: one archive replaces a file and creates another, so both operations
and their order occur; four sessions hold an apply, a failed one, its recovery and a
rollback, or a rollback that fails and what follows; two faults let a session fail
and its handler, or its successor, fail too, or leave a script behind and let the next
session fail; four transactions exceed a retention of one. The three faults of `edits` are
a session that fails after its checkpoint, a lost answer about it, and a second
checkpoint that is cut short. In `sessions`, one fault and
one clock that is behind are each enough to leave a lock, a record or an id to the other
client. The three contenders of the lock are needed for one to hold it, one to release
it late and one to be left behind by its connection. Two deployments are needed for the
second to find what the first one created. Two runs of the generator can leave a bundle
of two snapshots. Four backups with two timestamps put ties on both sides of the line
that a retention of one draws, next to a baseline. Three entries and paths of three
names hold an entry, its directory and the target above it; one name (`AB`) comes
between another and that name with a slash, as `a-b` does.

### Where documentation and code part

Each `claim_*` run checks one sentence of the documentation and is violated; the
findings in `PROJECT.json` quote the sentence and describe the behaviour.

| Property | Sentence | What happens |
| --- | --- | --- |
| `RetryHasPlan` | `docs/configuration.md:222` | the newest record has no plan: it is that of an apply which failed early, or of a failed rollback |
| `RecoveryDeliversArchive` | `docs/configuration.md:223` | skipped files are not looked at again |
| `LatestApplyIsApplied` | `docs/configuration.md:229` | a late error marks the transaction failed that the pointer names |
| `MatchingFilesAreSeen` | `docs/configuration.md:77` | generated inputs outside the include patterns are not fetched: the second deployment is refused |

Generated inputs are one of four ways in which packaging and fetch part. The others are
that `remote_include_paths` passes over globs, that tar's excludes are not anchored at
`remote.root`, and that the excludes of all scopes go to one tar, so one scope's exclude
hides another scope's files; `MCScopePlan` has a configuration for each of the four, and
`scope_plan` includes them. `Aligned` in `ScopePlan` says of a configuration that it does
none of this, and the theorem `PlanIsTheDifference` that this is enough. For
the others `FailsForAReason` says what happens: the files that are not fetched are planned as
new, and if they exist the preflight refuses.

What `build` packages and `validate` then refuses (`BuildPassesValidation`): a file with the
name of the manifest, a path or a scope's source with a backslash, and in some cases a
package from which a generated file vanished between selection and copy. No sentence of the documentation
promises otherwise, so there is no finding.

Limits of the code that the properties except, by their history variables, rather than
refute: an edit between the check and the write of a file, or between the preflight and
the checkpoint, is overwritten (`blind`), transactions that share an id share their
directory (`reused`), a retry may write a torn checkpoint over a complete one (`spoilt`:
it starts only if nothing was written yet, but an unattended script of the transaction
may still write, and no recovery accepts the transaction any more), and a file edited during a session may differ from what the session
promises (`raced`). A transaction that retention has begun to delete (`shed`) has lost its
undo: that is what retention is for, and the properties say that it happens to
transactions that ended well and that `latest-successful-apply` does not name.

### Fairness

A session is one sequential process whose calls return: the code has no timeouts of
its own, and `subprocess.run` waits for ssh. So `Deploy` assumes weak fairness of
`Step(c)` for each client, and `RemoteLock` of the commands of a script that has
started and of the release. Nothing obliges a session to start, a connection to
break, an unattended script to go on, a user to edit or an operator to act.

## The proofs

Every invariant and every action property of the passing runs is a theorem, and so are
both refinements, for all values of the constants that satisfy the assumptions, any
number of clients, files, archives, backups, configurations, servers and bounds. Each
inductive invariant was checked by TLC before it was proved; `UndoInv`, the largest, is
still part of two runs. The proofs are in `<module>_proofs`.

**The lock.**

- `RemoteLock_proofs`. `LockInv` is inductive: a session has a *claim* from its
  `mkdir` to the end of its `rm -rf`, attended or not. A claim keeps the directory in
  existence, so no other `mkdir` succeeds; at most one session has one. `mkdir` is the only way to a claim, and only the
  claimant's own `RemoveDir` and the operator, who waits until there is none that
  matters, take the directory away. `LockImplemented` is the refinement of `AbstractLock`:
  the holder is the session that claims the lock, and each command maps to a step or a
  stutter. `HolderAlone` is what the abstract lock promises, carried over to the scripts
  by the refinement. `MutualExclusion` alone is not inductive: nothing in it says that a
  release script may still be at work.
- `Deploy_proofs`. `TypeCorrect` needs `SessionShape`: what the local variables hold
  depends on the place a session has reached (past planning there is a plan, in the
  handler too). `SessionInvariant` adds that sessions exclude one another and that the lock
  carries the id of the session past `acquire()`: the first is not inductive without the
  second, and neither needs ids to be distinct, as only one session is past `acquire()`
  when it compares them. `SessionsExclude` and the refinement `LockImplemented` follow. There is
  one lemma for each kind of call, and a frame lemma for the other sessions.

**The undo log.** `DeployUndo_proofs` proves `UndoInv` of `DeployUndo`, and from it
`ApplyingIsUndoable`, `WrittenIsSaved`, `SavedIsNotLost`, `NothingOverwrittenUnsaved`, `PointerUsable`,
`BaselineIsPristine`, `RollbackRestores` and `ApplyDelivers`. None of these is inductive;
what they lack are the other sides of the same agreement:

- `TransactionsInv`: what a directory holds by itself. An id tells an apply from a
  rollback, and applies of one archive from those of another: that is why a session that
  reads the record of somebody else finds the plan of the archive that it is about. And
  what retention has begun to delete had ended well, so that no recovery takes it up.
- `SessionsInv`: what the session at each call has in its directory (`Stored`), in its
  checkpoint (`Protected`), in its record (`Noticed`), and in the document root
  (`Progress`); and that until its checkpoint is complete nobody else has anything to do
  with its id (`Unused`), unless the id is one of `reused`.
- `LeftInv`: what a script that has lost its session can count on: its checkpoint and
  plan stay as long as the directory does, and no session takes up the transaction of a
  rollback again. An unattended apply, on the other hand, may be recovered while it is
  still at work: both then write the same plan from the same checkpoint.
- `PointerInv` and `RootInv`: what the pointer names, and that whatever no session has
  written is an original file or an edit.

The proof has a lemma for each action; what an action leaves alone is taken care of by
frame lemmas over the parts of `UndoInv`. It found two things that TLC's bounds hide. A
script that outlives its session and its directory, which retention deletes, may meet a
session with the same id, so `reused` must count it. And `remote_file_exists` takes a
failed call for a missing file: a recovery that has written nothing yet then makes the
checkpoint again, over a complete one, and may be cut off while it does so. `spoilt`
marks that state; the next recovery refuses it, since the archive cannot be extracted.

**What a plan sees.** `ScopePlan_proofs`. The inductive invariant of `PlanIsTheDifference`
and `FailsOnlyForAReason` is that a file nobody wrote since the fetch has the state that
was fetched (`SnapshotInv`), and that the plan is computed from the snapshot (`PlanInv`). The first needs
besides that the archive ships only what some scope may ship (`ShippedInv`) and that an
aligned configuration fetches whatever it may ship (`MayShipIsFetched`), which is an
argument about patterns and prefixes alone. `ReportTrue` goes without: what the package ships under a scope comes from one source
path, whose name relative to the scope is that of its target (`RelativeOfTarget`), so
the report, which goes by targets, and the packaging, which goes by sources, include the
same files. `NamesInv` says that no shipped file is named like the manifest.

**The package.** `Packaging_proofs`. `PackInv` says that what was selected lies below its
place and no tracked file does (`SelectedInv`), that each entry of the manifest is faithful
to its scope (`DeclaredInv`), and that each path has one copy and one entry
(`CopiedInv`). The step that matters is `Copy`: two sources with one target would be in
scopes whose targets overlap, or in an input and its neighbour, and the tests that the code
makes before it copies exclude just that. `BuiltIsValid` then compares what the loop has
listed with what `validate_archive` asks for, in both directions.

**Complete backups.** `CompleteBackup_proofs`, in two halves that share no variables.

- The validation. `BundleInv` says where a bundle comes from (`OriginInv`), which tests
  the pieces that were read have passed (`ReadInv`), and that while nobody writes they are
  what is there (`SteadyInv`). `VerdictTrue` needs that the tests of the code, entry
  against predecessor and scope against scope, amount to what `Sound` says of the whole: that
  a sorted list is sorted throughout, and that paths with all their directories form a
  forest; and that the order of the strings is an order, in which a directory comes before
  what is in it. They would be inductions over the length, which the prover cannot do; they are
  proved by a least or longest counterexample, which exists because the strict subsets
  of a finite set are well founded (`SmallestSubset`). That as many members as entries, without repetition and with the same
  paths, are the same set is an argument about cardinalities.
- Retention. `RetentionInv` says that what has been deleted was selected, in order,
  and that what is still to be deleted is younger. That `Deletions`, defined as the
  sequence in order of age, exists and is unique needs again an argument over finite
  sets; it is made on the well-founded order of subsets.

**Doctor.** `Doctor_proofs`. `DoctorInv` says what each record that has arrived says of
the past: there is a moment at which it was so (`ObservedInv`), the moments of the tests
of one path are in order and so are those of the questions to tar (`Seen`, `TarInv`); no
record comes before its turn (`TurnInv`), so what is cut off is missing from the reply
(`LostInv`); and two moments in succession differ in one thing (`ChangeInv`).
`VerdictFounded` and `LostRecords` follow from the records alone. `MomentSeen` needs the
order: of two moments, the verdict is that of the first or of the second, because what
was seen before and after the change cannot be combined.

**Assumptions.** TLC evaluates them in each run. Bounds are naturals; `None`, `Absent` and the
like are outside the sets they must be apart from. Beyond this:

- `IdsAssumption`: ids of a later second are greater, and one second has one id per archive:
  the ids are timestamps followed by the release, compared as strings.
- `PathsAssumption`: paths are sequences of names, and none is a file and a directory at once.
- `ConfigsAssumption`: a configuration passes the tests of `load_config`
  (`Parses`): names of scopes are unique, generated inputs of a scope do not overlap.
- `RetentionAssumption`: ids and times are ordered, and `select_retention_deletions`
  refuses a retention below one.
- `NamesAssumption`: a name comes before the same name with a slash after it.
- `BundleAssumption`: a document that is whole has the types that the parsers require,
  and a directory has no content. Nothing else is assumed of bundles put together by others.
- `DoctorAssumption`: the lists in `doctor.py` name each command once, tar is among
  the required ones and has options that are required, and what the shell says of a missing tar is
  not a tested version.

The lemmas about paths in `Scopes_proofs` and `CompleteBackup_proofs` resemble one another;
they are not shared because a name is a string in one and a number in the other.

**Checked by TLC only**: `LockFreedOrFault`, `LockFreedOrOrphaned`, `SessionEnds` and
`LockGivenBack`. They are liveness under weak fairness, which needs `ENABLED` and is out
of the reach of TLAPS. The refinements are proved as safety: `AbstractLock` states no
fairness. The four sentences in `DeployClaims` and `ScopeClaims` are refuted by TLC.

## Not modelled

Directories that an apply creates and a rollback removes; symbolic links in the
parents of a path (the scripts' `safe_parent` checks); mismatches between a record
and the configuration; interrupted files of the baseline directory; checkpoints,
uploads and retention scripts that run on without their session (the last would delete by pointers
that are out of date); release ids and digests of archive members;
the JSON and YAML forms, among them the canonical form of a backup's documents, of which
the model knows whether it holds; `layout.json`, `classify_namespace_paths` and
`scope_config_digest`, which are functions of one argument; the patterns by which doctor
recognises a tar, its report and summary; `summary.py` and `cli.py`, which keep no state
and make one call each; the release scripts and the test harness.

## Plan

Done, in this order: the lock and its proof; sessions, their recovery and their
proof of exclusion; packaging; what a plan sees and its proof; the abstract lock and both
refinements, with proofs; unattended scripts, cut uploads and clocks in `Deploy`;
complete backups; doctor.

Then the proofs of all safety properties, component by component: the undo log, retention
and bundles, doctor, report and package.

Next:

1. `AbstractDeploy`: a document root with an atomic deploy and undo; `Deploy` without
   faults, edits and shared ids shown to implement it, from the parts of `UndoInv` that
   say what `Progress` does.
2. The retention script as a second kind of unattended script.
3. What a recovery makes of a record: that every apply which is recorded as `applying`,
   and whose files are as before or as shipped, is accepted by the tests of `RecoveryState`.
4. Created directories, which a rollback removes again if they are empty.
