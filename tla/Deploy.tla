------------------------------- MODULE Deploy -------------------------------
(***************************************************************************)
(* apply and rollback --release latest (deploy.py): sessions that change   *)
(* the document root of a remote server, one ssh call after another, and   *)
(* keep what they need to undo their changes under remote.workdir.         *)
(*                                                                         *)
(* A session takes the lock, reads the transaction records, plans against  *)
(* the files it finds, saves the files it will replace, writes, and moves  *)
(* two pointers.  Every call may fail before or after its effect, the      *)
(* session may be interrupted or killed between two calls, and somebody    *)
(* else may edit the document root at any time.  A script that writes may  *)
(* go on when its connection breaks, next to the sessions that follow.     *)
(* Transaction ids begin with the second in which a session starts, by the *)
(* clock of its client: two sessions may share one.                        *)
(***************************************************************************)
EXTENDS Naturals, FiniteSets

CONSTANTS
  Clients,       \* processes that run the tool, each one session at a time
  NFiles,        \* number of paths that archives may ship, in sorted order
  Data,          \* contents of regular files
  Archives,      \* release archives
  ReleaseOf,     \* the release_id in the manifest of an archive
  Payload,       \* Payload[a][f]: what archive a ships at path f, or "absent"
  InitialRoot,   \* the document root before the tool is first used
  EditContents,  \* what an external edit may leave at a path
  Retention,     \* backup.retention
  None,          \* no such file in the workdir
  IdOf,          \* IdOf[s][a]: the id of an apply of a, or, for None, of a
                 \* rollback, that starts in second s
  MaxTxn,        \* bound: transaction ids
  MaxSeconds,    \* bound: seconds in which sessions start
  MaxSkews,      \* bound: sessions that start in the same second as an earlier
                 \* one or with a clock that is behind
  MaxFaults,     \* bound: failed calls, interrupts and crashes
  MaxEdits       \* bound: external edits

Files == 1..NFiles
TxnIds == 1..MaxTxn
NoTxn == 0     \* an empty pointer, a free lock, a file no session has written
Garbled == MaxTxn + 1     \* a pointer whose upload was cut short

\* "torn" is a file that was written in part; "special" is a symbolic link.
Contents == Data \cup {"absent", "torn", "special"}

\* execution_plan.py: the operations are a function of these two.
Plans == [arch : Archives, before : [Files -> Contents]]
Shipped(a) == {f \in Files : Payload[a][f] # "absent"}
Creates(p) == {f \in Shipped(p.arch) : p.before[f] = "absent"}
Replaces(p) == {f \in Shipped(p.arch) : p.before[f] \notin {"absent", Payload[p.arch][f]}}
Touched(p) == Creates(p) \cup Replaces(p)

\* transaction.py: what is read back of transaction.json, unless its upload was
\* cut short.  A record lists the files of its plan again.
Statuses == {"prepared", "applying", "applied", "rolling_back", "rolled_back", "failed"}
Records == [mode : {"apply", "rollback"}, arch : Archives, status : Statuses, whole : BOOLEAN,
            creates : SUBSET Files, replaces : SUBSET Files]

\* before.tar.gz or, for a rollback, before-rollback.tar.gz.  "spoilt" is one that
\* is torn and has taken the place of a complete one.
Checkpoints == [state : {"none", "torn", "spoilt", "full"}, saved : [Files -> Contents]]

\* A directory of workdir/transactions.  shed is history: retention has begun to
\* delete it.
Transactions == [dir : BOOLEAN, shed : BOOLEAN, files : SUBSET {"artifact", "manifest"},
                 plan : Plans \cup {None}, rec : Records \cup {None},
                 ckpt : Checkpoints]

NoCkpt == [state |-> "none", saved |-> [f \in Files |-> "absent"]]
NoTransaction ==
  [dir |-> FALSE, shed |-> FALSE, files |-> {}, plan |-> None, rec |-> None, ckpt |-> NoCkpt]

ASSUME FilesAssumption == NFiles \in Nat /\ Data \cap {"absent", "torn", "special"} = {}
ASSUME ArchivesAssumption == Payload \in [Archives -> [Files -> Data \cup {"absent"}]]
ASSUME RootAssumption == InitialRoot \in [Files -> Contents] /\ EditContents \subseteq Contents
ASSUME BoundsAssumption ==
  /\ Retention \in Nat /\ MaxTxn \in Nat /\ MaxFaults \in Nat /\ MaxEdits \in Nat
  /\ MaxSeconds \in Nat /\ MaxSkews \in Nat
ASSUME IdsAssumption ==
  /\ IdOf \in [1..MaxSeconds -> [Archives \cup {None} -> TxnIds]]
  /\ \A s \in 1..MaxSeconds, x, y \in Archives \cup {None} :
       /\ IdOf[s][x] = IdOf[s][y] => x = y
       /\ \A r \in 1..(s - 1) : IdOf[r][x] < IdOf[s][y]
ASSUME NoneAssumption ==
  /\ None \notin Plans /\ None \notin Records /\ None \notin [Files -> Contents]
  /\ None \notin Archives

VARIABLES
  root,      \* the document root
  lock,      \* the transaction id in deploy.lock/owner, NoTxn when free
  txn,       \* workdir/transactions
  applyPtr,  \* pointers/latest-successful-apply
  lastPtr,   \* pointers/latest-transaction
  baseline,  \* the files in the baseline, once baseline.json is there
  pc,        \* pc[c]: the next call of the session of client c
  job,       \* job[c]: its local variables
  left,      \* a writing script that has lost its session and runs on
  clock, skews, faults, edits,      \* counters of the bounds
  writer,    \* history: the last session that wrote a file, unless edited since
  raced,     \* history: files edited while a session held the lock
  blind,     \* history: files changed in one of the unprotected windows
  reused     \* history: ids under which two transactions were made

workdir == <<txn, applyPtr, lastPtr, baseline>>
rest == <<left, clock, skews, edits, writer, raced, blind>>
vars == <<root, lock, workdir, pc, job, faults, reused, rest>>

Ended == {"finally", "returned", "noop"}
Inside == {"lookup", "plan", "baseline", "mkdir", "artifact", "planfile", "manifest",
           "record", "preflight", "checkpoint", "state", "validate", "target", "applying",
           "script", "check", "extract", "mark", "ptr_apply", "ptr_last", "ptr_remove",
           "retain", "except"}

Jobs == [kind : {"apply", "recover", "rollback"}, arch : Archives \cup {None},
         id : 0..MaxTxn,     \* the session's own transaction id
         tx : 0..MaxTxn,     \* the transaction applied, recovered or rolled back
         plan : Plans \cup {None}, todo : SUBSET Files,
         from : [Files -> Contents]]     \* what the writing script has extracted
NoJob(kind, a, id, tx) ==
  [kind |-> kind, arch |-> a, id |-> id, tx |-> tx, plan |-> None, todo |-> {},
   from |-> [f \in Files |-> "absent"]]
IdleJob == NoJob("apply", None, NoTxn, NoTxn)

\* The writing script of a session, and how far it is.
Scripts == [job : {j \in Jobs : j.plan # None /\ j.tx # NoTxn}, at : {"script", "check", "extract"}]

\* Every variable stays in its range.
TypeOK ==
  /\ root \in [Files -> Contents]
  /\ txn \in [TxnIds -> Transactions]
  /\ lock \in 0..MaxTxn /\ {applyPtr, lastPtr} \subseteq 0..Garbled
  /\ baseline \in [Files -> Contents] \cup {None}
  /\ pc \in [Clients -> {"idle", "acquire"} \cup Inside \cup Ended]
  /\ job \in [Clients -> Jobs]
  /\ left \in Scripts \cup {None}
  /\ clock \in 0..MaxSeconds /\ skews \in 0..MaxSkews
  /\ faults \in 0..MaxFaults /\ edits \in 0..MaxEdits
  /\ writer \in [Files -> 0..MaxTxn] /\ raced \subseteq Files /\ blind \subseteq Files
  /\ reused \subseteq TxnIds

Init ==
  /\ root = InitialRoot
  /\ txn = [t \in TxnIds |-> NoTransaction]
  /\ lock = NoTxn /\ applyPtr = NoTxn /\ lastPtr = NoTxn /\ baseline = None
  /\ pc = [c \in Clients |-> "idle"] /\ job = [c \in Clients |-> IdleJob]
  /\ left = None /\ clock = 0 /\ skews = 0 /\ faults = 0 /\ edits = 0
  /\ writer = [f \in Files |-> NoTxn] /\ raced = {} /\ blind = {} /\ reused = {}

-----------------------------------------------------------------------------
(* How a session goes on. *)

IsRollback(j) == j.kind = "rollback"

\* The transaction whose record a session writes.
Own(j) == IF IsRollback(j) THEN j.id ELSE j.tx

\* The local variable transaction (rollback_record) is set: the exception
\* handler will record the failure.  It stays None in a recovery.
Noted(c) == job[c].kind # "recover" /\ job[c].plan # None

Goto(c, p) == pc' = [pc EXCEPT ![c] = p]
RaiseBeforeTry(c) == Goto(c, IF Noted(c) THEN "except" ELSE "idle") \* mutant
Raise(c) == Goto(c, IF Noted(c) THEN "except" ELSE "finally")
Fault == faults < MaxFaults /\ faults' = faults + 1
NoFault == UNCHANGED faults

\* One ssh call that changes the workdir: its answer arrives, or the session
\* sees an error although the effect may have taken place.
Frame(c) == UNCHANGED <<root, lock, job, reused, rest>>
Call(c, p, Effect, q) ==
  /\ pc[c] = p
  /\ \/ Effect /\ Goto(c, q) /\ NoFault
     \/ Fault /\ (Effect \/ UNCHANGED workdir) /\ Raise(c)
  /\ Frame(c)

\* run_upload: cat takes a broken connection for the end of the file, and mv
\* gives the part that has arrived the final name.
Upload(c, p, Effect, Cut, q) ==
  Call(c, p, Effect, q) \/ (pc[c] = p /\ Fault /\ Cut /\ Raise(c) /\ Frame(c))

Local == <<workdir, root, lock, rest>>

Put(t, r) == txn' = [txn EXCEPT ![t] = r] /\ UNCHANGED <<applyPtr, lastPtr, baseline>>

\* upload_text(transaction_to_json(...)): run_upload makes the directory too.
RecordOf(m, p, s, w) ==
  [mode |-> m, arch |-> p.arch, status |-> s, whole |-> w,
   creates |-> Creates(p), replaces |-> Replaces(p)]
PutKind(c, s, w) == \* mutant: the internal kind of the session becomes the mode
  LET t == Own(job[c]) IN
  Put(t, [txn[t] EXCEPT !.dir = TRUE, !.rec = RecordOf(job[c].kind, job[c].plan, s, w)])
PutStatus(c, s, w) ==
  LET t == Own(job[c]) IN
  Put(t, [txn[t] EXCEPT
    !.dir = TRUE,
    !.rec = RecordOf(IF IsRollback(job[c]) THEN "rollback" ELSE "apply", job[c].plan, s, w)])
Record(c, p, s, q) == Upload(c, p, PutStatus(c, s, TRUE), PutStatus(c, s, FALSE), q)

-----------------------------------------------------------------------------
(* Start, lock and end of a session. *)

\* The session is past acquire().
Working(c) == pc[c] \in Inside \cup Ended

Start(c, kind, a, s) ==
  /\ pc[c] = "idle"
  /\ \/ s = clock + 1 /\ s <= MaxSeconds /\ clock' = s /\ UNCHANGED skews
     \/ s \in 1..clock /\ skews < MaxSkews /\ skews' = skews + 1 /\ UNCHANGED clock
  /\ LET id == IdOf[s][a] IN
     job' = [job EXCEPT ![c] = NoJob(kind, a, id, IF kind = "apply" THEN id ELSE NoTxn)]
  /\ Goto(c, "acquire")
  /\ UNCHANGED <<root, lock, workdir, left, faults, edits, writer, raced, blind, reused>>

StartApply(c) == \E a \in Archives, s \in 1..MaxSeconds : Start(c, "apply", a, s)
StartRollback(c) == \E s \in 1..MaxSeconds : Start(c, "rollback", None, s)

\* The session is gone.
Leave(c) == Goto(c, "idle") /\ job' = [job EXCEPT ![c] = IdleJob]

\* lock.acquire() stands before the try block: when it fails, release() is not
\* called, even if the lock was made and only the answer was lost.
AcquireAnyway(c) == \* mutant: mkdir -p succeeds on a lock that exists
  /\ pc[c] = "acquire" /\ lock' = job[c].id
  /\ Goto(c, IF IsRollback(job[c]) THEN "target" ELSE "lookup")
  /\ UNCHANGED <<root, workdir, job, faults, reused, rest>>
Acquire(c) ==
  /\ pc[c] = "acquire"
  /\ \/ /\ lock = NoTxn /\ lock' = job[c].id
        /\ Goto(c, IF IsRollback(job[c]) THEN "target" ELSE "lookup")
        /\ NoFault /\ UNCHANGED job
     \/ lock # NoTxn /\ NoFault /\ Leave(c) /\ UNCHANGED lock
     \/ Fault /\ Leave(c) /\ lock' \in {lock, IF lock = NoTxn THEN job[c].id ELSE lock}
  /\ UNCHANGED <<root, workdir, reused, rest>>

\* The finally block: release() removes the lock only if it is the session's own.
Release(c) ==
  /\ pc[c] \in Ended
  /\ lock' = IF lock = job[c].id THEN NoTxn ELSE lock
  /\ Leave(c)
  /\ UNCHANGED <<root, workdir, faults, reused, rest>>

\* except Exception: the failure is recorded; a second failure ends it.
RecordFailure(c) ==
  /\ pc[c] = "except"
  /\ \/ PutStatus(c, "failed", TRUE) /\ NoFault
     \/ Fault /\ ((\E w \in BOOLEAN : PutStatus(c, "failed", w)) \/ UNCHANGED workdir)
  /\ Goto(c, "finally")
  /\ Frame(c)

\* Ctrl-C or a cancelled job that still unwinds: no handler, only finally.
Interrupt(c) ==
  /\ pc[c] \in Inside
  /\ Fault
  /\ Goto(c, "finally")
  /\ UNCHANGED <<Local, job, reused>>

\* The process is killed; release() that fails looks the same.
Crash(c) ==
  /\ pc[c] \in Inside \cup Ended
  /\ Fault
  /\ Leave(c)
  /\ UNCHANGED <<Local, reused>>

\* A call that only reads fails.
ReadFails(c) ==
  /\ pc[c] \in {"lookup", "plan", "state", "validate", "target", "preflight", "script", "check"}
  /\ Fault
  /\ Raise(c)
  /\ UNCHANGED <<Local, job, reused>>

-----------------------------------------------------------------------------
(* apply: what is known of the release (existing_release_result). *)

Recorded == {t \in TxnIds : txn[t].rec # None}
SameRelease(t, a) == ReleaseOf[txn[t].rec.arch] = ReleaseOf[a]

\* transactions_for_release: whatever their mode and status.
Earlier(a) == {t \in Recorded : SameRelease(t, a)}
Unfinished == {"prepared", "applying", "failed"}
Recoverable(a) == {t \in Earlier(a) : txn[t].rec.status \in Unfinished}
Newest(t, S) == t \in S /\ \A u \in S : u <= t

\* transactions_for_release reads every record before it looks at the release.
Unreadable == \E t \in Recorded : ~txn[t].rec.whole

\* p is the pointer as read: a failed read counts as no pointer.
ReadPointer(p) ==
  \/ p = applyPtr /\ NoFault
  \/ p = NoTxn /\ applyPtr # NoTxn /\ Fault

Latest(p, a) == p \in Recorded /\ SameRelease(p, a)
Deployed(p, a) == Latest(p, a) /\ txn[p].rec.arch = a /\ txn[p].rec.status = "applied"
Refused(p, a) ==
  \/ p # NoTxn /\ p \notin Recorded
  \/ Latest(p, a) /\ ~Deployed(p, a)
  \/ \E t \in Earlier(a) : txn[t].rec.arch # a

LookupFails(c) ==
  /\ pc[c] = "lookup"
  /\ Unreadable /\ Raise(c) /\ NoFault /\ UNCHANGED <<Local, job, reused>>
Lookup(c) ==
  /\ pc[c] = "lookup" /\ ~Unreadable
  /\ \E p \in {NoTxn, applyPtr} :
       /\ ReadPointer(p)
       /\ LET a == job[c].arch IN
          \/ Deployed(p, a) /\ Goto(c, "noop") /\ UNCHANGED job
          \/ ~Deployed(p, a) /\ Refused(p, a) /\ Raise(c) /\ UNCHANGED job
          \/ /\ ~Latest(p, a) /\ ~Refused(p, a)
             /\ \E t \in TxnIds :
                  /\ Newest(t, Recoverable(a))
                  /\ job' = [job EXCEPT ![c] = [@ EXCEPT !.kind = "recover", !.tx = t]]
             /\ Goto(c, "state")
          \/ /\ ~Latest(p, a) /\ ~Refused(p, a) /\ Recoverable(a) = {}
             /\ Goto(c, "plan") /\ UNCHANGED job
  /\ UNCHANGED <<Local, reused>>

-----------------------------------------------------------------------------
(* A fresh apply, up to its checkpoint. *)

\* Another session has had the same id: mkdir -p takes its directory.  Its
\* script may still be at work when retention has deleted the directory.
Traces(t) ==
  txn[t].dir \/ (\E f \in Files : writer[f] = t) \/ (left # None /\ Own(left.job) = t)
Reuse(c) == reused' = IF Traces(job[c].id) THEN reused \cup {job[c].id} ELSE reused

MakePlan(a) == [arch |-> a, before |-> [f \in Files |-> IF f \in Shipped(a) THEN root[f] ELSE "absent"]]
Conflicts(p) == {f \in Shipped(p.arch) : p.before[f] = "special"}

\* fetch_remote_archive, build_execution_plan, ensure_no_conflicts.
Plan(c) ==
  /\ pc[c] = "plan"
  /\ LET p == MakePlan(job[c].arch) IN
     \/ Conflicts(p) # {} /\ Raise(c) /\ UNCHANGED <<job, reused>>
     \/ /\ Conflicts(p) = {} /\ Goto(c, "baseline") /\ Reuse(c)
        /\ job' = [job EXCEPT ![c] = [@ EXCEPT !.plan = p, !.todo = Touched(p)]]
  /\ NoFault /\ UNCHANGED Local

\* baseline.json is moved into place last, and never replaced.
RenewBaseline(c) == \* mutant: the test for baseline.json is missing
  Call(c, "baseline", baseline' = root /\ UNCHANGED <<txn, applyPtr, lastPtr>>, "mkdir")
EnsureBaseline(c) ==
  Call(c, "baseline",
       /\ baseline' = IF baseline = None THEN root ELSE baseline
       /\ UNCHANGED <<txn, applyPtr, lastPtr>>,
       "mkdir")

\* What a session does with its own transaction directory.
MakeDir(c) ==
  LET t == Own(job[c]) IN
  Call(c, "mkdir", Put(t, [txn[t] EXCEPT !.dir = TRUE]),
       IF IsRollback(job[c]) THEN "preflight" ELSE "artifact")

\* A file that cannot be read is as good as none.
PutFile(c, p, x, q) ==
  LET t == Own(job[c]) IN
  Upload(c, p, Put(t, [txn[t] EXCEPT !.files = @ \cup {x}]), Put(t, [txn[t] EXCEPT !.files = @ \ {x}]), q)

PutArtifact(c) == PutFile(c, "artifact", "artifact", "planfile")

\* before-manifest.json of another plan is as good as none.
PutPlan(c) ==
  LET t == Own(job[c])
      Kept == IF txn[t].plan = job[c].plan THEN {"manifest"} ELSE {}
  IN
  Upload(c, "planfile",
         Put(t, [txn[t] EXCEPT !.plan = job[c].plan, !.files = @ \cap ({"artifact"} \cup Kept)]),
         Put(t, [txn[t] EXCEPT !.plan = None]), "manifest")

PutManifest(c) == PutFile(c, "manifest", "manifest", "record")

PutRecord(c) ==
  IF IsRollback(job[c]) THEN Record(c, "record", "rolling_back", "script")
                        ELSE Record(c, "record", "prepared", "preflight")

\* What each planned file must still hold: its state before the apply, or, for
\* a rollback, what the apply wrote.
Anything(j, f) == root[f] \* mutant: the checksums are not compared
Expected(j, f) == IF IsRollback(j) THEN Payload[j.plan.arch][f] ELSE j.plan.before[f]
Unchecked(j) == TRUE \* mutant: no preflight
AsExpected(j) == \A f \in Touched(j.plan) : root[f] = Expected(j, f)

\* apply_preflight_script, rollback_preflight_script.
Preflight(c) ==
  /\ pc[c] = "preflight"
  /\ \/ AsExpected(job[c]) /\ Goto(c, "checkpoint")
     \/ ~AsExpected(job[c]) /\ Raise(c)
  /\ NoFault /\ UNCHANGED <<Local, job, reused>>

\* The files of the checkpoint.  tar fails when one is missing, and what it has
\* written by then is left behind under the final name.
OnlyReplaced(j) == Replaces(j.plan) \* mutant: a rollback forgets the created files
ToSave(j) == IF IsRollback(j) THEN Touched(j.plan) ELSE Replaces(j.plan)
CanSave(j) == \A f \in ToSave(j) : root[f] # "absent"
Save(j) ==
  Put(Own(j), [txn[Own(j)] EXCEPT !.ckpt =
    [state |-> "full", saved |-> [f \in Files |-> IF f \in ToSave(j) THEN root[f] ELSE "absent"]]])
SaveTorn(j) ==
  Put(Own(j), [txn[Own(j)] EXCEPT !.ckpt =
    [NoCkpt EXCEPT !.state =
       IF txn[Own(j)].ckpt.state \in {"full", "spoilt"} THEN "spoilt" ELSE "torn"]])

\* checkpoint_script, rollback_checkpoint_script.
Checkpoint(c) ==
  /\ pc[c] = "checkpoint"
  /\ \/ /\ CanSave(job[c]) /\ Save(job[c]) /\ NoFault
        /\ Goto(c, CASE job[c].kind = "apply" -> "applying"
                     [] job[c].kind = "recover" -> "validate"
                     [] OTHER -> "record")
     \/ ~CanSave(job[c]) /\ SaveTorn(job[c]) /\ Raise(c) /\ NoFault
     \/ CanSave(job[c]) /\ Fault /\ (Save(job[c]) \/ SaveTorn(job[c]) \/ UNCHANGED workdir) /\ Raise(c)
  /\ Frame(c)

-----------------------------------------------------------------------------
(* apply: recovery of an earlier transaction (recover_incomplete_apply). *)

\* before-manifest.json is there, and the checkpoint holds every replaced file
\* as it was planned.
UndoableByList(t) == \* mutant: the checkpoint is listed, not extracted and compared
  txn[t].plan # None /\ "manifest" \in txn[t].files /\ txn[t].ckpt.state # "none"
Undoable(t) ==
  /\ txn[t].plan # None /\ "manifest" \in txn[t].files
  /\ txn[t].ckpt.state = "full"
  /\ \A f \in Replaces(txn[t].plan) : txn[t].ckpt.saved[f] = txn[t].plan.before[f]

\* validate_rollback_plan: the plan is the one that the record lists.
Matches(k, p) == k.arch = p.arch /\ k.creates = Creates(p) /\ k.replaces = Replaces(p)

\* Every planned file is as it was before the apply or as the apply leaves it.
Known(p) == \A f \in Touched(p) : root[f] \in {p.before[f], Payload[p.arch][f]}
AlreadyWritten(p) == {f \in Touched(p) : root[f] = Payload[p.arch][f]}

\* The writing script is run only if a file is still in its state before.
SomeWritten(p) == IF AlreadyWritten(p) # {} THEN {} ELSE Touched(p) \* mutant
Remaining(p) == IF AlreadyWritten(p) = Touched(p) THEN {} ELSE Touched(p)

\* remote_file_exists takes a failed call for a missing checkpoint; then a
\* transaction that has written nothing yet is checkpointed again.
RecoveryState(c) ==
  /\ pc[c] = "state"
  /\ LET p == txn[job[c].tx].plan
         fresh == txn[job[c].tx].ckpt.state = "none"
         readable == p # None /\ Matches(txn[job[c].tx].rec, p) /\ Known(p)
         Read(q) == /\ job' = [job EXCEPT ![c] = [@ EXCEPT !.plan = p, !.todo = Remaining(p)]]
                    /\ Goto(c, q)
     IN
     \/ readable /\ ~fresh /\ Read("validate") /\ NoFault
     \/ /\ readable /\ AlreadyWritten(p) = {} /\ Read("preflight")
        /\ IF fresh THEN NoFault ELSE Fault
     \/ /\ ~(readable /\ (fresh => AlreadyWritten(p) = {}))
        /\ Raise(c) /\ NoFault /\ UNCHANGED job
  /\ UNCHANGED <<Local, reused>>

\* ensure_remote_artifact: the archive is uploaded if it is not there, or if
\* sha256sum fails on it.
EnsureArtifact(c) == PutFile(c, "validate", "artifact", "applying")

\* validate_before_manifest, validate_before_checkpoint_script.
ValidateNothing(c) == EnsureArtifact(c) \* mutant: recovery trusts the checkpoint it finds
Validate(c) ==
  /\ pc[c] = "validate"
  /\ \/ Undoable(job[c].tx) /\ EnsureArtifact(c)
     \/ /\ ~Undoable(job[c].tx)
        /\ Raise(c) /\ NoFault /\ UNCHANGED <<Local, job, reused>>

-----------------------------------------------------------------------------
(* rollback: the transaction to undo. *)

\* rollback_deployment up to the creation of rollback_record.
CanRollBack(t) ==
  /\ t \in Recorded /\ txn[t].rec.whole
  /\ txn[t].rec.mode = "apply" /\ txn[t].rec.status = "applied"
  /\ Undoable(t) /\ Matches(txn[t].rec, txn[t].plan)
  /\ \A f \in Touched(txn[t].plan) : root[f] = Payload[txn[t].plan.arch][f]

Target(c) ==
  /\ pc[c] = "target"
  /\ \/ /\ CanRollBack(applyPtr) /\ Goto(c, "mkdir") /\ Reuse(c)
        /\ job' = [job EXCEPT ![c] = [@ EXCEPT !.tx = applyPtr, !.plan = txn[applyPtr].plan,
                                                 !.todo = Touched(txn[applyPtr].plan)]]
     \/ ~CanRollBack(applyPtr) /\ Raise(c) /\ UNCHANGED <<job, reused>>
  /\ NoFault /\ UNCHANGED Local

-----------------------------------------------------------------------------
(* The scripts that write the document root, one file at a time. *)

Applying(c) ==
  Record(c, "applying", "applying",
       IF job[c].kind = "recover" /\ job[c].todo = {} THEN "mark" ELSE "script")

\* What the head of a writing script extracts: the archive, into the extract
\* directory of the transaction, or, for a rollback, the checkpoint of the
\* apply, into a directory of its own.
Extracted(j) == IF IsRollback(j) THEN txn[j.tx].ckpt.saved ELSE Payload[j.plan.arch]

\* The checks at the head of apply_script, recovery_apply_script (which has
\* none of the state of the files) and rollback_script.
ScriptReady(j) ==
  CASE j.kind = "apply" -> "artifact" \in txn[j.tx].files /\ AsExpected(j)
    [] j.kind = "recover" -> "artifact" \in txn[j.tx].files
    [] OTHER -> Undoable(j.tx) /\ AsExpected(j)

\* Two scripts that write for one transaction share its extract directory; each
\* of them empties it first, and the other finds files missing or torn.
SharesExtract(j, k) == j.tx = k.tx /\ ~IsRollback(j) /\ ~IsRollback(k)
ExtractDisturbed(c) == left # None /\ left.at = "script" /\ SharesExtract(job[c], left.job)

StartScript(c) ==
  /\ pc[c] = "script"
  /\ \/ /\ ScriptReady(job[c]) /\ Goto(c, "check")
        /\ job' = [job EXCEPT ![c].from = Extracted(job[c])]
     \/ (ScriptReady(job[c]) => ExtractDisturbed(c)) /\ Raise(c) /\ UNCHANGED job
  /\ NoFault /\ UNCHANGED <<Local, reused>>

\* Paths in sorted order; a rollback restores before it deletes.
NoCurrent(j, f) == f \in j.todo /\ \A g \in j.todo : f < g \* mutant: off by one
Current(j, f) ==
  LET restore == j.todo \cap Replaces(j.plan)
      S == IF IsRollback(j) /\ restore # {} THEN restore ELSE j.todo
  IN  f \in S /\ \A g \in S : f <= g

\* What the script leaves at the path: the extracted file or, when a created
\* file is deleted, nothing.
KeepCreated(j, f) == \* mutant: a rollback does not delete
  IF IsRollback(j) /\ f \in Creates(j.plan) THEN Payload[j.plan.arch][f] ELSE j.from[f]
Written(j, f) == IF IsRollback(j) /\ f \in Creates(j.plan) THEN "absent" ELSE j.from[f]

\* The check in front of each write.  A recovery passes over the files that
\* the earlier attempt has written.
CheckFile(c) ==
  /\ pc[c] = "check"
  /\ \/ job[c].todo = {} /\ Goto(c, "mark") /\ UNCHANGED job
     \/ \E f \in job[c].todo :
          /\ Current(job[c], f)
          /\ \/ root[f] = Expected(job[c], f) /\ Goto(c, "extract") /\ UNCHANGED job
             \/ /\ job[c].kind = "recover" /\ root[f] # Expected(job[c], f) /\ root[f] = Written(job[c], f)
                /\ job' = [job EXCEPT ![c].todo = @ \ {f}]
                /\ UNCHANGED pc
             \/ /\ root[f] # Expected(job[c], f)
                /\ job[c].kind = "recover" => root[f] # Written(job[c], f)
                /\ Raise(c) /\ UNCHANGED job
  /\ NoFault /\ UNCHANGED <<Local, reused>>

\* tar --keep-old-files does not replace a file that has appeared, and
\* delete_confined_file must find the file it deletes.
Blocked(j, f) ==
  IF IsRollback(j) THEN f \in Creates(j.plan) /\ root[f] = "absent"
                   ELSE f \in Creates(j.plan) /\ root[f] # "absent"

\* What a write that is cut short may leave: tar unlinks the old file, then
\* writes the new one; a deletion happens or not.
CutShort(j, f) ==
  IF Written(j, f) = "absent" THEN {root[f], "absent"}
                              ELSE {root[f], "absent", "torn", Written(j, f)}

\* The script that has lost its session is between a check and its write.
LeftWindow(f) == left # None /\ left.at = "extract" /\ Current(left.job, f)

WriteFile(c) ==
  /\ pc[c] = "extract"
  /\ \E f \in job[c].todo :
       /\ Current(job[c], f)
       /\ blind' = IF LeftWindow(f) THEN blind \cup {f} ELSE blind
       /\ \/ /\ ~Blocked(job[c], f) /\ NoFault
             /\ root' = [root EXCEPT ![f] = Written(job[c], f)]
             /\ writer' = [writer EXCEPT ![f] = Own(job[c])]
             /\ job' = [job EXCEPT ![c].todo = @ \ {f}]
             /\ Goto(c, "check")
          \/ /\ Blocked(job[c], f) /\ NoFault
             /\ Raise(c) /\ UNCHANGED <<root, writer, job>>
          \/ /\ ~Blocked(job[c], f) /\ (Fault \/ (ExtractDisturbed(c) /\ NoFault))
             /\ \E v \in CutShort(job[c], f) :
                  /\ root' = [root EXCEPT ![f] = v]
                  /\ writer' = IF v = root[f] THEN writer ELSE [writer EXCEPT ![f] = Own(job[c])]
             /\ Raise(c) /\ UNCHANGED job
  /\ UNCHANGED <<workdir, lock, left, clock, skews, edits, raced, reused>>

-----------------------------------------------------------------------------
(* The end of apply and rollback. *)

MarkDone(c) ==
  IF IsRollback(job[c]) THEN Record(c, "mark", "rolled_back", "ptr_last")
                        ELSE Record(c, "mark", "applied", "ptr_apply")

\* A pointer that is cut short is empty or names nothing.
PointApply(c) ==
  Upload(c, "ptr_apply", applyPtr' = job[c].tx /\ UNCHANGED <<txn, lastPtr, baseline>>,
         applyPtr' \in {NoTxn, Garbled} /\ UNCHANGED <<txn, lastPtr, baseline>>, "ptr_last")

PointLast(c) ==
  Upload(c, "ptr_last", lastPtr' = Own(job[c]) /\ UNCHANGED <<txn, applyPtr, baseline>>,
         lastPtr' \in {NoTxn, Garbled} /\ UNCHANGED <<txn, applyPtr, baseline>>,
         IF IsRollback(job[c]) THEN "ptr_remove" ELSE "retain")

RemovePointer(c) ==
  Call(c, "ptr_remove", applyPtr' = NoTxn /\ UNCHANGED <<txn, lastPtr, baseline>>, "retain")

\* apply_retention: apart from the two that the pointers name, the newest
\* directories are kept; of the older ones those that ended well are deleted.
AllKept == {t \in TxnIds : txn[t].dir} \* mutant: the pointers are not looked at
Unpointed == {t \in TxnIds : txn[t].dir} \ {applyPtr, lastPtr}
Expired ==
  {t \in Unpointed :
     /\ Cardinality({u \in Unpointed : u > t}) >= Retention
     /\ txn[t].rec # None /\ txn[t].rec.status \in {"applied", "rolled_back"}}

Without(D) == [t \in TxnIds |-> IF t \in D THEN NoTransaction ELSE txn[t]]
Delete(D) == txn' = Without(D)

\* rm -rf takes the files of a directory one by one, in any order, and then the
\* directory: what may be left when it is cut short.
Remains(r) ==
  {[dir |-> TRUE, shed |-> TRUE, files |-> F, plan |-> p, rec |-> k, ckpt |-> b] :
     F \in SUBSET r.files, p \in {r.plan, None}, k \in {r.rec, None}, b \in {r.ckpt, NoCkpt}}
DeletePartly(D, t) == \E r \in Remains(txn[t]) : txn' = [Without(D) EXCEPT ![t] = r]

\* In a record that was cut short the status may be there or not.
Retain(c) ==
  /\ pc[c] = "retain"
  /\ \E D \in SUBSET Expired :
       \/ /\ {t \in Expired : txn[t].rec.whole} \subseteq D /\ Delete(D)
          /\ Goto(c, "returned") /\ NoFault
       \/ Fault /\ Delete(D) /\ Raise(c)
       \/ Fault /\ (\E t \in Expired \ D : DeletePartly(D, t)) /\ Raise(c)
  /\ UNCHANGED <<applyPtr, lastPtr, baseline>> /\ Frame(c)

-----------------------------------------------------------------------------
(* A writing script whose connection breaks and which runs on, unattended. *)

\* Its session sees an error, is interrupted or is killed.
LoseScript(c) ==
  /\ pc[c] \in {"script", "check", "extract"} /\ left = None
  /\ Fault
  /\ left' = [job |-> job[c], at |-> pc[c]]
  /\ \/ (Raise(c) \/ Goto(c, "finally")) /\ UNCHANGED job
     \/ Leave(c)
  /\ UNCHANGED <<root, lock, workdir, clock, skews, edits, writer, raced, blind, reused>>

LeftFrame == UNCHANGED <<lock, workdir, pc, job, clock, skews, edits, reused>>

LeftStarts ==
  /\ left # None /\ left.at = "script" /\ ScriptReady(left.job)
  /\ left' = [job |-> [left.job EXCEPT !.from = Extracted(left.job)], at |-> "check"]
  /\ LeftFrame /\ UNCHANGED <<root, writer, raced, blind, faults>>

LeftChecks ==
  /\ left # None /\ left.at = "check"
  /\ \E f \in left.job.todo :
       /\ Current(left.job, f)
       /\ \/ /\ root[f] = Expected(left.job, f)
             /\ left' = [left EXCEPT !.at = "extract"]
          \/ /\ left.job.kind = "recover"
             /\ root[f] # Expected(left.job, f) /\ root[f] = Written(left.job, f)
             /\ left' = [left EXCEPT !.job.todo = @ \ {f}]
  /\ LeftFrame /\ UNCHANGED <<root, writer, raced, blind, faults>>

\* The windows in which a change goes unnoticed: between the check of a file and
\* its write, and between the preflight and the checkpoint.
InWindow(f) ==
  \/ LeftWindow(f)
  \/ \E c \in Clients : \/ pc[c] = "extract" /\ Current(job[c], f)
                        \/ pc[c] = "checkpoint"

\* Somebody who does not hold the lock changes a file.
Disturb(f, v, w) ==
  /\ root' = [root EXCEPT ![f] = v]
  /\ writer' = [writer EXCEPT ![f] = w]
  /\ raced' = IF \E c \in Clients : pc[c] \in Inside THEN raced \cup {f} ELSE raced
  /\ blind' = IF InWindow(f) THEN blind \cup {f} ELSE blind

\* Retention may have taken the extract directory away, and a recovery may be
\* filling it again.
LeftWrites ==
  /\ left # None /\ left.at = "extract"
  /\ IsRollback(left.job) \/ txn[left.job.tx].dir
  /\ \E f \in left.job.todo :
       /\ Current(left.job, f) /\ ~Blocked(left.job, f)
       /\ \/ /\ Disturb(f, Written(left.job, f), Own(left.job)) /\ NoFault
             /\ left' = [job |-> [left.job EXCEPT !.todo = @ \ {f}], at |-> "check"]
          \/ /\ \/ Fault
                \/ NoFault /\ \E c \in Clients : pc[c] = "script" /\ SharesExtract(left.job, job[c])
             /\ \E v \in CutShort(left.job, f) \ {root[f]} : Disturb(f, v, Own(left.job))
             /\ left' = None
  /\ LeftFrame

\* It is done, or one of its checks fails, or it is killed.
LeftEnds ==
  /\ left # None /\ left' = None
  /\ LeftFrame /\ UNCHANGED <<root, writer, raced, blind, faults>>

-----------------------------------------------------------------------------
(* The surroundings. *)

Edit(f, v) ==
  /\ edits < MaxEdits /\ v # root[f]
  /\ edits' = edits + 1
  /\ Disturb(f, v, NoTxn)
  /\ UNCHANGED <<lock, workdir, pc, job, left, clock, skews, faults, reused>>

ExternalEdit == \E f \in Files, v \in EditContents : Edit(f, v)

\* The tool has no forced lock cleanup: an operator removes, by hand, a lock
\* whose session is over.
OperatorUnlock ==
  /\ lock # NoTxn
  /\ \A c \in Clients : ~Working(c)
  /\ lock' = NoTxn
  /\ UNCHANGED <<root, workdir, pc, job, faults, reused, rest>>

-----------------------------------------------------------------------------

\* The calls of a session, in the order of the code.
Step(c) ==
  \/ Acquire(c) \/ LookupFails(c) \/ Lookup(c) \/ Plan(c) \/ EnsureBaseline(c) \/ MakeDir(c)
  \/ PutArtifact(c) \/ PutPlan(c) \/ PutManifest(c) \/ PutRecord(c)
  \/ Preflight(c) \/ Checkpoint(c) \/ RecoveryState(c) \/ Validate(c) \/ Target(c)
  \/ Applying(c) \/ StartScript(c) \/ CheckFile(c) \/ WriteFile(c) \/ MarkDone(c)
  \/ PointApply(c) \/ PointLast(c) \/ RemovePointer(c) \/ Retain(c)
  \/ RecordFailure(c) \/ Release(c)

Next ==
  \/ \E c \in Clients : \/ StartApply(c) \/ StartRollback(c) \/ Step(c)
                        \/ ReadFails(c) \/ Interrupt(c) \/ Crash(c) \/ LoseScript(c)
  \/ LeftStarts \/ LeftChecks \/ LeftWrites \/ LeftEnds
  \/ ExternalEdit
  \/ OperatorUnlock

Spec == Init /\ [][Next]_vars

\* A session is one sequential process whose ssh calls return: it makes its
\* next call.  No session has to start, and nothing has to fail.
FairSpec == Spec /\ \A c \in Clients : WF_vars(Step(c))

-----------------------------------------------------------------------------
(* Properties. *)

\* Sessions that are past acquire() exclude one another, through lost answers,
\* crashes and the removal of left-over locks, even if they share an id.
Exclusive == \A c, d \in Clients : Working(c) /\ Working(d) => c = d

\* The lock carries the id of the session that is past acquire(), if there is
\* one; hence the session gives it back.
SessionIds == Exclusive /\ \A c \in Clients : Working(c) => lock = job[c].id

\* Seen from outside the lock is the one of AbstractLock, whose holder may work
\* from the moment it gets the lock until it gives it back.
Holder ==
  IF \E c \in Clients : Working(c) THEN CHOOSE c \in Clients : Working(c)
  ELSE IF lock = NoTxn THEN "free" ELSE "left over"
Workers == {c \in Clients : Working(c)}
Lock == INSTANCE AbstractLock WITH
  Holders <- Clients, Free <- "free", LeftOver <- "left over",
  holder <- Holder, inside <- Workers

\* However calls fail, sessions are killed and ids collide, sessions get, lose
\* and give back the lock as AbstractLock says.
ImplementsLock == Lock!Spec

\* What the local variables of a session hold, by the place it has reached.
Unplanned == {"acquire", "lookup", "plan", "state", "target"}
Planned == Inside \ Unplanned
Shape(c) ==
  /\ pc[c] \in Planned => job[c].plan \in Plans /\ job[c].tx \in TxnIds
  /\ pc[c] \in Unplanned => job[c].plan = None
  /\ pc[c] = "acquire" => job[c].kind # "recover"
  /\ pc[c] = "target" => job[c].kind = "rollback"
  /\ pc[c] \in {"lookup", "plan"} => job[c].kind = "apply"
  /\ pc[c] = "state" => job[c].kind = "recover"
  /\ pc[c] # "idle" => job[c].id \in TxnIds
  /\ pc[c] # "idle" /\ job[c].kind # "rollback" => job[c].arch \in Archives /\ job[c].tx \in TxnIds
SessionShape == \A c \in Clients : Shape(c)

\* Why sessions exclude one another.
SessionInv == SessionIds /\ SessionShape

\* The record of an apply that says applying or applied, whichever session
\* wrote it, stands for a transaction that can be undone: its plan and manifest
\* are there, its checkpoint is complete, and what was saved of a file is what
\* the plan says was found, unless the file was changed in a blind window.  A
\* checkpoint that a retry has spoilt is met only before the record says applied.
\* What retention has begun to delete is applied, and not what the pointer of
\* rollback names.  Transactions that share their directory are left out here
\* and in what follows.
ApplyingIsUndoable ==
  \A t \in Recorded \ reused :
    txn[t].rec.mode = "apply" /\ txn[t].rec.status \in {"applying", "applied"} =>
      IF txn[t].shed THEN txn[t].rec.status = "applied" /\ applyPtr # t
      ELSE /\ txn[t].plan # None /\ "manifest" \in txn[t].files
           /\ \/ txn[t].ckpt.state = "full"
              \/ txn[t].ckpt.state = "spoilt" /\ txn[t].rec.status = "applying"
           /\ txn[t].ckpt.state = "full" =>
                \A f \in Replaces(txn[t].plan) \ blind :
                  txn[t].ckpt.saved[f] = txn[t].plan.before[f]

\* Write-ahead undo log: until retention begins to delete its directory, the
\* session that last wrote a file, completely or in part, attended or not, has
\* a complete checkpoint, or one that a retry has spoilt, whoever failed or
\* crashed since.
WrittenIsSaved ==
  \A f \in Files :
    writer[f] \notin reused \cup {NoTxn} /\ txn[writer[f]].dir /\ ~txn[writer[f]].shed =>
      txn[writer[f]].ckpt.state \in {"full", "spoilt"}

\* A complete checkpoint is replaced or spoilt, by a retry that takes it for
\* missing, only while the document root still holds all that it has saved,
\* but for files changed in a blind window.
SavedIsNotLost ==
  [][\A t \in TxnIds \ reused :
       txn[t].ckpt.state = "full" /\ txn'[t].ckpt # txn[t].ckpt /\ txn'[t].dir /\ ~txn'[t].shed
       => \A f \in Files \ blind : txn[t].ckpt.saved[f] \in {"absent", root[f]}]_vars

\* No content is lost: whatever a session overwrites or deletes, be it an
\* original file, a release or somebody's edit, is at that moment in the
\* checkpoint of the session's transaction.  The exceptions are a file edited in
\* one of the windows that the scripts leave, and a script that has lost its
\* session and is still at work when retention deletes its transaction.
NothingOverwrittenUnsaved ==
  [][\A f \in Files \ blind :
       /\ root'[f] # root[f] /\ root[f] # "absent"
       /\ writer'[f] \notin reused \cup {NoTxn} /\ ~txn[writer'[f]].shed
       => LET k == txn[writer'[f]].ckpt IN
          k.state \in {"full", "spoilt"} /\ (k.state = "full" => k.saved[f] = root[f])]_vars

\* A rollback that gets to record its success has put back what the apply, or
\* the first of the attempts that it took, found before it wrote anything:
\* created files are gone and replaced files are as planned.
RollbackRestores ==
  \A c \in Clients : pc[c] = "mark" /\ IsRollback(job[c]) =>
    \A f \in Touched(job[c].plan) \ raced : root[f] = job[c].plan.before[f]

\* An apply that gets to record its success has delivered: every file of the
\* archive, or, when it recovers an earlier attempt, every file which that
\* attempt meant to write.
ApplyDelivers ==
  \A c \in Clients :
    pc[c] \in {"mark", "ptr_apply", "ptr_last", "retain"} /\ ~IsRollback(job[c]) =>
      \A f \in Files \ raced :
        /\ job[c].kind = "apply" /\ f \in Shipped(job[c].arch) => root[f] = Payload[job[c].arch][f]
        /\ job[c].kind = "recover" /\ f \in Touched(job[c].plan) => root[f] = Payload[job[c].arch][f]

\* The pointer of rollback latest never dangles: it names an apply that has
\* been marked applied, and retention, in whatever session it runs and
\* wherever it is cut off, has left everything that a rollback reads.  Only a
\* retry, after a late failure, may have spoilt the checkpoint.
PointerUsable ==
  applyPtr \in TxnIds \ reused =>
    /\ applyPtr \in Recorded /\ txn[applyPtr].rec.mode = "apply"
    /\ txn[applyPtr].plan # None /\ "manifest" \in txn[applyPtr].files
    /\ txn[applyPtr].ckpt.state \in {"full", "spoilt"}

\* The baseline comes before the first write of the first apply, fresh or
\* recovered, and shows the server without any content of a release.
BaselineIsPristine ==
  /\ baseline = None => \A f \in Files : writer[f] = NoTxn
  /\ baseline # None => \A f \in Files : baseline[f] \in {InitialRoot[f]} \cup EditContents

\* Every session comes to an end, whatever fails on its way.
SessionEnds == \A c \in Clients : pc[c] # "idle" ~> pc[c] = "idle"

\* Without a fault no lock is left behind: refused, failed and successful
\* sessions alike give it back.
LockGivenBack == lock # NoTxn ~> (lock = NoTxn \/ faults > 0)

=============================================================================
