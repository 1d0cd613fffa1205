------------------------------ MODULE DeployUndo ------------------------------
(***************************************************************************)
(* Why what apply and rollback overwrite can be put back: an inductive     *)
(* invariant of Deploy.  It says what a session has in its transaction     *)
(* directory by the place it has reached, what it leaves there for the     *)
(* sessions that follow, and what a script that has lost its session can   *)
(* still count on.  The proofs are in DeployUndo_proofs.                   *)
(***************************************************************************)
EXTENDS Deploy

\* t is the id of an apply of archive x or, for None, of a rollback.
IdFor(t, x) == \E s \in 1..MaxSeconds : IdOf[s][x] = t

\* What a session means to leave at a planned path, and the paths that it
\* answers for.
Result(j, f) == IF IsRollback(j) THEN j.plan.before[f] ELSE Payload[j.plan.arch][f]
Answered(j) == IF j.kind = "apply" THEN Shipped(j.plan.arch) ELSE Touched(j.plan)

Complete(t) == txn[t].ckpt.state \in {"full", "spoilt"}

\* The checkpoint of the session holds all that its script replaces or deletes.
Backed(j) == \A f \in ToSave(j) \ blind : txn[Own(j)].ckpt.saved[f] = Expected(j, f)

-----------------------------------------------------------------------------
(* The transaction directories. *)

\* A directory that is not there has no files, and one that retention deletes is
\* that of a transaction which has ended well; ids tell applies from rollbacks,
\* and applies of one archive from those of another.
IdsKept(t) ==
  /\ ~txn[t].dir => txn[t] = NoTransaction
  /\ txn[t].shed /\ t \notin reused /\ txn[t].rec # None =>
       txn[t].rec.status \in {"applied", "rolled_back"}
  /\ txn[t].plan # None => IdFor(t, txn[t].plan.arch) /\ baseline # None
  /\ txn[t].rec # None =>
       IdFor(t, IF txn[t].rec.mode = "apply" THEN txn[t].rec.arch ELSE None)

\* What ApplyingIsUndoable says of t.
CanBeUndone(t) == txn[t].plan # None /\ "manifest" \in txn[t].files /\ Complete(t)
Undone(t) ==
  /\ t \notin reused /\ ~txn[t].shed
  /\ txn[t].rec # None /\ txn[t].rec.mode = "apply" /\ txn[t].rec.status \in {"applying", "applied"}
  => CanBeUndone(t) /\ (txn[t].rec.status = "applied" => txn[t].ckpt.state = "full")

\* A complete checkpoint of an apply is the one that its plan asks for.
SavedAsPlanned(t) ==
  t \notin reused /\ txn[t].plan # None /\ txn[t].ckpt.state = "full" =>
    \A f \in Files \ blind :
      txn[t].ckpt.saved[f] = IF f \in Replaces(txn[t].plan) THEN txn[t].plan.before[f] ELSE "absent"

\* What WrittenIsSaved says of t.
SavedFirst(t) ==
  t \notin reused /\ txn[t].dir /\ ~txn[t].shed /\ (\E f \in Files : writer[f] = t) => Complete(t)

TransactionsInv ==
  \A t \in TxnIds : IdsKept(t) /\ Undone(t) /\ SavedAsPlanned(t) /\ SavedFirst(t)

PointerInv ==
  applyPtr \in TxnIds =>
    /\ txn[applyPtr].rec # None /\ txn[applyPtr].rec.mode = "apply"
    /\ applyPtr \notin reused =>
         /\ ~txn[applyPtr].shed /\ txn[applyPtr].plan # None /\ "manifest" \in txn[applyPtr].files
         /\ Complete(applyPtr)

-----------------------------------------------------------------------------
(* The session past its planning. *)

Writing == {"script", "check", "extract"}
Delivered == {"ptr_apply", "ptr_last", "retain"}

\* The way of each kind of session through the code.
Fresh == {"baseline", "mkdir", "artifact", "planfile", "manifest", "record", "preflight", "checkpoint"}
Route(kind) ==
  CASE kind = "apply" ->
         Fresh \cup {"applying"} \cup Writing \cup {"mark"} \cup Delivered \cup {"except"}
    [] kind = "recover" ->
         {"preflight", "checkpoint", "validate", "applying"} \cup Writing \cup {"mark"} \cup Delivered
    [] OTHER ->
         {"mkdir", "preflight", "checkpoint", "record"} \cup Writing
         \cup {"mark", "ptr_last", "ptr_remove", "retain", "except"}

\* The plan is the one of an apply, of the session's archive unless it undoes it.
OnRoute(j, p) ==
  /\ p \in Route(j.kind)
  /\ IdFor(j.tx, j.plan.arch) /\ j.todo \subseteq Touched(j.plan)
  /\ IsRollback(j) => IdFor(j.id, None)
  /\ ~IsRollback(j) => j.arch = j.plan.arch

\* The files of the transaction are there as soon as the session is past them.
Stored(j, p) ==
  /\ p \notin {"baseline", "except"} => baseline # None
  /\ p \notin {"baseline", "mkdir", "except"} => txn[Own(j)].dir
  /\ Own(j) \notin reused => ~txn[Own(j)].shed
  /\ p \notin {"baseline", "artifact", "planfile", "except"} \cup Delivered \cup {"ptr_remove"}
     /\ ~(p = "mkdir" /\ j.kind = "apply") => txn[j.tx].plan = j.plan
  /\ ~IsRollback(j) /\ p \in {"record", "applying", "mark"} \cup Writing => "manifest" \in txn[j.tx].files
  /\ j.kind = "apply" /\ p \in {"preflight", "checkpoint"} => "manifest" \in txn[j.tx].files

\* The checkpoint is complete before the record says applying or rolling_back.
Protected(j, p) ==
  /\ p \in {"applying", "mark"} \cup Writing \/ (p = "record" /\ IsRollback(j)) =>
       txn[Own(j)].ckpt.state = "full" /\ Backed(j)
  /\ p = "checkpoint" => \A f \in Touched(j.plan) \ blind : root[f] = Expected(j, f)
  /\ p = "extract" => \A f \in j.todo \ blind : Current(j, f) => root[f] = Expected(j, f)

\* The record says how far the session is, and the pointers follow.
Noticed(j, p) ==
  /\ j.kind = "recover" /\ p \in {"preflight", "checkpoint"} =>
       txn[j.tx].rec # None /\ txn[j.tx].rec.status \in Unfinished
  /\ IsRollback(j) /\ p \in Writing =>
       txn[j.id].rec # None /\ txn[j.id].rec.status = "rolling_back"
  /\ p = "ptr_apply" =>
       /\ txn[j.tx].rec # None /\ txn[j.tx].rec.mode = "apply"
       /\ txn[j.tx].rec.status = "applied"
  /\ p \in {"ptr_remove", "retain"} => lastPtr = Own(j)

\* Until its checkpoint is complete a session that is not a recovery has
\* written nothing, has no other record than "prepared", and nobody else has
\* anything to do with its id.
Untouched(t) ==
  /\ \A f \in Files : writer[f] # t
  /\ left # None => Own(left.job) # t
Unused(j, p) ==
  j.kind # "recover" /\ Own(j) \notin reused =>
    /\ p \in Fresh =>
         /\ Untouched(Own(j)) /\ applyPtr # Own(j)
         /\ txn[Own(j)].ckpt.state = "full" => p = "record" /\ IsRollback(j)
    /\ p \in Fresh /\ j.kind = "apply" =>
         IF p \in {"preflight", "checkpoint"}
         THEN txn[j.tx].rec # None /\ txn[j.tx].rec.status = "prepared"
         ELSE txn[j.tx].rec = None
    /\ p = "except" /\ ~txn[Own(j)].dir => Untouched(Own(j))

\* What a script has written is as it should be, unless others changed it.
Progress(j, p) ==
  /\ p \in {"check", "extract"} => \A f \in Touched(j.plan) : Written(j, f) = Result(j, f)
  /\ p \in {"mark", "ptr_remove"} \cup Delivered => j.todo = {}
  /\ \A f \in Answered(j) \ (j.todo \cup raced) : root[f] = Result(j, f)

SessionLog(j, p) ==
  /\ OnRoute(j, p) /\ Stored(j, p) /\ Protected(j, p) /\ Noticed(j, p) /\ Unused(j, p)
  /\ Progress(j, p)

\* Before that, its id is one of its kind, and a recovery knows what to recover.
Prepared(j, p) ==
  /\ IdFor(j.id, IF IsRollback(j) THEN None ELSE j.arch)
  /\ j.kind = "apply" => j.tx = j.id
  /\ p = "state" =>
       txn[j.tx].rec # None /\ txn[j.tx].rec.arch = j.arch /\ txn[j.tx].rec.status \in Unfinished

Log(c) ==
  /\ pc[c] \in Unplanned => Prepared(job[c], pc[c])
  /\ pc[c] \in Planned => SessionLog(job[c], pc[c])
SessionsInv == \A c \in Clients : Log(c)

-----------------------------------------------------------------------------
(* A script that has lost its session. *)

\* The transaction of the script goes on as the script knows it, and that of a
\* rollback is not taken up by another session.
LeftLog(j) ==
  /\ txn[Own(j)].dir /\ ~txn[Own(j)].shed =>
       /\ Complete(Own(j)) /\ (txn[Own(j)].ckpt.state = "full" => Backed(j))
       /\ ~IsRollback(j) => txn[j.tx].plan = j.plan
  /\ IsRollback(j) =>
       /\ txn[j.id].rec # None /\ txn[j.id].rec.status \in {"rolling_back", "failed"}
       /\ \A c \in Clients : pc[c] \in Planned /\ Own(job[c]) = j.id => pc[c] = "except"

LeftInv ==
  left # None =>
    /\ baseline # None
    /\ IdFor(left.job.tx, left.job.plan.arch) /\ left.job.todo \subseteq Touched(left.job.plan)
    /\ IsRollback(left.job) => IdFor(left.job.id, None)
    /\ left.at = "extract" =>
         \A f \in left.job.todo \ blind : Current(left.job, f) => root[f] = Expected(left.job, f)
    /\ Own(left.job) \notin reused => LeftLog(left.job)

-----------------------------------------------------------------------------
(* The document root. *)

\* What no session has written is an original file or an edit.
Pristine(f, v) == v \in {InitialRoot[f]} \cup EditContents
RootInv ==
  /\ \A f \in Files : writer[f] = NoTxn => Pristine(f, root[f])
  /\ BaselineIsPristine

\* Why the undo log is complete.
UndoInv == TransactionsInv /\ PointerInv /\ SessionsInv /\ LeftInv /\ RootInv

=============================================================================
