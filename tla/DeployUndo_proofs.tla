-------------------------- MODULE DeployUndo_proofs --------------------------
(* The undo log of Deploy is complete and what sessions record is true, for  *)
(* any number of clients, paths and archives and for all bounds: UndoInv is  *)
(* inductive and implies the properties.  One lemma for each kind of call,   *)
(* and under it one step for each part of the invariant it can disturb.      *)
EXTENDS DeployUndo, Deploy_proofs

\* All that a step may start from.
Inv == Typed /\ SessionIds /\ UndoInv

\* An id is that of one kind of session and of one archive.
LEMMA IdTells ==
  ASSUME NEW x \in Archives \cup {None}, NEW y \in Archives \cup {None}, NEW t,
         IdFor(t, x), IdFor(t, y)
  PROVE  x = y /\ t \in TxnIds
<1>1. PICK r \in 1..MaxSeconds, s \in 1..MaxSeconds : IdOf[r][x] = t /\ IdOf[s][y] = t
  BY DEF IdFor
<1>2. IdOf[r][x] \in Nat /\ IdOf[s][y] \in Nat /\ t \in TxnIds
  BY <1>1, IdsAssumption, BoundsAssumption DEF TxnIds
<1>3. CASE r = s
  BY <1>1, <1>2, <1>3, IdsAssumption
<1>4. CASE r < s
  BY <1>1, <1>2, <1>4, IdsAssumption, BoundsAssumption
<1>5. CASE s < r
  BY <1>1, <1>2, <1>5, IdsAssumption, BoundsAssumption
<1>6. QED
  BY <1>3, <1>4, <1>5, BoundsAssumption

\* Only one session is past acquire().
LEMMA OthersWait ==
  ASSUME SessionIds, NEW c \in Clients, Working(c), NEW d \in Clients \ {c}
  PROVE  pc[d] \notin Inside
BY DEF SessionIds, Exclusive, Working

\* What is known of a session that waits for the lock does not change.
LEMMA LogFrame ==
  ASSUME Typed, NEW d \in Clients, Log(d), pc[d] \notin Inside, pc'[d] = pc[d], job'[d] = job[d]
  PROVE  Log(d)'
<1>1. pc[d] \in Unplanned => pc[d] = "acquire"
  BY DEF Unplanned, Inside
<1>2. "acquire" # "state"
  OBVIOUS
<1>3. QED
  BY <1>1, <1>2 DEF Log, Prepared, Planned

\* A step of a session that is past acquire() is a matter of its own log.
LEMMA SessionsFrame ==
  ASSUME Inv, NEW c \in Clients, Working(c) \/ UNCHANGED <<root, workdir, left, writer, raced, blind, reused>>,
         \A d \in Clients \ {c} : pc'[d] = pc[d] /\ job'[d] = job[d], Log(c)'
  PROVE  SessionsInv'
<1> SUFFICES ASSUME NEW d \in Clients \ {c} PROVE Log(d)'
  BY DEF SessionsInv
<1>1. Log(d)
  BY DEF Inv, UndoInv, SessionsInv
<1>2. CASE Working(c)
  BY <1>1, <1>2, OthersWait, LogFrame DEF Inv
<1>3. CASE UNCHANGED <<root, workdir, left, writer, raced, blind, reused>>
  <2>1. pc'[d] = pc[d] /\ job'[d] = job[d] /\ UNCHANGED <<root, txn, applyPtr, lastPtr, baseline>>
        /\ UNCHANGED <<left, writer, raced, blind, reused>>
    BY <1>3 DEF workdir
  <2>2. ASSUME pc[d] \in Unplanned PROVE Prepared(job[d], pc[d])'
    BY <1>1, <2>1, <2>2 DEF Log, Prepared
  <2>3. ASSUME pc[d] \in Planned PROVE SessionLog(job[d], pc[d])'
    <3>1. SessionLog(job[d], pc[d])
      BY <1>1, <2>3 DEF Log
    <3>2. OnRoute(job[d], pc[d])' /\ Stored(job[d], pc[d])' /\ Noticed(job[d], pc[d])'
      BY <2>1, <3>1 DEF SessionLog, OnRoute, Stored, Noticed
    <3>3. Protected(job[d], pc[d])'
      BY <2>1, <3>1 DEF SessionLog, Protected, Backed
    <3>4. Unused(job[d], pc[d])' /\ Progress(job[d], pc[d])'
      BY <2>1, <3>1 DEF SessionLog, Unused, Untouched, Progress
    <3>5. QED
      BY <3>2, <3>3, <3>4 DEF SessionLog
  <2>4. QED
    BY <2>1, <2>2, <2>3 DEF Log
<1>4. QED
  BY <1>2, <1>3

\* A session that has lost its place in the plan has no log.
LEMMA NoLog ==
  ASSUME NEW c \in Clients, pc'[c] \in {"idle"} \cup Ended
  PROVE  Log(c)'
BY DEF Log, Planned, Unplanned, Inside, Ended

\* A session with a plan, in terms of the variables.
LEMMA PlannedLog ==
  ASSUME Inv, NEW c \in Clients, pc[c] \in Planned
  PROVE  /\ SessionLog(job[c], pc[c]) /\ Working(c) /\ pc[c] \in Inside
         /\ job[c] \in Jobs /\ job[c].plan \in Plans /\ job[c].plan.arch \in Archives
         /\ job[c].tx \in TxnIds /\ job[c].id \in TxnIds /\ Own(job[c]) \in TxnIds
         /\ txn[Own(job[c])] \in Transactions /\ txn[job[c].tx] \in Transactions
<1>1. SessionLog(job[c], pc[c])
  BY DEF Inv, UndoInv, SessionsInv, Log
<1>2. Working(c) /\ pc[c] \in Inside
  BY DEF Working, Planned
<1>3. job[c] \in Jobs
  BY DEF Inv, Typed, TypeOK
<1>4. job[c].id \in TxnIds
  BY <1>2 DEF Inv, Typed, SessionShape, Shape, Inside
<1>5. QED
  BY <1>1, <1>2, <1>3, <1>4, OwnTyped DEF Inv, Plans

-----------------------------------------------------------------------------
(* Steps that leave the workdir and the document root alone. *)

\* The transactions, the pointer and the files are as they were.
LEMMA StillFrame ==
  ASSUME Inv, UNCHANGED <<root, workdir, writer>>, blind \subseteq blind', reused \subseteq reused'
  PROVE  TransactionsInv' /\ PointerInv' /\ RootInv'
<1>1. TransactionsInv'
  BY DEF Inv, UndoInv, TransactionsInv, IdsKept, Undone, CanBeUndone, SavedAsPlanned, SavedFirst, Complete,
         workdir
<1>2. PointerInv'
  BY DEF Inv, UndoInv, PointerInv, Complete, workdir
<1>3. RootInv'
  BY DEF Inv, UndoInv, RootInv, Pristine, BaselineIsPristine, workdir
<1>4. QED
  BY <1>1, <1>2, <1>3

\* What a script that has lost its session counts on, when a session takes a
\* step that does not touch the transaction of the script.
LEMMA LeftFrameInv ==
  ASSUME Inv, NEW c \in Clients,
         UNCHANGED left, blind \subseteq blind', reused \subseteq reused',
         \A f \in Files : left # None /\ left.at = "extract" /\ Current(left.job, f) /\ f \notin blind'
            => root'[f] = root[f],
         baseline # None => baseline' # None,
         \A d \in Clients \ {c} : pc'[d] = pc[d] /\ job'[d] = job[d],
         left # None /\ Own(left.job) \notin reused' =>
           /\ txn'[Own(left.job)] = txn[Own(left.job)]
           /\ IsRollback(left.job) /\ pc'[c] \in Planned /\ Own(job'[c]) = left.job.id => pc'[c] = "except"
  PROVE  LeftInv'
<1> SUFFICES ASSUME left # None PROVE LeftInv'
  BY DEF LeftInv
<1> DEFINE j == left.job
<1>1. LeftInv /\ left' = left
  BY DEF Inv, UndoInv
<1>2. ASSUME Own(j) \notin reused' PROVE LeftLog(j)'
  <2>1. LeftLog(j) /\ txn'[Own(j)] = txn[Own(j)]
    BY <1>1, <1>2 DEF LeftInv
  <2>2. ~IsRollback(j) => j.tx = Own(j)
    BY DEF Own
  <2>3. IsRollback(j) => j.id = Own(j)
    BY DEF Own
  <2>4. ASSUME txn'[Own(j)].dir, ~txn'[Own(j)].shed
        PROVE  /\ Complete(Own(j))' /\ (txn'[Own(j)].ckpt.state = "full" => Backed(j)')
               /\ ~IsRollback(j) => txn'[j.tx].plan = j.plan
    BY <2>1, <2>2, <2>4 DEF LeftLog, Complete, Backed
  <2>5. ASSUME IsRollback(j)
        PROVE  /\ txn'[j.id].rec # None /\ txn'[j.id].rec.status \in {"rolling_back", "failed"}
               /\ \A d \in Clients : pc'[d] \in Planned /\ Own(job'[d]) = j.id => pc'[d] = "except"
    BY <1>2, <2>1, <2>3, <2>5 DEF LeftLog
  <2>6. QED
    BY <1>1, <2>4, <2>5 DEF LeftLog, Own, IsRollback
<1>3. ASSUME left.at = "extract", NEW f \in j.todo \ blind', Current(j, f) PROVE root'[f] = Expected(j, f)
  <2>1. f \in Files
    BY LeftTyped DEF Inv, Typed
  <2>2. QED
    BY <1>1, <1>3, <2>1 DEF LeftInv
<1>4. QED
  BY <1>1, <1>2, <1>3 DEF LeftInv, Own, IsRollback, IdFor, Expected, Current

\* A session that is waiting for the lock or has lost it is not the one that a
\* script left behind belongs to, unless their transactions are one.
LEMMA NotLeft ==
  ASSUME Inv, NEW c \in Clients, pc[c] \in Planned \ {"except"},
         left # None, Own(left.job) \notin reused, IsRollback(left.job)
  PROVE  Own(job[c]) # left.job.id
BY DEF Inv, UndoInv, LeftInv, LeftLog

\* A step that moves one session and changes neither workdir nor files.
LEMMA QuietStep ==
  ASSUME Inv, NEW c \in Clients, UNCHANGED <<root, workdir, left, writer, raced, blind>>,
         reused \subseteq reused', Working(c) \/ UNCHANGED reused,
         \A d \in Clients \ {c} : pc'[d] = pc[d] /\ job'[d] = job[d],
         Log(c)',
         left # None /\ Own(left.job) \notin reused' /\ IsRollback(left.job)
           /\ pc'[c] \in Planned /\ Own(job'[c]) = left.job.id => pc'[c] = "except"
  PROVE  UndoInv'
<1>1. TransactionsInv' /\ PointerInv' /\ RootInv'
  BY StillFrame
<1>2. SessionsInv'
  BY SessionsFrame
<1>3. baseline # None => baseline' # None
  BY DEF workdir
<1>4. UNCHANGED txn
  BY DEF workdir
<1>5. LeftInv'
  BY <1>3, <1>4, LeftFrameInv
<1>6. QED
  BY <1>1, <1>2, <1>5 DEF UndoInv

\* What an error leaves of the log of a session with a plan.
LEMMA ErrorLog ==
  ASSUME Inv, NEW c \in Clients, pc[c] \in Planned,
         pc'[c] \in {"except", "finally"}, pc'[c] = "except" => job[c].kind # "recover",
         job'[c] = job[c], raced \subseteq raced', reused \subseteq reused',
         \A f \in Answered(job[c]) \ (job[c].todo \cup raced') : root'[f] = root[f],
         Own(job[c]) \notin reused' =>
           ~txn'[Own(job[c])].shed /\ (~txn'[Own(job[c])].dir => Untouched(Own(job[c]))')
  PROVE  Log(c)'
<1> DEFINE j == job[c]
<1>1. CASE pc'[c] = "finally"
  BY <1>1, NoLog DEF Ended
<1>2. CASE pc'[c] = "except"
  <2>1. SessionLog(j, pc[c]) /\ j \in Jobs
    BY PlannedLog
  <2>2. OnRoute(j, "except")'
    BY <1>2, <2>1 DEF SessionLog, OnRoute, Route, Jobs, IsRollback, IdFor
  <2>3. Stored(j, "except")' /\ Protected(j, "except")' /\ Noticed(j, "except")'
    BY DEF Stored, Protected, Noticed, Writing, Delivered, Own, IsRollback
  <2>4. Unused(j, "except")'
    BY DEF Unused, Fresh, Own, IsRollback, Untouched
  <2>5. Progress(j, "except")'
    BY <2>1 DEF SessionLog, Progress, Delivered, Result, Answered
  <2>6. QED
    BY <1>2, <2>2, <2>3, <2>4, <2>5 DEF Log, SessionLog, Unplanned
<1>3. QED
  BY <1>1, <1>2

\* An error that has changed no file: the directory of the session's
\* transaction is there, or the session has not come that far.
LEMMA QuietErrorLog ==
  ASSUME Inv, NEW c \in Clients, pc[c] \in Planned,
         pc'[c] \in {"except", "finally"}, pc'[c] = "except" => job[c].kind # "recover",
         job'[c] = job[c], UNCHANGED <<root, writer, left, raced, reused>>,
         txn[Own(job[c])].dir => txn'[Own(job[c])].dir,
         txn'[Own(job[c])].shed = txn[Own(job[c])].shed
  PROVE  Log(c)'
<1> DEFINE j == job[c]
           t == Own(j)
<1>1. SessionLog(j, pc[c])
  BY PlannedLog
<1>2. ASSUME t \notin reused, ~txn'[t].dir, pc'[c] = "except" PROVE Untouched(t)
  BY <1>1, <1>2 DEF SessionLog, Unused, Stored, Fresh
<1>3. t \notin reused => ~txn'[t].shed
  BY <1>1 DEF SessionLog, Stored
<1>4. CASE pc'[c] = "finally"
  BY <1>4, NoLog DEF Ended
<1>5. CASE pc'[c] = "except"
  BY <1>2, <1>3, <1>5, ErrorLog DEF Untouched
<1>6. QED
  BY <1>4, <1>5

\* A session ends without a call that changes anything but the lock.
LEMMA EndKeeps ==
  ASSUME Inv, NEW c \in Clients, UNCHANGED <<root, workdir, left, writer, raced, blind, reused>>,
         \A d \in Clients \ {c} : pc'[d] = pc[d] /\ job'[d] = job[d],
         pc'[c] \in {"idle"} \cup Ended
  PROVE  UndoInv'
<1>1. Log(c)'
  BY NoLog
<1>2. pc'[c] \notin Planned
  BY DEF Planned, Inside, Ended
<1>3. QED
  BY <1>1, <1>2, QuietStep

\* A session with a plan sees an error.
LEMMA ErrorKeeps ==
  ASSUME Inv, NEW c \in Clients, pc[c] \in Inside, Raise(c),
         UNCHANGED <<root, workdir, left, writer, raced, blind, reused, job>>
  PROVE  UndoInv'
<1>1. /\ pc'[c] \in {"except", "finally"} /\ \A d \in Clients \ {c} : pc'[d] = pc[d]
      /\ pc'[c] = "except" => job[c].plan # None /\ job[c].kind # "recover"
  BY RaiseTyped DEF Inv, Typed
<1>2. CASE pc'[c] = "finally"
  BY <1>1, <1>2, EndKeeps DEF Ended
<1>3. CASE pc'[c] = "except"
  <2>1. pc[c] \in Planned
    BY <1>1, <1>3 DEF Inv, Typed, SessionShape, Shape, Planned
  <2>2. Log(c)'
    BY <1>1, <2>1, QuietErrorLog DEF workdir
  <2>3. QED
    BY <1>1, <1>3, <2>1, <2>2, QuietStep DEF Working
<1>4. QED
  BY <1>1, <1>2, <1>3

\* A session starts with an id of its kind, and gets the lock or is gone.
LEMMA StartKeeps ==
  ASSUME Inv, NEW c \in Clients, StartApply(c) \/ StartRollback(c)
  PROVE  UndoInv'
<1>1. PICK kind \in {"apply", "rollback"}, a \in Archives \cup {None}, s \in 1..MaxSeconds :
         Start(c, kind, a, s) /\ (kind = "apply" => a \in Archives) /\ (kind = "rollback" => a = None)
  BY DEF StartApply, StartRollback
<1> DEFINE id == IdOf[s][a]
           j == NoJob(kind, a, id, IF kind = "apply" THEN id ELSE NoTxn)
<1>2. /\ pc'[c] = "acquire" /\ job'[c] = j
      /\ \A d \in Clients \ {c} : pc'[d] = pc[d] /\ job'[d] = job[d]
  BY <1>1 DEF Start, Goto, Inv, Typed, TypeOK
<1>3. /\ j.kind = kind /\ j.arch = a /\ j.id = id /\ (kind = "apply" => j.tx = id)
  BY DEF NoJob
<1>4. IdFor(id, a)
  BY DEF IdFor
<1>5. Log(c)'
  <2>1. Prepared(j, "acquire")'
    BY <1>1, <1>3, <1>4 DEF Prepared, IdFor, IsRollback
  <2>2. QED
    BY <1>2, <2>1 DEF Log, Planned, Unplanned
<1>6. UNCHANGED <<root, workdir, left, writer, raced, blind, reused>>
  BY <1>1 DEF Start
<1>7. pc'[c] \notin Planned
  BY <1>2 DEF Planned, Unplanned
<1>8. QED
  BY <1>2, <1>5, <1>6, <1>7, QuietStep

LEMMA AcquireKeeps ==
  ASSUME Inv, NEW c \in Clients, Acquire(c)
  PROVE  UndoInv'
<1>1. pc[c] = "acquire" /\ UNCHANGED <<root, workdir, left, writer, raced, blind, reused>>
  BY DEF Acquire, rest
<1>2. CASE Leave(c)
  BY <1>1, <1>2, LeaveFrame, EndKeeps DEF Inv
<1>3. CASE Goto(c, IF IsRollback(job[c]) THEN "target" ELSE "lookup") /\ UNCHANGED job
  <2>1. /\ pc'[c] \in {"target", "lookup"} /\ \A d \in Clients \ {c} : pc'[d] = pc[d]
    BY <1>3, GotoTyped DEF Inv, Typed, Inside
  <2>2. Log(c)'
    BY <1>1, <1>3, <2>1 DEF Inv, UndoInv, SessionsInv, Log, Prepared, Unplanned, Planned
  <2>3. pc'[c] \notin Planned
    BY <2>1 DEF Planned, Unplanned
  <2>4. QED
    BY <1>1, <1>3, <2>1, <2>2, <2>3, QuietStep
<1>4. QED
  BY <1>2, <1>3 DEF Acquire

\* A session ends, is interrupted or killed, or a call fails that only reads.
LEMMA StopKeeps ==
  ASSUME Inv, NEW c \in Clients,
         Release(c) \/ Crash(c) \/ Interrupt(c) \/ ReadFails(c) \/ LookupFails(c)
  PROVE  UndoInv'
<1>1. UNCHANGED <<root, workdir, left, writer, raced, blind, reused>>
  BY DEF Release, Crash, Interrupt, ReadFails, LookupFails, Local, rest
<1>2. CASE Release(c) \/ Crash(c)
  BY <1>1, <1>2, LeaveFrame, EndKeeps DEF Inv, Release, Crash
<1>3. CASE Interrupt(c)
  BY <1>1, <1>3, GotoTyped, EndKeeps DEF Inv, Typed, Interrupt, Ended
<1>4. CASE ReadFails(c) \/ LookupFails(c)
  BY <1>1, <1>4, ErrorKeeps DEF ReadFails, LookupFails, Inside
<1>5. QED
  BY <1>2, <1>3, <1>4

\* Of the records of its release a session picks up only those of its archive.
LEMMA LookupKeeps ==
  ASSUME Inv, NEW c \in Clients, Lookup(c)
  PROVE  UndoInv'
<1>1. /\ pc[c] = "lookup" /\ pc[c] \in Inside /\ Working(c)
      /\ UNCHANGED <<root, workdir, left, writer, raced, blind, reused>>
  BY DEF Lookup, Local, rest, Inside, Working
<1>2. Prepared(job[c], "lookup") /\ job[c] \in Jobs /\ job[c].kind = "apply"
  BY <1>1 DEF Inv, UndoInv, SessionsInv, Log, Unplanned, Typed, TypeOK, SessionShape, Shape
<1>3. CASE Raise(c) /\ UNCHANGED job
  BY <1>1, <1>3, ErrorKeeps
<1>4. CASE Goto(c, "noop") /\ UNCHANGED job
  BY <1>1, <1>4, GotoTyped, EndKeeps DEF Inv, Typed, Ended
<1>5. CASE Goto(c, "plan") /\ UNCHANGED job
  <2>1. pc'[c] = "plan" /\ \A d \in Clients \ {c} : pc'[d] = pc[d]
    BY <1>5, GotoTyped DEF Inv, Typed, Inside
  <2>2. Log(c)' /\ pc'[c] \notin Planned
    BY <1>2, <1>5, <2>1 DEF Log, Prepared, Unplanned, Planned
  <2>3. QED
    BY <1>1, <1>5, <2>1, <2>2, QuietStep
<1>6. ASSUME NEW p \in {NoTxn, applyPtr}, NEW t \in TxnIds, ~Refused(p, job[c].arch),
             Newest(t, Recoverable(job[c].arch)), Goto(c, "state"),
             job' = [job EXCEPT ![c] = [@ EXCEPT !.kind = "recover", !.tx = t]]
      PROVE  UndoInv'
  <2>1. pc'[c] = "state" /\ \A d \in Clients \ {c} : pc'[d] = pc[d]
    BY <1>6, GotoTyped DEF Inv, Typed, Inside
  <2>2. /\ job'[c] = [job[c] EXCEPT !.kind = "recover", !.tx = t]
        /\ \A d \in Clients \ {c} : job'[d] = job[d]
    BY <1>6 DEF Inv, Typed, TypeOK
  <2>3. /\ job'[c].kind = "recover" /\ job'[c].tx = t
        /\ job'[c].arch = job[c].arch /\ job'[c].id = job[c].id
    BY <1>2, <2>2 DEF Jobs
  <2>4. txn[t].rec # None /\ txn[t].rec.arch = job[c].arch /\ txn[t].rec.status \in Unfinished
    BY <1>6 DEF Newest, Recoverable, Earlier, Recorded, Refused
  <2>5. Prepared(job[c], "state")'
    BY <1>1, <1>2, <2>3, <2>4 DEF Prepared, IdFor, IsRollback, workdir
  <2>6. Log(c)' /\ pc'[c] \notin Planned
    BY <2>1, <2>5 DEF Log, Unplanned, Planned
  <2>7. QED
    BY <1>1, <2>1, <2>2, <2>6, QuietStep
<1>7. QED
  BY <1>3, <1>4, <1>5, <1>6 DEF Lookup

-----------------------------------------------------------------------------
(* Sessions that get their plan. *)

\* No id is that of an apply and of a rollback.
LEMMA IdsApart ==
  ASSUME NEW t, NEW a \in Archives, IdFor(t, a), IdFor(t, None)
  PROVE  FALSE
<1>1. a = None
  BY IdTells
<1>2. QED
  BY <1>1, NoneAssumption

\* A session that finds no traces of its id has it for its own.
LEMMA ReuseUnused ==
  ASSUME Inv, NEW c \in Clients, NEW t \in TxnIds, job[c].id = t, Reuse(c), t \notin reused',
         UNCHANGED <<writer, left, applyPtr>>
  PROVE  /\ Untouched(t)' /\ applyPtr' # t
         /\ txn[t].rec = None /\ txn[t].shed = FALSE /\ txn[t].ckpt.state = "none"
<1>1. ~Traces(t)
  BY DEF Reuse
<1>2. Untouched(t)
  BY <1>1 DEF Traces, Untouched
<1>3. txn[t] = NoTransaction
  BY <1>1 DEF Traces, Inv, UndoInv, TransactionsInv, IdsKept
<1>4. txn[t].rec = None /\ txn[t].shed = FALSE /\ txn[t].ckpt.state = "none"
  BY <1>3 DEF NoTransaction, NoCkpt
<1>5. applyPtr # t
  BY <1>4 DEF Inv, UndoInv, PointerInv
<1>6. QED
  BY <1>2, <1>4, <1>5 DEF Untouched

\* A fresh plan: what it leaves alone is as the archive has it.
LEMMA PlanKeeps ==
  ASSUME Inv, NEW c \in Clients, Plan(c)
  PROVE  UndoInv'
<1> DEFINE a == job[c].arch
           p == MakePlan(a)
<1>1. /\ pc[c] = "plan" /\ pc[c] \in Inside /\ Working(c)
      /\ UNCHANGED <<root, workdir, left, writer, raced, blind>>
  BY DEF Plan, Local, rest, Inside, Working
<1>2. /\ job[c] \in Jobs /\ job[c].kind = "apply" /\ a \in Archives
      /\ job[c].tx \in TxnIds /\ job[c].id = job[c].tx /\ IdFor(job[c].id, a)
  <2>1. Prepared(job[c], "plan") /\ Shape(c)
    BY <1>1 DEF Inv, UndoInv, SessionsInv, Log, Unplanned, Typed, SessionShape
  <2>2. QED
    BY <1>1, <2>1 DEF Prepared, Shape, IsRollback, Inv, Typed, TypeOK
<1>3. CASE Raise(c) /\ UNCHANGED <<job, reused>>
  BY <1>1, <1>3, ErrorKeeps
<1>4. CASE /\ Goto(c, "baseline") /\ Reuse(c)
           /\ job' = [job EXCEPT ![c] = [@ EXCEPT !.plan = p, !.todo = Touched(p)]]
  <2> DEFINE j == job'[c]
  <2>1. pc'[c] = "baseline" /\ \A d \in Clients \ {c} : pc'[d] = pc[d]
    BY <1>4, GotoTyped DEF Inv, Typed, Inside
  <2>2. /\ j = [job[c] EXCEPT !.plan = p, !.todo = Touched(p)]
        /\ \A d \in Clients \ {c} : job'[d] = job[d]
    BY <1>4 DEF Inv, Typed, TypeOK
  <2>3. /\ j.kind = "apply" /\ j.tx = job[c].tx /\ j.arch = a /\ j.id = job[c].id
        /\ j.plan = p /\ j.todo = Touched(p)
    BY <1>2, <2>2 DEF Jobs
  <2>4. p.arch = a /\ p.before = [f \in Files |-> IF f \in Shipped(a) THEN root[f] ELSE "absent"]
    BY DEF MakePlan
  <2>5. ASSUME NEW f \in Shipped(a) \ Touched(p) PROVE root[f] = Payload[a][f]
    BY <2>4, <2>5 DEF Touched, Creates, Replaces, Shipped
  <2> HIDE DEF p
  <2>6. OnRoute(job[c], "baseline")'
    BY <1>2, <2>3, <2>4 DEF OnRoute, Route, Fresh, IsRollback, IdFor
  <2>7. Protected(job[c], "baseline")' /\ Noticed(job[c], "baseline")'
    BY <2>3 DEF Protected, Noticed, IsRollback, Writing
  <2>8. Stored(job[c], "baseline")' /\ Unused(job[c], "baseline")'
    <3>1. SUFFICES ASSUME NEW t \in TxnIds, t = job[c].id
                   PROVE  Stored(job[c], "baseline")' /\ Unused(job[c], "baseline")'
      BY <1>2
    <3>2. (Own(job[c]))' = t /\ (job[c].tx)' = t /\ job'[c].kind = "apply"
      BY <1>2, <2>3, <3>1 DEF Own, IsRollback
    <3>3. ASSUME t \notin reused'
          PROVE  /\ Untouched(t)' /\ applyPtr' # t
                 /\ txn'[t].rec = None /\ txn'[t].shed = FALSE /\ txn'[t].ckpt.state = "none"
      BY <1>1, <1>4, <3>1, <3>3, ReuseUnused DEF workdir
    <3>4. Stored(job[c], "baseline")'
      BY <3>2, <3>3 DEF Stored, IsRollback, Writing
    <3>5. Unused(job[c], "baseline")'
      BY <3>2, <3>3 DEF Unused
    <3>6. QED
      BY <3>4, <3>5
  <2>9. Progress(job[c], "baseline")'
    BY <1>1, <2>3, <2>4, <2>5 DEF Progress, Answered, Result, IsRollback, Delivered
  <2>10. Log(c)'
    BY <2>1, <2>6, <2>7, <2>8, <2>9 DEF Log, SessionLog, Unplanned
  <2>11. ASSUME left # None, IsRollback(left.job), Own(j) = left.job.id PROVE FALSE
    <3>1. IdFor(left.job.id, None)
      BY <2>11 DEF Inv, UndoInv, LeftInv
    <3>2. Own(j) = job[c].id
      BY <1>2, <2>3 DEF Own, IsRollback
    <3>3. QED
      BY <1>2, <2>11, <3>1, <3>2, IdsApart
  <2>12. reused \subseteq reused'
    BY <1>4 DEF Reuse
  <2>13. QED
    BY <1>1, <2>1, <2>2, <2>10, <2>11, <2>12, QuietStep
<1>5. QED
  BY <1>3, <1>4 DEF Plan

\* The plan of a rollback is that of the apply it undoes.
LEMMA TargetKeeps ==
  ASSUME Inv, NEW c \in Clients, Target(c)
  PROVE  UndoInv'
<1> DEFINE t == applyPtr
           p == txn[t].plan
<1>1. /\ pc[c] = "target" /\ pc[c] \in Inside /\ Working(c)
      /\ UNCHANGED <<root, workdir, left, writer, raced, blind>>
  BY DEF Target, Local, rest, Inside, Working
<1>2. job[c] \in Jobs /\ job[c].kind = "rollback" /\ IdFor(job[c].id, None) /\ job[c].id \in TxnIds
  <2>1. Prepared(job[c], "target") /\ Shape(c)
    BY <1>1 DEF Inv, UndoInv, SessionsInv, Log, Unplanned, Typed, SessionShape
  <2>2. QED
    BY <1>1, <2>1 DEF Prepared, Shape, IsRollback, Inv, Typed, TypeOK
<1>3. CASE Raise(c) /\ UNCHANGED <<job, reused>>
  BY <1>1, <1>3, ErrorKeeps
<1>4. CASE /\ CanRollBack(t) /\ Goto(c, "mkdir") /\ Reuse(c)
           /\ job' = [job EXCEPT ![c] = [@ EXCEPT !.tx = t, !.plan = p, !.todo = Touched(p)]]
  <2> DEFINE j == job'[c]
  <2>1. pc'[c] = "mkdir" /\ \A d \in Clients \ {c} : pc'[d] = pc[d]
    BY <1>4, GotoTyped DEF Inv, Typed, Inside
  <2>2. /\ j = [job[c] EXCEPT !.tx = t, !.plan = p, !.todo = Touched(p)]
        /\ \A d \in Clients \ {c} : job'[d] = job[d]
    BY <1>4 DEF Inv, Typed, TypeOK
  <2>3. /\ j.kind = "rollback" /\ j.tx = t /\ j.id = job[c].id
        /\ j.plan = p /\ j.todo = Touched(p)
    BY <1>2, <2>2 DEF Jobs
  <2>4. t \in TxnIds /\ p # None /\ IdFor(t, p.arch) /\ baseline # None
    BY <1>4 DEF CanRollBack, Recorded, Undoable, Inv, UndoInv, TransactionsInv, IdsKept
  <2> HIDE DEF p
  <2>5. OnRoute(job[c], "mkdir")'
    BY <1>2, <2>3, <2>4 DEF OnRoute, Route, IsRollback, IdFor
  <2>6. ASSUME NEW u \in TxnIds, u = job[c].id, u \notin reused'
        PROVE  /\ Untouched(u)' /\ applyPtr' # u
               /\ txn'[u].shed = FALSE /\ txn'[u].ckpt.state = "none"
    BY <1>1, <1>4, <2>6, ReuseUnused DEF workdir
  <2>7. Protected(job[c], "mkdir")' /\ Noticed(job[c], "mkdir")'
    BY DEF Protected, Noticed, Writing
  <2>8. Stored(job[c], "mkdir")' /\ Unused(job[c], "mkdir")'
    <3>1. SUFFICES ASSUME NEW u \in TxnIds, u = job[c].id
                   PROVE  Stored(job[c], "mkdir")' /\ Unused(job[c], "mkdir")'
      BY <1>2
    <3>2. (Own(job[c]))' = u /\ job'[c].kind = "rollback"
      BY <2>3, <3>1 DEF Own, IsRollback
    <3>3. Stored(job[c], "mkdir")'
      BY <1>1, <2>3, <2>4, <2>6, <3>1, <3>2 DEF Stored, Writing, IsRollback, workdir, p
    <3>4. Unused(job[c], "mkdir")'
      BY <2>6, <3>1, <3>2 DEF Unused
    <3>5. QED
      BY <3>3, <3>4
  <2>9. Progress(job[c], "mkdir")'
    BY <2>3 DEF Progress, Answered, Delivered
  <2>10. Log(c)'
    BY <2>1, <2>5, <2>7, <2>8, <2>9 DEF Log, SessionLog, Unplanned
  <2>11. ASSUME left # None, IsRollback(left.job), Own(left.job) \notin reused', Own(j) = left.job.id
         PROVE  FALSE
    BY <2>3, <1>4, <2>11 DEF Reuse, Traces, Own, IsRollback
  <2>12. reused \subseteq reused'
    BY <1>4 DEF Reuse
  <2>13. QED
    BY <1>1, <2>1, <2>2, <2>10, <2>11, <2>12, QuietStep
<1>5. QED
  BY <1>3, <1>4 DEF Target

\* A recovery goes on with the plan of the earlier attempt, which is one of its
\* own archive.
LEMMA RecoveryStateKeeps ==
  ASSUME Inv, NEW c \in Clients, RecoveryState(c)
  PROVE  UndoInv'
<1> DEFINE t == job[c].tx
           p == txn[t].plan
<1>1. /\ pc[c] = "state" /\ pc[c] \in Inside /\ Working(c)
      /\ UNCHANGED <<root, workdir, left, writer, raced, blind, reused>>
  BY DEF RecoveryState, Local, rest, Inside, Working
<1>2. /\ job[c] \in Jobs /\ job[c].kind = "recover" /\ job[c].arch \in Archives /\ t \in TxnIds
      /\ txn[t].rec # None /\ txn[t].rec.arch = job[c].arch /\ txn[t].rec.status \in Unfinished
  <2>1. Prepared(job[c], "state") /\ Shape(c)
    BY <1>1 DEF Inv, UndoInv, SessionsInv, Log, Unplanned, Typed, SessionShape
  <2>2. QED
    BY <1>1, <2>1 DEF Prepared, Shape, Inv, Typed, TypeOK
<1>3. CASE Raise(c) /\ UNCHANGED job
  BY <1>1, <1>3, ErrorKeeps
<1>4. ASSUME NEW q \in {"validate", "preflight"}, p # None, Goto(c, q),
             job' = [job EXCEPT ![c] = [@ EXCEPT !.plan = p, !.todo = Remaining(p)]]
      PROVE  UndoInv'
  <2> DEFINE j == job'[c]
  <2>1. pc'[c] = q /\ \A d \in Clients \ {c} : pc'[d] = pc[d]
    BY <1>4, GotoTyped DEF Inv, Typed, Inside
  <2>2. /\ j = [job[c] EXCEPT !.plan = p, !.todo = Remaining(p)]
        /\ \A d \in Clients \ {c} : job'[d] = job[d]
    BY <1>4 DEF Inv, Typed, TypeOK
  <2>3. /\ j.kind = "recover" /\ j.tx = t /\ j.arch = job[c].arch
        /\ j.plan = p /\ j.todo = Remaining(p)
    BY <1>2, <2>2 DEF Jobs
  <2>4. p \in Plans /\ IdFor(t, p.arch) /\ baseline # None /\ txn[t].dir
        /\ (t \notin reused => ~txn[t].shed)
    <3>1. IdsKept(t) /\ txn[t] \in Transactions
      BY <1>2 DEF Inv, UndoInv, TransactionsInv, Typed, TypeOK
    <3>2. t \notin reused => ~txn[t].shed
      BY <1>2, <3>1 DEF IdsKept, Unfinished
    <3>3. QED
      BY <1>4, <3>1, <3>2 DEF IdsKept, NoTransaction, Transactions
  <2>5. p.arch = job[c].arch
    <3>1. IdFor(t, IF txn[t].rec.mode = "apply" THEN txn[t].rec.arch ELSE None)
      BY <1>2 DEF Inv, UndoInv, TransactionsInv, IdsKept
    <3>2. txn[t].rec.mode = "apply"
      BY <2>4, <3>1, IdsApart DEF Plans
    <3>3. QED
      BY <1>2, <2>4, <3>1, <3>2, IdTells DEF Plans
  <2>6. Remaining(p) \subseteq Touched(p)
    BY DEF Remaining
  <2>7. ASSUME NEW f \in Touched(p) \ Remaining(p) PROVE root[f] = Payload[p.arch][f]
    BY <2>7 DEF Remaining, AlreadyWritten
  <2> HIDE DEF p
  <2>8. OnRoute(job[c], q)'
    BY <2>3, <2>4, <2>5, <2>6 DEF OnRoute, Route, IsRollback, IdFor
  <2>9. Stored(job[c], q)'
    BY <1>1, <2>3, <2>4 DEF Stored, Writing, Delivered, IsRollback, Own, workdir, p
  <2>10. Protected(job[c], q)' /\ Noticed(job[c], q)' /\ Unused(job[c], q)'
    BY <1>1, <1>2, <2>3 DEF Protected, Noticed, Unused, Writing, IsRollback, workdir
  <2>11. Progress(job[c], q)'
    BY <1>1, <2>3, <2>7 DEF Progress, Answered, Result, IsRollback, Delivered
  <2>12. Log(c)'
    BY <2>1, <2>8, <2>9, <2>10, <2>11 DEF Log, SessionLog, Unplanned
  <2>13. ASSUME left # None, IsRollback(left.job), Own(j) = left.job.id PROVE FALSE
    <3>1. IdFor(left.job.id, None)
      BY <2>13 DEF Inv, UndoInv, LeftInv
    <3>2. Own(j) = t
      BY <2>3 DEF Own, IsRollback
    <3>3. QED
      BY <2>4, <2>13, <3>1, <3>2, IdsApart DEF Plans
  <2>14. QED
    BY <1>1, <2>1, <2>2, <2>12, <2>13, QuietStep
<1>5. QED
  BY <1>3, <1>4 DEF RecoveryState

-----------------------------------------------------------------------------
(* Checks, and the scripts up to their writes. *)

\* A session with a plan moves on and changes neither workdir nor files.
LEMMA MoveKeeps ==
  ASSUME Inv, NEW c \in Clients, pc[c] \in Planned \ {"except"},
         UNCHANGED <<root, workdir, left, writer, raced, blind, reused>>,
         \A d \in Clients \ {c} : pc'[d] = pc[d] /\ job'[d] = job[d],
         job'[c].kind = job[c].kind, job'[c].tx = job[c].tx, job'[c].id = job[c].id,
         Log(c)'
  PROVE  UndoInv'
<1>1. Own(job'[c]) = Own(job[c])
  BY DEF Own, IsRollback
<1>2. QED
  BY <1>1, NotLeft, QuietStep, PlannedLog

\* The preflight finds every planned file as expected.
LEMMA PreflightKeeps ==
  ASSUME Inv, NEW c \in Clients, Preflight(c)
  PROVE  UndoInv'
<1>1. /\ pc[c] = "preflight" /\ pc[c] \in Planned \ {"except"} /\ pc[c] \in Inside
      /\ UNCHANGED <<root, workdir, left, writer, raced, blind, reused, job>>
  BY DEF Preflight, Local, rest, Planned, Inside, Unplanned
<1>2. CASE Raise(c)
  BY <1>1, <1>2, ErrorKeeps
<1>3. CASE AsExpected(job[c]) /\ Goto(c, "checkpoint")
  <2> DEFINE j == job[c]
  <2>1. pc'[c] = "checkpoint" /\ \A d \in Clients \ {c} : pc'[d] = pc[d]
    BY <1>3, GotoTyped DEF Inv, Typed, Inside
  <2>2. SessionLog(j, "preflight") /\ j \in Jobs
    BY <1>1, PlannedLog
  <2>3. OnRoute(j, "checkpoint")'
    BY <1>1, <2>2 DEF SessionLog, OnRoute, Route, Fresh, Writing, Delivered, IsRollback, IdFor
  <2>4. Stored(j, "checkpoint")' /\ Noticed(j, "checkpoint")'
    BY <1>1, <2>2 DEF SessionLog, Stored, Noticed, Writing, Delivered, Own, IsRollback, workdir
  <2>5. Protected(j, "checkpoint")'
    BY <1>1, <1>3 DEF Protected, AsExpected, Expected, IsRollback, Writing
  <2>6. Unused(j, "checkpoint")'
    BY <1>1, <2>2 DEF SessionLog, Unused, Fresh, Untouched, Own, IsRollback, workdir
  <2>7. Progress(j, "checkpoint")'
    BY <1>1, <2>2 DEF SessionLog, Progress, Delivered, Result, Answered, IsRollback
  <2>8. Log(c)'
    BY <2>1, <2>3, <2>4, <2>5, <2>6, <2>7 DEF Log, SessionLog, Unplanned
  <2>9. QED
    BY <1>1, <2>1, <2>8, MoveKeeps
<1>4. QED
  BY <1>2, <1>3 DEF Preflight

\* What the script of an apply extracts is the archive, that of a rollback what
\* the apply has found.
LEMMA ExtractedResult ==
  ASSUME NEW j \in Jobs, ScriptReady(j), txn[j.tx].plan = j.plan,
         NEW k, k = [j EXCEPT !.from = Extracted(j)], NEW f \in Touched(j.plan)
  PROVE  Written(k, f) = Result(k, f)
<1>1. k.kind = j.kind /\ k.plan = j.plan /\ k.from = Extracted(j)
  BY DEF Jobs
<1>2. CASE j.kind # "rollback"
  BY <1>1, <1>2 DEF Written, Result, IsRollback, Extracted
<1>3. CASE j.kind = "rollback" /\ f \in Creates(j.plan)
  BY <1>1, <1>3 DEF Written, Result, IsRollback, Creates
<1>4. CASE j.kind = "rollback" /\ f \notin Creates(j.plan)
  <2>1. f \in Replaces(j.plan)
    BY <1>4 DEF Touched
  <2>2. Undoable(j.tx)
    BY <1>4 DEF ScriptReady
  <2>3. QED
    BY <1>1, <1>4, <2>1, <2>2 DEF Written, Result, IsRollback, Extracted, Undoable
<1>5. QED
  BY <1>2, <1>3, <1>4

LEMMA StartScriptKeeps ==
  ASSUME Inv, NEW c \in Clients, StartScript(c)
  PROVE  UndoInv'
<1>1. /\ pc[c] = "script" /\ pc[c] \in Planned \ {"except"} /\ pc[c] \in Inside
      /\ UNCHANGED <<root, workdir, left, writer, raced, blind, reused>>
  BY DEF StartScript, Local, rest, Planned, Inside, Unplanned
<1>2. CASE Raise(c) /\ UNCHANGED job
  BY <1>1, <1>2, ErrorKeeps
<1>3. CASE /\ ScriptReady(job[c]) /\ Goto(c, "check")
           /\ job' = [job EXCEPT ![c].from = Extracted(job[c])]
  <2> DEFINE k == [job[c] EXCEPT !.from = Extracted(job[c])]
             j == job'[c]
  <2>1. pc'[c] = "check" /\ \A d \in Clients \ {c} : pc'[d] = pc[d]
    BY <1>3, GotoTyped DEF Inv, Typed, Inside
  <2>2. SessionLog(job[c], "script") /\ job[c] \in Jobs
    BY <1>1, PlannedLog
  <2>3. j = k /\ \A d \in Clients \ {c} : job'[d] = job[d]
    BY <1>3 DEF Inv, Typed, TypeOK
  <2>4. ASSUME NEW f \in Touched(job[c].plan) PROVE Written(k, f) = Result(k, f)
    BY <1>3, <2>2, ExtractedResult DEF SessionLog, Stored, Writing, Delivered
  <2>5. /\ j.kind = job[c].kind /\ j.tx = job[c].tx /\ j.id = job[c].id /\ j.plan = job[c].plan
        /\ j.arch = job[c].arch /\ j.todo = job[c].todo
    BY <2>2, <2>3 DEF Jobs
  <2>6. \A f \in Touched(j.plan) : Written(j, f) = Result(j, f)
    BY <2>3, <2>4, <2>5
  <2> HIDE DEF k
  <2>7. OnRoute(job[c], "check")'
    BY <1>1, <2>2, <2>5 DEF SessionLog, OnRoute, Route, Writing, Delivered, IsRollback, IdFor
  <2>8. Stored(job[c], "check")' /\ Noticed(job[c], "check")'
    <3>1. Stored(job[c], "check")'
      BY <1>1, <2>2, <2>5 DEF SessionLog, Stored, Writing, Delivered, Own, IsRollback, workdir
    <3>2. Noticed(job[c], "check")'
      BY <1>1, <2>2, <2>5 DEF SessionLog, Noticed, Writing, Delivered, Own, IsRollback, workdir
    <3>3. QED
      BY <3>1, <3>2
  <2>9. Protected(job[c], "check")'
    BY <1>1, <2>2, <2>5 DEF SessionLog, Protected, Backed, ToSave, Expected, Writing,
     Own, IsRollback, workdir
  <2>10. Unused(job[c], "check")'
    BY DEF Unused, Fresh
  <2>11. Progress(job[c], "check")'
    BY <1>1, <2>2, <2>5, <2>6 DEF SessionLog, Progress, Delivered, Result, Answered, Written, IsRollback
  <2>12. Log(c)'
    BY <2>1, <2>7, <2>8, <2>9, <2>10, <2>11 DEF Log, SessionLog, Unplanned
  <2>13. QED
    BY <1>1, <2>1, <2>3, <2>5, <2>12, MoveKeeps
<1>4. QED
  BY <1>2, <1>3 DEF StartScript

\* One file is current at a time.
LEMMA CurrentAlone ==
  ASSUME NEW j \in Jobs, NEW f \in j.todo, NEW g \in j.todo, Current(j, f), Current(j, g)
  PROVE  f = g
<1>1. f \in Nat /\ g \in Nat
  BY FilesAssumption DEF Jobs, Files
<1>2. f <= g /\ g <= f
  BY DEF Current
<1>3. QED
  BY <1>1, <1>2

LEMMA CheckFileKeeps ==
  ASSUME Inv, NEW c \in Clients, CheckFile(c)
  PROVE  UndoInv'
<1>1. /\ pc[c] = "check" /\ pc[c] \in Planned \ {"except"} /\ pc[c] \in Inside
      /\ UNCHANGED <<root, workdir, left, writer, raced, blind, reused>>
  BY DEF CheckFile, Local, rest, Planned, Inside, Unplanned
<1>2. SessionLog(job[c], "check") /\ job[c] \in Jobs
  BY <1>1, PlannedLog
<1>3. CASE Raise(c) /\ UNCHANGED job
  BY <1>1, <1>3, ErrorKeeps
<1>4. ASSUME NEW q \in {"mark", "extract"}, Goto(c, q), UNCHANGED job,
             q = "mark" => job[c].todo = {},
             q = "extract" => \E f \in job[c].todo : Current(job[c], f) /\ root[f] = Expected(job[c], f)
      PROVE  UndoInv'
  <2> DEFINE j == job[c]
  <2>1. pc'[c] = q /\ \A d \in Clients \ {c} : pc'[d] = pc[d]
    BY <1>4, GotoTyped DEF Inv, Typed, Inside
  <2>2. q = "extract" => \A g \in j.todo : Current(j, g) => root[g] = Expected(j, g)
    BY <1>2, <1>4, CurrentAlone
  <2>3. OnRoute(j, q)'
    BY <1>1, <1>2, <1>4 DEF SessionLog, OnRoute, Route, Writing, Delivered, IsRollback, IdFor
  <2>4. Stored(j, q)' /\ Noticed(j, q)'
    BY <1>1, <1>2, <1>4 DEF SessionLog, Stored, Noticed, Writing, Delivered, Own, IsRollback, workdir
  <2>5. Protected(j, q)'
    BY <1>1, <1>2, <1>4, <2>2 DEF SessionLog, Protected, Backed, ToSave, Expected, Current, Writing, Own,
       IsRollback, workdir
  <2>6. Unused(j, q)'
    BY DEF Unused, Fresh
  <2>7. Progress(j, q)'
    BY <1>1, <1>2, <1>4 DEF SessionLog, Progress, Delivered, Result, Answered, Written, IsRollback
  <2>8. Log(c)'
    BY <2>1, <2>3, <2>4, <2>5, <2>6, <2>7 DEF Log, SessionLog, Unplanned
  <2>9. QED
    BY <1>1, <1>4, <2>1, <2>8, MoveKeeps
<1>5. ASSUME NEW f \in job[c].todo, job[c].kind = "recover", root[f] = Written(job[c], f),
             job' = [job EXCEPT ![c].todo = @ \ {f}], UNCHANGED pc
      PROVE  UndoInv'
  <2> DEFINE j == job'[c]
  <2>1. j = [job[c] EXCEPT !.todo = @ \ {f}] /\ \A d \in Clients \ {c} : job'[d] = job[d]
    BY <1>5 DEF Inv, Typed, TypeOK
  <2>2. /\ j.kind = job[c].kind /\ j.tx = job[c].tx /\ j.id = job[c].id /\ j.plan = job[c].plan
        /\ j.arch = job[c].arch /\ j.from = job[c].from /\ j.todo = job[c].todo \ {f}
    BY <1>2, <2>1 DEF Jobs
  <2>3. root[f] = Result(job[c], f)
    BY <1>2, <1>5 DEF SessionLog, OnRoute, Progress
  <2>4. OnRoute(job[c], "check")'
    BY <1>1, <1>2, <2>2 DEF SessionLog, OnRoute, Route, Writing, Delivered, IsRollback, IdFor
  <2>5. Stored(job[c], "check")' /\ Noticed(job[c], "check")'
    <3>1. Stored(job[c], "check")'
      BY <1>1, <1>2, <2>2 DEF SessionLog, Stored, Writing, Delivered, Own, IsRollback, workdir
    <3>2. Noticed(job[c], "check")'
      BY <1>1, <1>2, <2>2 DEF SessionLog, Noticed, Writing, Delivered, Own, IsRollback, workdir
    <3>3. QED
      BY <3>1, <3>2
  <2>6. Protected(job[c], "check")'
    BY <1>1, <1>2, <2>2, SMTT(30) DEF SessionLog, Protected, Backed, ToSave, Expected, Writing,
     Own, IsRollback, workdir
  <2>7. Unused(job[c], "check")'
    BY DEF Unused, Fresh
  <2>8. Progress(job[c], "check")'
    BY <1>1, <1>2, <2>2, <2>3 DEF SessionLog, Progress, Delivered, Result, Answered, Written, IsRollback
  <2>9. Log(c)'
    BY <1>1, <1>5, <2>4, <2>5, <2>6, <2>7, <2>8 DEF Log, SessionLog, Unplanned
  <2>10. QED
    BY <1>1, <1>5, <2>1, <2>2, <2>9, MoveKeeps
<1>6. QED
  BY <1>3, <1>4, <1>5 DEF CheckFile

-----------------------------------------------------------------------------
(* Calls that change the session's own transaction directory. *)

\* The directory of one transaction changes.
LEMMA PutKeeps ==
  ASSUME Inv, NEW c \in Clients, pc[c] \in Planned, NEW t \in TxnIds, t = Own(job[c]),
         NEW r \in Transactions, r.dir, r.shed = txn[t].shed, Put(t, r), Frame(c),
         NEW q \in Places, Raise(c) \/ (Goto(c, q) /\ Log(c)'),
         IdsKept(t)', Undone(t)', SavedAsPlanned(t)', SavedFirst(t)',
         applyPtr = t =>
           /\ r.rec # None /\ r.rec.mode = "apply"
           /\ t \notin reused => r.plan # None /\ "manifest" \in r.files /\ r.ckpt.state \in {"full", "spoilt"},
         left # None /\ Own(left.job) = t /\ t \notin reused => LeftLog(left.job)'
  PROVE  UndoInv'
<1>1. /\ UNCHANGED <<root, applyPtr, lastPtr, baseline, left, writer, raced, blind, reused, job>>
      /\ txn'[t] = r /\ \A u \in TxnIds \ {t} : txn'[u] = txn[u]
  BY DEF Put, Frame, rest, Inv, Typed, TypeOK
<1>2. \A d \in Clients \ {c} : pc'[d] = pc[d]
  BY RaiseTyped, GotoTyped DEF Inv, Typed, Places
<1>3. TransactionsInv'
  <2>1. ASSUME NEW u \in TxnIds \ {t}
        PROVE  IdsKept(u)' /\ Undone(u)' /\ SavedAsPlanned(u)' /\ SavedFirst(u)'
    BY <1>1, <2>1 DEF Inv, UndoInv, TransactionsInv, IdsKept, Undone, CanBeUndone, SavedAsPlanned, SavedFirst,
       Complete
  <2>2. QED
    BY <2>1 DEF TransactionsInv
<1>4. PointerInv'
  BY <1>1 DEF Inv, UndoInv, PointerInv, Complete
<1>5. Log(c)'
  <2>1. CASE Raise(c)
    <3>1. pc'[c] \in {"except", "finally"} /\ (pc'[c] = "except" => job[c].kind # "recover")
      BY <2>1, RaiseTyped DEF Inv, Typed
    <3>2. txn'[t].dir /\ txn'[t].shed = txn[t].shed
      BY <1>1
    <3>3. QED
      BY <1>1, <3>1, <3>2, QuietErrorLog
  <2>2. QED
    BY <2>1
<1>6. SessionsInv'
  BY <1>1, <1>2, <1>5, SessionsFrame, PlannedLog
<1>7. LeftInv'
  <2>1. CASE left # None /\ Own(left.job) = t /\ t \notin reused
    BY <1>1, <2>1 DEF Inv, UndoInv, LeftInv, IdFor, IsRollback, Expected, Current, Own
  <2>2. CASE left = None
    BY <1>1, <2>2 DEF LeftInv
  <2>3. CASE left # None /\ Own(left.job) # t /\ Own(left.job) \in TxnIds
    <3>1. txn'[Own(left.job)] = txn[Own(left.job)]
      BY <1>1, <2>3
    <3>2. IsRollback(left.job) => left.job.id # Own(job'[c])
      BY <1>1, <2>3 DEF Own
    <3>3. QED
      BY <1>1, <1>2, <3>1, <3>2, LeftFrameInv
  <2>4. CASE left # None /\ Own(left.job) = t /\ t \in reused
    BY <1>1, <1>2, <2>4, LeftFrameInv
  <2>5. left # None => Own(left.job) \in TxnIds
    <3>1. left # None => left.job.tx \in 0..MaxTxn /\ left.job.id \in 0..MaxTxn
      BY DEF Inv, Typed, TypeOK, Scripts, Jobs
    <3>2. ASSUME left # None, IsRollback(left.job) PROVE left.job.id \in TxnIds
      BY <3>2, NoneAssumption, IdTells DEF Inv, UndoInv, LeftInv
    <3>3. ASSUME left # None PROVE left.job.tx \in TxnIds
      BY <3>1, <3>3, BoundsAssumption, SMTT(30) DEF Inv, Typed, TypeOK, Scripts, TxnIds, NoTxn
    <3>4. QED
      BY <3>2, <3>3 DEF Own
  <2>6. QED
    BY <2>1, <2>2, <2>3, <2>4, <2>5
<1>8. RootInv'
  BY <1>1 DEF Inv, UndoInv, RootInv, Pristine, BaselineIsPristine
<1>9. QED
  BY <1>3, <1>4, <1>6, <1>7, <1>8 DEF UndoInv

\* A rollback and the apply that it undoes have different directories.
LEMMA RollbackApart ==
  ASSUME Inv, NEW c \in Clients, pc[c] \in Planned
  PROVE  /\ IsRollback(job[c]) => job[c].tx # job[c].id /\ Own(job[c]) = job[c].id
         /\ ~IsRollback(job[c]) => Own(job[c]) = job[c].tx /\ IdFor(job[c].tx, job[c].plan.arch)
         /\ IsRollback(job[c]) => IdFor(job[c].id, None)
BY PlannedLog, IdsApart DEF SessionLog, OnRoute, Own

\* A checkpoint is not complete, or holds what a plan asks for.
AsPlanned(k, p) ==
  k.state = "full" /\ p # None =>
    \A f \in Files \ blind : k.saved[f] = IF f \in Replaces(p) THEN p.before[f] ELSE "absent"

\* A fresh session has not saved anything before it gets to its checkpoint.
LEMMA NothingSavedYet ==
  ASSUME Inv, NEW c \in Clients, pc[c] \in Planned, pc[c] \in Fresh, job[c].kind # "recover",
         ~(pc[c] = "record" /\ IsRollback(job[c])), Own(job[c]) \notin reused
  PROVE  txn[Own(job[c])].ckpt.state # "full"
<1>1. Unused(job[c], pc[c])
  BY PlannedLog DEF SessionLog
<1>2. QED
  BY <1>1 DEF Unused

\* Until its checkpoint is complete, the transaction of a session that is not a
\* recovery can be changed at will, as long as its record says nothing else.
LEMMA FreshPut ==
  ASSUME Inv, NEW c \in Clients, pc[c] \in Planned, pc[c] \in Fresh, job[c].kind # "recover",
         NEW t \in TxnIds, t = Own(job[c]),
         NEW r \in Transactions, r.dir, r.shed = txn[t].shed, Put(t, r), Frame(c),
         t \notin reused => AsPlanned(r.ckpt, r.plan),
         r.rec = txn[t].rec, r.plan # None => IdFor(t, r.plan.arch) /\ baseline # None,
         NEW q \in Places, Raise(c) \/ (Goto(c, q) /\ Log(c)')
  PROVE  UndoInv'
<1>1. SessionLog(job[c], pc[c])
  BY PlannedLog
<1>2. /\ UNCHANGED <<applyPtr, baseline, left, writer, blind, reused>> /\ txn'[t] = r
  BY DEF Put, Frame, rest, Inv, Typed, TypeOK
<1>3. t \notin reused => Untouched(t) /\ applyPtr # t
  BY <1>1 DEF SessionLog, Unused
<1>4. IdsKept(t)'
  BY <1>2 DEF Inv, UndoInv, TransactionsInv, IdsKept, IdFor
<1>0. SavedAsPlanned(t)'
  BY <1>2 DEF SavedAsPlanned, AsPlanned
<1>5. Undone(t)'
  <2> SUFFICES ASSUME t \notin reused, r.rec # None, r.rec.mode = "apply",
                      r.rec.status \in {"applying", "applied"}
               PROVE  FALSE
    BY <1>2 DEF Undone
  <2>1. CASE IsRollback(job[c])
    <3>1. IdFor(t, r.rec.arch) /\ IdFor(t, None)
      BY <2>1, RollbackApart DEF Inv, UndoInv, TransactionsInv, IdsKept
    <3>2. r.rec.arch \in Archives
      BY DEF Transactions, Records
    <3>3. QED
      BY <3>1, <3>2, IdsApart
  <2>2. CASE job[c].kind = "apply"
    <3>1. t = job[c].tx
      BY <2>2 DEF Own, IsRollback
    <3>2. txn[t].rec = None \/ txn[t].rec.status = "prepared"
      BY <1>1, <2>2, <3>1 DEF SessionLog, Unused
    <3>3. QED
      BY <3>2
  <2>3. QED
    BY <2>1, <2>2, PlannedLog DEF Jobs, IsRollback
<1>6. SavedFirst(t)'
  BY <1>2, <1>3 DEF SavedFirst, Untouched
<1>7. applyPtr = t => r.rec # None /\ r.rec.mode = "apply"
  BY DEF Inv, UndoInv, PointerInv
<1>8. QED
  BY <1>0, <1>3, <1>4, <1>5, <1>6, <1>7, PutKeeps DEF Untouched

LEMMA MakeDirKeeps ==
  ASSUME Inv, NEW c \in Clients, MakeDir(c)
  PROVE  UndoInv'
<1> DEFINE j == job[c]
<1>1. /\ pc[c] = "mkdir" /\ pc[c] \in Planned /\ pc[c] \in Fresh /\ pc[c] \in Inside
      /\ UNCHANGED <<root, job, reused, left, writer, raced, blind>>
  BY DEF MakeDir, Call, Frame, rest, Planned, Inside, Unplanned, Fresh
<1>2. SessionLog(j, "mkdir") /\ j \in Jobs
  BY <1>1, PlannedLog
<1>3. j.kind # "recover"
  BY <1>2 DEF SessionLog, OnRoute, Route, Writing, Delivered
<1>4. CASE Raise(c) /\ UNCHANGED workdir
  BY <1>1, <1>4, ErrorKeeps
<1>5. ASSUME NEW t \in TxnIds, t = Own(j), NEW r, r = [txn[t] EXCEPT !.dir = TRUE],
             NEW q, q = IF IsRollback(j) THEN "preflight" ELSE "artifact",
             Put(t, r), Raise(c) \/ Goto(c, q)
      PROVE  UndoInv'
  <2>1. /\ r \in Transactions /\ r.dir = TRUE /\ r.plan = txn[t].plan /\ r.rec = txn[t].rec
        /\ r.files = txn[t].files /\ r.shed = txn[t].shed /\ r.ckpt = txn[t].ckpt
    BY <1>5 DEF Inv, Typed, TypeOK, Transactions
  <2>0. t \notin reused => r.ckpt.state # "full"
    BY <1>1, <1>3, <1>5, <2>1, NothingSavedYet
  <2>2. txn' = [txn EXCEPT ![t] = r] /\ UNCHANGED <<applyPtr, lastPtr, baseline>>
    BY <1>5 DEF Put
  <2>3. r.plan # None => IdFor(t, r.plan.arch) /\ baseline # None
    BY <2>1 DEF Inv, UndoInv, TransactionsInv, IdsKept
  <2>4. ASSUME Goto(c, q) PROVE Log(c)'
    <3>0. \/ q = "preflight" /\ j.kind = "rollback"
          \/ q = "artifact" /\ j.kind = "apply"
      BY <1>2, <1>3, <1>5 DEF Jobs, IsRollback
    <3>1. pc'[c] = q
      BY <2>4, <3>0, GotoTyped DEF Inv, Typed, Inside
    <3>2. txn'[t] = r /\ \A u \in TxnIds \ {t} : txn'[u] = txn[u]
      BY <2>2 DEF Inv, Typed, TypeOK
    <3>3. OnRoute(j, q)'
      BY <1>1, <1>2, <3>0 DEF SessionLog, OnRoute, Route, Fresh, IsRollback, IdFor
    <3>4. Stored(j, q)'
      <4>1. baseline # None
        BY <1>2 DEF SessionLog, Stored
      <4>2. txn'[Own(j)].dir
        BY <1>5, <2>1, <3>2
      <4>3. q = "preflight" => txn'[j.tx].plan = j.plan
        BY <1>1, <1>2, <1>5, <3>0, <3>2, RollbackApart, PlannedLog DEF SessionLog, Stored, Delivered, IsRollback
      <4>4. Own(j) \notin reused => ~txn'[Own(j)].shed
        BY <1>2, <1>5, <2>1, <3>2 DEF SessionLog, Stored
      <4>5. QED
        BY <1>1, <2>2, <3>0, <4>1, <4>2, <4>3, <4>4 DEF Stored, Writing, Delivered, Own, IsRollback
    <3>5. Protected(j, q)' /\ Noticed(j, q)'
      BY <1>1, <3>0 DEF Protected, Noticed, Writing, IsRollback
    <3>6. Unused(j, q)'
      <4>1. Unused(j, "mkdir")
        BY <1>2 DEF SessionLog
      <4>2. /\ txn'[Own(j)].rec = txn[Own(j)].rec /\ txn'[Own(j)].ckpt = txn[Own(j)].ckpt
            /\ applyPtr' = applyPtr
        BY <1>5, <2>1, <2>2, <3>2
      <4>3. j.kind = "apply" => Own(j) = j.tx
        BY DEF Own, IsRollback
      <4>4. QED
        BY <1>1, <3>0, <4>1, <4>2, <4>3 DEF Unused, Fresh, Untouched, Own, IsRollback
    <3>7. Progress(j, q)'
      BY <1>1, <1>2, <3>0 DEF SessionLog, Progress, Delivered, Result, Answered, IsRollback
    <3>8. QED
      BY <3>0, <3>1, <3>3, <3>4, <3>5, <3>6, <3>7 DEF Log, SessionLog, Unplanned
  <2>5. Frame(c) /\ q \in Places
    BY <1>5 DEF MakeDir, Call, Places, Inside
  <2>6. QED
    BY <1>1, <1>3, <1>5, <2>0, <2>1, <2>3, <2>4, <2>5, FreshPut DEF AsPlanned
<1>6. QED
  BY <1>1, <1>4, <1>5, PlannedLog DEF MakeDir, Call

\* The uploads of a fresh apply.
LEMMA PutFileKeeps ==
  ASSUME Inv, NEW c \in Clients, PutArtifact(c) \/ PutManifest(c) \/ PutPlan(c)
  PROVE  UndoInv'
<1> DEFINE j == job[c]
<1>0. SUFFICES ASSUME NEW p, p = pc[c],
                      NEW q, q = CASE p = "artifact" -> "planfile" [] p = "planfile" -> "manifest"
                                   [] OTHER -> "record"
               PROVE  UndoInv'
  OBVIOUS
<1>1. /\ p \in {"artifact", "planfile", "manifest"}
      /\ p \in Planned /\ p \in Fresh /\ p \in Inside
      /\ UNCHANGED <<root, job, reused, left, writer, raced, blind>>
      /\ Frame(c) /\ q \in Places /\ Own(j) \in TxnIds
  <2>1. p \in {"artifact", "planfile", "manifest"} /\ Frame(c)
    BY <1>0 DEF PutArtifact, PutManifest, PutPlan, PutFile, Upload, Call
  <2>2. QED
    BY <1>0, <2>1, PlannedLog DEF Frame, rest, Planned, Inside, Unplanned, Fresh, Places
<1>2. SessionLog(j, p) /\ j \in Jobs /\ j.tx \in TxnIds /\ j.plan \in Plans
  BY <1>0, <1>1, PlannedLog
<1>3. j.kind = "apply" /\ Own(j) = j.tx
  BY <1>0, <1>1, <1>2 DEF SessionLog, OnRoute, Route, Writing, Delivered, Jobs, Own, IsRollback
<1>4. CASE Raise(c) /\ UNCHANGED workdir
  BY <1>0, <1>1, <1>4, ErrorKeeps
<1>5. ASSUME NEW t \in TxnIds, t = Own(j), NEW r \in Transactions, Put(t, r),
             r.dir = txn[t].dir, r.shed = txn[t].shed, r.rec = txn[t].rec, r.ckpt = txn[t].ckpt,
             r.plan \in {txn[t].plan, j.plan, None},
             \/ Raise(c)
             \/ /\ Goto(c, q)
                /\ p \in {"planfile", "manifest"} => r.plan = j.plan
                /\ p = "manifest" => "manifest" \in r.files
      PROVE  UndoInv'
  <2>1. txn'[t] = r /\ UNCHANGED <<applyPtr, lastPtr, baseline>>
    BY <1>5 DEF Put, Inv, Typed, TypeOK
  <2>2. r.dir /\ baseline # None
    BY <1>0, <1>1, <1>2, <1>5 DEF SessionLog, Stored
  <2>0. t \notin reused => ~r.shed /\ r.ckpt.state # "full"
    BY <1>0, <1>1, <1>2, <1>3, <1>5, NothingSavedYet DEF SessionLog, Stored, IsRollback
  <2>3. r.plan # None => IdFor(t, r.plan.arch) /\ baseline # None
    BY <1>2, <1>3, <1>5, <2>2 DEF Inv, UndoInv, TransactionsInv, IdsKept, SessionLog, OnRoute
  <2>4. ASSUME Goto(c, q), p \in {"planfile", "manifest"} => r.plan = j.plan,
               p = "manifest" => "manifest" \in r.files
        PROVE  Log(c)'
    <3>1. pc'[c] = q
      BY <1>0, <1>1, <2>4, GotoTyped DEF Inv, Typed, Places
    <3>2. OnRoute(j, q)'
      BY <1>0, <1>1, <1>2, <1>3 DEF SessionLog, OnRoute, Route, Fresh, IsRollback, IdFor
    <3>3. Stored(j, q)'
      BY <1>0, <1>1, <1>2, <1>3, <1>5, <2>0, <2>1, <2>2, <2>4 DEF Stored, Writing, Delivered, Own, IsRollback
    <3>4. Protected(j, q)' /\ Noticed(j, q)'
      BY <1>0, <1>1, <1>3 DEF Protected, Noticed, Writing, IsRollback
    <3>5. Unused(j, q)'
      BY <1>0, <1>1, <1>2, <1>3, <1>5, <2>1 DEF SessionLog, Unused, Fresh, Untouched, Own, IsRollback
    <3>6. Progress(j, q)'
      BY <1>0, <1>1, <1>2 DEF SessionLog, Progress, Delivered, Result, Answered, IsRollback
    <3>7. QED
      BY <1>0, <1>1, <3>1, <3>2, <3>3, <3>4, <3>5, <3>6 DEF Log, SessionLog, Unplanned
  <2>5. QED
    BY <1>0, <1>1, <1>3, <1>5, <2>0, <2>2, <2>3, <2>4, FreshPut DEF AsPlanned
<1>6. SUFFICES ASSUME NEW t \in TxnIds, t = Own(j) PROVE UndoInv'
  BY <1>1
<1>7. txn[t] \in Transactions
  BY DEF Inv, Typed, TypeOK
<1>8. ASSUME NEW x \in {"artifact", "manifest"}, p = x, PutFile(c, p, x, q) PROVE UndoInv'
  <2> DEFINE r1 == [txn[t] EXCEPT !.files = @ \cup {x}]
             r2 == [txn[t] EXCEPT !.files = @ \ {x}]
  <2>1. /\ r1 \in Transactions /\ r1.dir = txn[t].dir /\ r1.rec = txn[t].rec /\ r1.plan = txn[t].plan
        /\ x \in r1.files
        /\ r2 \in Transactions /\ r2.dir = txn[t].dir /\ r2.rec = txn[t].rec /\ r2.plan = txn[t].plan
        /\ \A r \in {r1, r2} : r.shed = txn[t].shed /\ r.ckpt = txn[t].ckpt
    BY <1>7 DEF Transactions
  <2>2. x = "manifest" => txn[t].plan = j.plan
    BY <1>0, <1>2, <1>3, <1>6, <1>8 DEF SessionLog, Stored, Delivered
  <2>3. \/ Put(t, r1) /\ Goto(c, q)
        \/ (Put(t, r1) \/ Put(t, r2) \/ UNCHANGED workdir) /\ Raise(c)
    BY <1>0, <1>6, <1>8 DEF PutFile, Upload, Call
  <2> HIDE DEF r1, r2
  <2>4. QED
    BY <1>4, <1>5, <1>6, <1>8, <2>1, <2>2, <2>3
<1>9. CASE PutPlan(c)
  <2> DEFINE Kept == IF txn[t].plan = j.plan THEN {"manifest"} ELSE {}
             r1 == [txn[t] EXCEPT !.plan = j.plan, !.files = @ \cap ({"artifact"} \cup Kept)]
             r2 == [txn[t] EXCEPT !.plan = None]
  <2>1. /\ r1 \in Transactions /\ r1.dir = txn[t].dir /\ r1.rec = txn[t].rec /\ r1.plan = j.plan
        /\ r2 \in Transactions /\ r2.dir = txn[t].dir /\ r2.rec = txn[t].rec /\ r2.plan = None
        /\ \A r \in {r1, r2} : r.shed = txn[t].shed /\ r.ckpt = txn[t].ckpt
    BY <1>2, <1>7 DEF Transactions
  <2>2. /\ p = "planfile"
        /\ \/ Put(t, r1) /\ Goto(c, q)
           \/ (Put(t, r1) \/ Put(t, r2) \/ UNCHANGED workdir) /\ Raise(c)
    BY <1>0, <1>6, <1>9 DEF PutPlan, Upload, Call
  <2> HIDE DEF r1, r2
  <2>3. QED
    BY <1>4, <1>5, <1>6, <2>1, <2>2
<1>10. QED
  BY <1>0, <1>8, <1>9 DEF PutArtifact, PutManifest, PutFile, Upload, Call

\* A recovery saves again what is still as the plan found it, or spoils what is
\* there.
LEMMA RecheckKeeps ==
  ASSUME Inv, NEW c \in Clients, pc[c] = "checkpoint", job[c].kind = "recover",
         NEW t \in TxnIds, t = Own(job[c]), NEW k \in Checkpoints,
         Complete(t) => k.state \in {"full", "spoilt"},
         AsPlanned(k, job[c].plan),
         NEW r, r = [txn[t] EXCEPT !.ckpt = k], Put(t, r), Frame(c),
         NEW q \in Places, Raise(c) \/ (Goto(c, q) /\ Log(c)')
  PROVE  UndoInv'
<1> DEFINE j == job[c]
<1>1. pc[c] \in Planned
  BY DEF Planned, Inside, Unplanned
<1>2. SessionLog(j, "checkpoint") /\ t = j.tx /\ IdFor(t, j.plan.arch) /\ j.plan.arch \in Archives
  BY <1>1, PlannedLog DEF SessionLog, OnRoute, Own, IsRollback
<1>3. /\ txn[t].dir /\ txn[t].plan = j.plan /\ j.plan # None
      /\ txn[t].rec # None /\ txn[t].rec.status # "applied"
  BY <1>1, <1>2, PlannedLog, NoneAssumption DEF SessionLog, Stored, Noticed, Delivered, Unfinished
<1>4. /\ r \in Transactions /\ r.dir = txn[t].dir /\ r.plan = txn[t].plan /\ r.rec = txn[t].rec
      /\ r.files = txn[t].files /\ r.shed = txn[t].shed /\ r.ckpt = k
  BY DEF Inv, Typed, TypeOK, Transactions
<1>5. UNCHANGED <<applyPtr, baseline, left, writer, blind, reused, job>> /\ txn'[t] = r
  BY DEF Put, Frame, rest, Inv, Typed, TypeOK
<1>6. IdsKept(t)'
  <2>1. IdsKept(t)
    BY DEF Inv, UndoInv, TransactionsInv
  <2>2. /\ txn'[t].dir = TRUE /\ txn'[t].plan = txn[t].plan /\ txn'[t].rec = txn[t].rec
        /\ txn'[t].shed = txn[t].shed /\ baseline' = baseline /\ reused' = reused
    BY <1>3, <1>4, <1>5
  <2>3. QED
    BY <2>1, <2>2 DEF IdsKept, IdFor
<1>7. Undone(t)'
  BY <1>3, <1>4, <1>5 DEF Inv, UndoInv, TransactionsInv, Undone, CanBeUndone, Complete
<1>12. SavedAsPlanned(t)'
  BY <1>3, <1>4, <1>5 DEF SavedAsPlanned, AsPlanned
<1>8. SavedFirst(t)'
  BY <1>3, <1>4, <1>5 DEF Inv, UndoInv, TransactionsInv, SavedFirst, Complete
<1>9. applyPtr = t =>
        /\ r.rec # None /\ r.rec.mode = "apply"
        /\ t \notin reused => r.plan # None /\ "manifest" \in r.files /\ r.ckpt.state \in {"full", "spoilt"}
  BY <1>4 DEF Inv, UndoInv, PointerInv
<1>10. ASSUME left # None, Own(left.job) = t, t \notin reused PROVE LeftLog(left.job)'
  <2>0. SUFFICES ASSUME NEW l, l = left.job PROVE LeftLog(l)'
    BY <1>5
  <2>1. LeftLog(l)
    BY <1>10, <2>0 DEF Inv, UndoInv, LeftInv
  <2>2. ~IsRollback(l)
    <3>1. IsRollback(l) => IdFor(t, None)
      BY <1>10, <2>0 DEF Inv, UndoInv, LeftInv, Own
    <3>2. QED
      BY <1>2, <3>1, IdsApart
  <2>3. Own(l) = t /\ l.tx = t /\ l.plan = j.plan /\ ~txn[t].shed
    <3>1. ~txn[t].shed
      BY <1>2, <1>10 DEF SessionLog, Stored
    <3>2. QED
      BY <1>3, <1>10, <2>0, <2>1, <2>2, <3>1 DEF LeftLog, Own
  <2>4. Complete(t)'
    BY <1>3, <1>4, <1>5, <1>10, <2>1, <2>3 DEF LeftLog, Complete
  <2>5. txn'[t].ckpt.state = "full" => \A f \in Replaces(l.plan) \ blind' : txn'[t].ckpt.saved[f] = l.plan.before[f]
    BY <1>3, <1>4, <1>5, <2>3, SMTT(30) DEF AsPlanned, Replaces, Shipped
  <2>6. txn'[t].ckpt.state = "full" => Backed(l)'
    BY <2>2, <2>3, <2>5 DEF Backed, ToSave, Expected, Own, IsRollback
  <2>7. Complete(Own(l))' /\ (txn'[Own(l)].ckpt.state = "full" => Backed(l)')
    BY <2>3, <2>4, <2>6 DEF Complete, Own, IsRollback
  <2>8. txn'[l.tx].plan = l.plan
    BY <1>3, <1>4, <1>5, <2>3
  <2>9. QED
    BY <2>2, <2>7, <2>8 DEF LeftLog, Own, IsRollback
<1>11. QED
  BY <1>1, <1>3, <1>4, <1>6, <1>7, <1>8, <1>9, <1>10, <1>12, PutKeeps

\* A checkpoint that is complete holds what the preflight has found, unless it
\* was changed in between.
LEMMA CheckpointKeeps ==
  ASSUME Inv, NEW c \in Clients, Checkpoint(c)
  PROVE  UndoInv'
<1> DEFINE j == job[c]
<1>1. /\ pc[c] = "checkpoint" /\ pc[c] \in Planned /\ pc[c] \in Inside /\ pc[c] \in Fresh
      /\ UNCHANGED <<root, job, reused, left, writer, raced, blind>> /\ Frame(c)
  BY DEF Checkpoint, Frame, rest, Planned, Inside, Unplanned, Fresh
<1>2. SessionLog(j, "checkpoint") /\ j \in Jobs /\ Own(j) \in TxnIds
  BY <1>1, PlannedLog
<1>3. CASE Raise(c) /\ UNCHANGED workdir
  BY <1>1, <1>3, ErrorKeeps
<1>4. SUFFICES ASSUME NEW t \in TxnIds, t = Own(j),
                      NEW q, q = CASE j.kind = "apply" -> "applying" [] j.kind = "recover" -> "validate"
                                   [] OTHER -> "record"
               PROVE  UndoInv'
  BY <1>2
<1> DEFINE full == [state |-> "full", saved |-> [f \in Files |-> IF f \in ToSave(j) THEN root[f] ELSE "absent"]]
           cut == [NoCkpt EXCEPT !.state = IF txn[t].ckpt.state \in {"full", "spoilt"} THEN "spoilt" ELSE "torn"]
<1>5. ToSave(j) \subseteq Touched(j.plan) /\ ToSave(j) \subseteq Files
  BY DEF ToSave, Touched, Creates, Replaces, Shipped
<1>6. /\ full \in Checkpoints /\ full.state = "full"
      /\ \A f \in ToSave(j) \ blind : full.saved[f] = Expected(j, f)
      /\ \A f \in Files \ ToSave(j) : full.saved[f] = "absent"
  <2>1. full \in Checkpoints
    BY DEF Checkpoints, Inv, Typed, TypeOK, Contents
  <2>2. \A f \in ToSave(j) : full.saved[f] = root[f]
    BY <1>5
  <2>3. QED
    BY <1>2, <1>5, <2>1, <2>2 DEF SessionLog, Protected
<1>7. /\ cut \in Checkpoints /\ cut.state \in {"torn", "spoilt"}
      /\ Complete(t) => cut.state = "spoilt"
  BY DEF NoCkpt, Checkpoints, Contents, Complete
<1> HIDE DEF full, cut
<1>8. \/ Put(t, [txn[t] EXCEPT !.ckpt = full]) /\ Goto(c, q)
      \/ /\ Put(t, [txn[t] EXCEPT !.ckpt = full]) \/ Put(t, [txn[t] EXCEPT !.ckpt = cut]) \/ UNCHANGED workdir
         /\ Raise(c)
  BY <1>4 DEF Checkpoint, Save, SaveTorn, full, cut
<1>9. \/ q = "applying" /\ j.kind = "apply"
      \/ q = "validate" /\ j.kind = "recover"
      \/ q = "record" /\ j.kind = "rollback"
  BY <1>2, <1>4 DEF Jobs
<1>10. ASSUME NEW k \in {full, cut}, NEW r, r = [txn[t] EXCEPT !.ckpt = k], Put(t, r),
              Raise(c) \/ (Goto(c, q) /\ k = full)
       PROVE  UndoInv'
  <2>1. txn[t] \in Transactions /\ k \in Checkpoints
    BY <1>6, <1>7 DEF Inv, Typed, TypeOK
  <2>2. /\ r \in Transactions /\ r.dir = txn[t].dir /\ r.plan = txn[t].plan /\ r.rec = txn[t].rec
        /\ r.files = txn[t].files /\ r.shed = txn[t].shed /\ r.ckpt = k
    BY <1>10, <2>1 DEF Transactions
  <2>3. txn'[t] = r /\ (\A u \in TxnIds \ {t} : txn'[u] = txn[u]) /\ UNCHANGED <<applyPtr, lastPtr, baseline>>
    BY <1>10 DEF Put, Inv, Typed, TypeOK
  <2>4. txn[t].dir /\ txn[j.tx].plan = j.plan /\ baseline # None
    BY <1>2, <1>4 DEF SessionLog, Stored, Delivered
  <2>5. ASSUME Goto(c, q), k = full PROVE Log(c)'
    <3>1. pc'[c] = q
      BY <1>9, <2>5, GotoTyped DEF Inv, Typed, Inside
    <3>2. OnRoute(j, q)'
      BY <1>1, <1>2, <1>9 DEF SessionLog, OnRoute, Route, Fresh, IsRollback, IdFor
    <3>3. Stored(j, q)'
      <4>1. txn'[Own(j)].dir /\ txn'[j.tx].plan = j.plan /\ txn'[j.tx].files = txn[j.tx].files
        BY <1>1, <1>4, <2>2, <2>3, <2>4, PlannedLog
      <4>2. j.kind = "apply" => "manifest" \in txn[j.tx].files
        BY <1>2 DEF SessionLog, Stored
      <4>3. Own(j) \notin reused => ~txn'[Own(j)].shed
        BY <1>2, <1>4, <2>2, <2>3 DEF SessionLog, Stored
      <4>4. QED
        BY <1>1, <1>9, <2>3, <2>4, <4>1, <4>2, <4>3 DEF Stored, Writing, Delivered, Own, IsRollback
    <3>4. Protected(j, q)'
      <4>1. q \notin {"checkpoint", "extract"}
        BY <1>9
      <4>2. txn'[Own(j)].ckpt.state = "full" /\ Backed(j)'
        <5>1. /\ txn'[Own(j)].ckpt = full /\ blind' = blind /\ UNCHANGED job
          BY <1>1, <1>4, <2>2, <2>3, <2>5
        <5>2. \A f \in ToSave(j) \ blind : full.saved[f] = Expected(j, f)
          BY <1>6
        <5>3. QED
          BY <1>6, <5>1, <5>2 DEF Backed, ToSave, Expected, Own, IsRollback
      <4>3. QED
        BY <1>1, <4>1, <4>2 DEF Protected, Own, IsRollback
    <3>5. Noticed(j, q)'
      BY <1>9 DEF Noticed, Writing
    <3>6. Unused(j, q)'
      BY <1>1, <1>2, <1>9, <2>3 DEF SessionLog, Unused, Fresh, Untouched, Own, IsRollback
    <3>7. Progress(j, q)'
      BY <1>1, <1>2, <1>9 DEF SessionLog, Progress, Delivered, Result, Answered, IsRollback
    <3>8. QED
      BY <1>9, <3>1, <3>2, <3>3, <3>4, <3>5, <3>6, <3>7 DEF Log, SessionLog, Unplanned
  <2>6. q \in Places
    BY <1>9 DEF Places, Inside
  <2>7. CASE j.kind = "recover"
    <3>1. Complete(t) => k.state \in {"full", "spoilt"}
      BY <1>6, <1>7
    <3>2. AsPlanned(k, j.plan)
      BY <1>6, <1>7, <2>7 DEF AsPlanned, ToSave, Expected, IsRollback
    <3>3. QED
      BY <1>1, <1>4, <1>10, <2>1, <2>5, <2>6, <2>7, <3>1, <3>2, RecheckKeeps
  <2>8. CASE j.kind # "recover"
    <3>1. r.plan # None => IdFor(t, r.plan.arch) /\ baseline # None
      BY <2>2 DEF Inv, UndoInv, TransactionsInv, IdsKept
    <3>2. t \notin reused => AsPlanned(k, r.plan)
      <4>1. CASE j.kind = "apply"
        <5>1. r.plan = j.plan
          BY <1>4, <2>2, <2>4, <4>1 DEF Own, IsRollback
        <5>2. QED
          BY <1>6, <1>7, <4>1, <5>1 DEF AsPlanned, ToSave, Expected, IsRollback
      <4>2. CASE j.kind = "rollback"
        <5>1. IdFor(t, None)
          BY <1>1, <1>4, <4>2, RollbackApart DEF IsRollback
        <5>2. r.plan # None => r.plan.arch \in Archives
          BY <2>2 DEF Transactions, Plans
        <5>3. r.plan = None
          BY <3>1, <5>1, <5>2, IdsApart
        <5>4. QED
          BY <5>3 DEF AsPlanned
      <4>3. QED
        BY <1>2, <2>8, <4>1, <4>2 DEF Jobs
    <3>3. QED
      BY <1>1, <1>4, <1>10, <2>2, <2>4, <2>5, <2>6, <2>8, <3>1, <3>2, FreshPut
  <2>9. QED
    BY <2>7, <2>8
<1>11. QED
  BY <1>3, <1>8, <1>10

\* The baseline is taken before any session has written.
LEMMA EnsureBaselineKeeps ==
  ASSUME Inv, NEW c \in Clients, EnsureBaseline(c)
  PROVE  UndoInv'
<1> DEFINE j == job[c]
<1>1. /\ pc[c] = "baseline" /\ pc[c] \in Planned /\ pc[c] \in Inside
      /\ UNCHANGED <<root, job, reused, left, writer, raced, blind>>
  BY DEF EnsureBaseline, Call, Frame, rest, Planned, Inside, Unplanned
<1>2. SessionLog(j, "baseline") /\ j \in Jobs
  BY <1>1, PlannedLog
<1>3. j.kind = "apply"
  BY <1>2 DEF SessionLog, OnRoute, Route, Writing, Delivered, Jobs
<1>4. CASE Raise(c) /\ UNCHANGED workdir
  BY <1>1, <1>4, ErrorKeeps
<1>5. ASSUME baseline' = IF baseline = None THEN root ELSE baseline, UNCHANGED <<txn, applyPtr, lastPtr>>,
             Raise(c) \/ Goto(c, "mkdir")
      PROVE  UndoInv'
  <2>1. baseline' # None
    BY <1>5, NoneAssumption DEF Inv, Typed, TypeOK
  <2>2. \A d \in Clients \ {c} : pc'[d] = pc[d]
    BY <1>5, RaiseTyped, GotoTyped DEF Inv, Typed, Inside
  <2>3. TransactionsInv'
    BY <1>1, <1>5, <2>1
       DEF Inv, UndoInv, TransactionsInv, IdsKept, Undone, CanBeUndone, SavedAsPlanned, SavedFirst, Complete
  <2>4. PointerInv'
    BY <1>1, <1>5 DEF Inv, UndoInv, PointerInv, Complete
  <2>5. RootInv'
    BY <1>1, <1>5 DEF Inv, UndoInv, RootInv, Pristine, BaselineIsPristine
  <2>6. CASE Raise(c)
    <3>1. pc'[c] \in {"except", "finally"} /\ (pc'[c] = "except" => job[c].kind # "recover")
      BY <2>6, RaiseTyped DEF Inv, Typed
    <3>2. Log(c)'
      BY <1>1, <1>5, <3>1, QuietErrorLog
    <3>3. SessionsInv'
      BY <1>1, <2>2, <3>2, SessionsFrame, PlannedLog
    <3>4. LeftInv'
      BY <1>1, <1>5, <2>1, <2>2, NotLeft, LeftFrameInv
    <3>5. QED
      BY <2>3, <2>4, <2>5, <3>3, <3>4 DEF UndoInv
  <2>7. CASE Goto(c, "mkdir")
    <3>1. pc'[c] = "mkdir"
      BY <2>7, GotoTyped DEF Inv, Typed, Inside
    <3>2. OnRoute(j, "mkdir")'
      BY <1>1, <1>2, <1>3 DEF SessionLog, OnRoute, Route, Fresh, IsRollback, IdFor
    <3>3. Stored(j, "mkdir")'
      BY <1>1, <1>2, <1>3, <1>5, <2>1 DEF SessionLog, Stored, Writing, Delivered, Own, IsRollback
    <3>4. Protected(j, "mkdir")' /\ Noticed(j, "mkdir")'
      BY DEF Protected, Noticed, Writing
    <3>5. Unused(j, "mkdir")'
      BY <1>1, <1>2, <1>3, <1>5 DEF SessionLog, Unused, Fresh, Untouched, Own, IsRollback
    <3>6. Progress(j, "mkdir")'
      BY <1>1, <1>2 DEF SessionLog, Progress, Delivered, Result, Answered, IsRollback
    <3>7. Log(c)'
      BY <3>1, <3>2, <3>3, <3>4, <3>5, <3>6 DEF Log, SessionLog, Unplanned
    <3>8. SessionsInv'
      BY <1>1, <2>2, <3>7, SessionsFrame, PlannedLog
    <3>9. LeftInv'
      BY <1>1, <1>5, <2>1, <2>2, NotLeft, LeftFrameInv
    <3>10. QED
      BY <2>3, <2>4, <2>5, <3>8, <3>9 DEF UndoInv
  <2>8. QED
    BY <1>5, <2>6, <2>7
<1>6. QED
  BY <1>1, <1>4, <1>5 DEF EnsureBaseline, Call

\* A record is written by one of the sessions whose transaction it is, and says
\* applying or applied only of what can be undone.
LEMMA StatusPut ==
  ASSUME Inv, NEW c \in Clients, pc[c] \in Planned, NEW t \in TxnIds, t = Own(job[c]),
         NEW s \in Statuses, NEW w \in BOOLEAN, PutStatus(c, s, w), Frame(c),
         NEW q \in Places, Raise(c) \/ (Goto(c, q) /\ Log(c)'),
         ~IsRollback(job[c]) /\ s \in {"applying", "applied"} /\ t \notin reused =>
           CanBeUndone(t) /\ txn[t].ckpt.state = "full",
         pc[c] = "except" => s = "failed" /\ pc'[c] = "finally",
         t \notin reused /\ ~txn[t].dir => Untouched(t)
  PROVE  UndoInv'
<1>1. PICK m : m = IF IsRollback(job[c]) THEN "rollback" ELSE "apply"
  OBVIOUS
<1>0. PICK rec : rec = RecordOf(m, job[c].plan, s, w)
  OBVIOUS
<1>2. PICK r : r = [txn[t] EXCEPT !.dir = TRUE, !.rec = rec]
  OBVIOUS
<1>3. /\ rec \in Records /\ rec.status = s /\ rec.arch = job[c].plan.arch
      /\ rec.mode = IF IsRollback(job[c]) THEN "rollback" ELSE "apply"
  <2>1. m \in {"apply", "rollback"} /\ job[c].plan \in Plans
    BY <1>1, PlannedLog
  <2>2. rec \in Records
    BY <1>0, <2>1, RecordTyped
  <2>3. QED
    BY <1>0, <1>1, <2>2 DEF RecordOf
<1>4. /\ r \in Transactions /\ r.dir = TRUE /\ r.rec = rec /\ r.plan = txn[t].plan
      /\ r.files = txn[t].files /\ r.ckpt = txn[t].ckpt /\ r.shed = txn[t].shed
  <2>1. txn[t] \in Transactions
    BY DEF Inv, Typed, TypeOK
  <2>2. QED
    BY <1>2, <1>3, <2>1 DEF Transactions
<1>5. Put(t, r)
  BY <1>0, <1>1, <1>2 DEF PutStatus
<1>6. /\ UNCHANGED <<root, applyPtr, baseline, left, writer, blind, reused, job>>
      /\ txn'[t] = r /\ rec # None
  BY <1>3, <1>5, NoneAssumption DEF Put, Frame, rest, Inv, Typed, TypeOK
<1>7. /\ IdsKept(t) /\ Undone(t) /\ SavedAsPlanned(t) /\ SavedFirst(t)
      /\ t \notin reused => ~txn[t].shed
  BY PlannedLog DEF Inv, UndoInv, TransactionsInv, SessionLog, Stored
<1>8. IdsKept(t)'
  <2>1. IdFor(t, IF rec.mode = "apply" THEN rec.arch ELSE None)
    BY <1>3, RollbackApart
  <2>2. QED
    BY <1>4, <1>6, <1>7, <2>1 DEF IdsKept, IdFor
<1>14. SavedAsPlanned(t)'
  BY <1>4, <1>6, <1>7 DEF SavedAsPlanned
<1>9. Undone(t)'
  BY <1>3, <1>4, <1>6 DEF Undone, CanBeUndone, Complete
<1>10. SavedFirst(t)'
  BY <1>4, <1>6, <1>7 DEF SavedFirst, Complete, Untouched
<1>11. ASSUME applyPtr = t
       PROVE  /\ r.rec.mode = "apply"
              /\ t \notin reused => r.plan # None /\ "manifest" \in r.files /\ r.ckpt.state \in {"full", "spoilt"}
  <2>1. /\ txn[t].rec # None /\ txn[t].rec.mode = "apply"
        /\ t \notin reused => txn[t].plan # None /\ "manifest" \in txn[t].files /\ Complete(t)
    BY <1>11 DEF Inv, UndoInv, PointerInv
  <2>2. IdFor(t, txn[t].rec.arch) /\ txn[t].rec.arch \in Archives
    BY <1>7, <2>1 DEF IdsKept, Inv, Typed, TypeOK, Transactions, Records
  <2>3. ~IsRollback(job[c])
    BY <2>2, RollbackApart, IdsApart
  <2>4. QED
    BY <1>3, <1>4, <2>1, <2>3 DEF Complete
<1>12. ASSUME left # None, Own(left.job) = t, t \notin reused PROVE LeftLog(left.job)'
  <2>1. SUFFICES ASSUME NEW l, l = left.job PROVE LeftLog(l)'
    BY <1>6
  <2>2. LeftLog(l) /\ Own(l) = t
    BY <1>12, <2>1 DEF Inv, UndoInv, LeftInv
  <2>3. txn[t].dir
    BY <1>12, <2>1 DEF Untouched
  <2>8. ~txn[t].shed
    BY <1>7, <1>12
  <2>4. Complete(Own(l))' /\ (txn'[Own(l)].ckpt.state = "full" => Backed(l)')
    BY <1>4, <1>6, <2>2, <2>3, <2>8 DEF LeftLog, Complete, Backed
  <2>5. ~IsRollback(l) => txn'[l.tx].plan = l.plan
    BY <1>4, <1>6, <2>2, <2>3, <2>8 DEF LeftLog, Own
  <2>6. ASSUME IsRollback(l)
        PROVE  /\ txn'[l.id].rec # None /\ txn'[l.id].rec.status \in {"rolling_back", "failed"}
               /\ \A d \in Clients : pc'[d] \in Planned /\ Own(job'[d]) = l.id => pc'[d] = "except"
    <3>1. l.id = t
      BY <2>2, <2>6 DEF Own
    <3>2. pc[c] = "except"
      BY <1>12, <2>1, <2>6, <3>1, NotLeft
    <3>3. pc'[c] \notin Planned
      BY <3>2 DEF Planned, Inside
    <3>4. \A d \in Clients \ {c} : pc'[d] = pc[d]
      BY RaiseTyped, GotoTyped DEF Inv, Typed, Places
    <3>5. \A d \in Clients : pc'[d] \in Planned /\ Own(job'[d]) = l.id => pc'[d] = "except"
      BY <1>6, <2>2, <2>6, <3>3, <3>4 DEF LeftLog
    <3>6. QED
      BY <1>3, <1>4, <1>6, <3>1, <3>2, <3>5
  <2>7. QED
    BY <2>4, <2>5, <2>6 DEF LeftLog, Own, IsRollback
<1>13. QED
  BY <1>4, <1>5, <1>6, <1>8, <1>9, <1>10, <1>11, <1>12, <1>14, PutKeeps

\* What a session has put into its record when it goes on.
LEMMA StatusWritten ==
  ASSUME Inv, NEW c \in Clients, pc[c] \in Planned, NEW t \in TxnIds, t = Own(job[c]),
         NEW s \in Statuses, PutStatus(c, s, TRUE)
  PROVE  /\ txn'[t].rec # None /\ txn'[t].rec.status = s /\ txn'[t].dir
         /\ txn'[t].rec.mode = IF IsRollback(job[c]) THEN "rollback" ELSE "apply"
         /\ txn'[t].plan = txn[t].plan /\ txn'[t].files = txn[t].files /\ txn'[t].ckpt = txn[t].ckpt
         /\ txn'[t].shed = txn[t].shed
         /\ \A u \in TxnIds \ {t} : txn'[u] = txn[u]
         /\ UNCHANGED <<applyPtr, lastPtr, baseline>>
<1>1. PICK m : m = IF IsRollback(job[c]) THEN "rollback" ELSE "apply"
  OBVIOUS
<1>0. PICK rec : rec = RecordOf(m, job[c].plan, s, TRUE)
  OBVIOUS
<1>2. PICK r : r = [txn[t] EXCEPT !.dir = TRUE, !.rec = rec]
  OBVIOUS
<1>3. /\ rec \in Records /\ rec.status = s
      /\ rec.mode = IF IsRollback(job[c]) THEN "rollback" ELSE "apply"
  <2>1. m \in {"apply", "rollback"} /\ job[c].plan \in Plans
    BY <1>1, PlannedLog
  <2>2. rec \in Records
    BY <1>0, <2>1, RecordTyped
  <2>3. QED
    BY <1>0, <1>1, <2>2 DEF RecordOf
<1>4. /\ r.dir = TRUE /\ r.rec = rec /\ r.plan = txn[t].plan
      /\ r.files = txn[t].files /\ r.ckpt = txn[t].ckpt /\ r.shed = txn[t].shed
  BY <1>2 DEF Inv, Typed, TypeOK, Transactions
<1>5. Put(t, r)
  BY <1>0, <1>1, <1>2 DEF PutStatus
<1>6. /\ txn'[t] = r /\ \A u \in TxnIds \ {t} : txn'[u] = txn[u]
      /\ UNCHANGED <<applyPtr, lastPtr, baseline>>
  BY <1>5 DEF Put, Inv, Typed, TypeOK
<1>7. QED
  BY <1>3, <1>4, <1>6, NoneAssumption

\* A session records how far it is.
LEMMA RecordKeeps ==
  ASSUME Inv, NEW c \in Clients, PutRecord(c) \/ Applying(c) \/ MarkDone(c)
  PROVE  UndoInv'
<1> DEFINE j == job[c]
<1>1. PICK p, s, q : /\ Record(c, p, s, q)
                     /\ \/ p = "record" /\ ~IsRollback(j) /\ s = "prepared" /\ q = "preflight"
                        \/ p = "record" /\ IsRollback(j) /\ s = "rolling_back" /\ q = "script"
                        \/ p = "applying" /\ s = "applying" /\ q = "script"
                        \/ p = "applying" /\ s = "applying" /\ j.todo = {} /\ q = "mark"
                        \/ p = "mark" /\ ~IsRollback(j) /\ s = "applied" /\ q = "ptr_apply"
                        \/ p = "mark" /\ IsRollback(j) /\ s = "rolled_back" /\ q = "ptr_last"
  BY DEF PutRecord, Applying, MarkDone
<1>2. /\ pc[c] = p /\ pc[c] \in Planned /\ pc[c] \in Inside /\ s \in Statuses
      /\ UNCHANGED <<root, job, reused, left, writer, raced, blind>> /\ Frame(c)
  BY <1>1 DEF Record, Upload, Call, Frame, rest, Planned, Inside, Unplanned, Statuses
<1>3. SessionLog(j, p) /\ j \in Jobs /\ j.plan \in Plans
  BY <1>2, PlannedLog
<1>4. p = "applying" => ~IsRollback(j)
  BY <1>3 DEF SessionLog, OnRoute, Route, Writing, Delivered, IsRollback
<1>5. PICK t \in TxnIds : t = Own(j)
  BY <1>2, PlannedLog
<1>6. txn[t].dir
  BY <1>1, <1>3, <1>5 DEF SessionLog, Stored
<1>7. ~IsRollback(j) => t = j.tx
  BY <1>5 DEF Own
<1>8. ASSUME ~IsRollback(j), s \in {"applying", "applied"}
      PROVE  CanBeUndone(t) /\ txn[t].ckpt.state = "full"
  <2>1. p \in {"applying", "mark"}
    BY <1>1, <1>8
  <2>2. txn[t].plan = j.plan /\ "manifest" \in txn[t].files /\ txn[t].ckpt.state = "full" /\ Backed(j)
    BY <1>3, <1>5, <1>7, <1>8, <2>1 DEF SessionLog, Stored, Protected, Delivered
  <2>3. QED
    BY <1>3, <1>5, <1>8, <2>2, NoneAssumption DEF CanBeUndone, Complete, Backed, ToSave, Expected
<1>9. ASSUME PutStatus(c, s, TRUE), Goto(c, q) PROVE Log(c)'
  <2>1. pc'[c] = q /\ q \in Planned
    BY <1>1, <1>9, GotoTyped DEF Inv, Typed, Inside, Planned, Unplanned
  <2>2. /\ txn'[t].rec # None /\ txn'[t].rec.status = s /\ txn'[t].dir
        /\ txn'[t].rec.mode = IF IsRollback(j) THEN "rollback" ELSE "apply"
        /\ txn'[t].plan = txn[t].plan /\ txn'[t].files = txn[t].files /\ txn'[t].ckpt = txn[t].ckpt
        /\ txn'[t].shed = txn[t].shed
        /\ \A u \in TxnIds \ {t} : txn'[u] = txn[u]
        /\ UNCHANGED <<applyPtr, lastPtr, baseline>>
    BY <1>2, <1>5, <1>9, StatusWritten
  <2>3. txn'[j.tx].plan = txn[j.tx].plan /\ txn'[j.tx].files = txn[j.tx].files
    BY <1>2, <2>2, PlannedLog
  <2>4. OnRoute(j, q)'
    <3>1. p \in Route(j.kind) => q \in Route(j.kind)
      BY <1>1, <1>3, <1>4 DEF Route, Fresh, Writing, Delivered, IsRollback, Jobs
    <3>2. QED
      BY <1>2, <1>3, <3>1 DEF SessionLog, OnRoute, IsRollback, IdFor
  <2>5. Stored(j, q)'
    BY <1>1, <1>2, <1>3, <1>4, <1>5, <1>6, <2>2, <2>3
       DEF SessionLog, Stored, Writing, Delivered, Own, IsRollback
  <2>6. Protected(j, q)'
    <3>1. CASE q \in {"script", "mark"}
      <4>1. txn[t].ckpt.state = "full" /\ Backed(j)
        BY <1>1, <1>3, <1>5, <3>1 DEF SessionLog, Protected
      <4>2. txn'[Own(j)].ckpt = txn[Own(j)].ckpt /\ UNCHANGED <<job, blind>>
        BY <1>2, <1>5, <2>2
      <4>3. Backed(j)'
        BY <4>1, <4>2 DEF Backed, ToSave, Expected, Own, IsRollback
      <4>4. QED
        BY <1>2, <1>5, <2>2, <3>1, <4>1, <4>3 DEF Protected, Writing, Own, IsRollback
    <3>2. CASE q \notin {"script", "mark"}
      BY <1>1, <3>2 DEF Protected, Writing
    <3>3. QED
      BY <3>1, <3>2
  <2>7. Noticed(j, q)'
    BY <1>1, <1>2, <1>4, <1>5, <2>2 DEF Noticed, Unfinished, Writing, Own, IsRollback
  <2>8. Unused(j, q)'
    BY <1>1, <1>2, <1>3, <1>5, <2>2 DEF SessionLog, Unused, Fresh, Untouched, Own, IsRollback
  <2>9. Progress(j, q)'
    BY <1>1, <1>2, <1>3 DEF SessionLog, Progress, Delivered, Result, Answered, IsRollback
  <2>10. QED
    BY <2>1, <2>4, <2>5, <2>6, <2>7, <2>8, <2>9 DEF Log, SessionLog, Planned
<1>10. CASE Raise(c) /\ UNCHANGED workdir
  BY <1>2, <1>10, ErrorKeeps
<1>11. ASSUME NEW w \in BOOLEAN, PutStatus(c, s, w), Raise(c) \/ (Goto(c, q) /\ w = TRUE)
       PROVE  UndoInv'
  <2>1. q \in Places /\ pc[c] # "except"
    BY <1>1, <1>2 DEF Places, Inside
  <2>2. QED
    BY <1>2, <1>5, <1>6, <1>8, <1>9, <1>11, <2>1, StatusPut
<1>12. QED
  BY <1>1, <1>10, <1>11 DEF Record, Upload, Call

\* The handler records a failure, or fails.
LEMMA RecordFailureKeeps ==
  ASSUME Inv, NEW c \in Clients, RecordFailure(c)
  PROVE  UndoInv'
<1>1. /\ pc[c] = "except" /\ pc[c] \in Planned /\ pc'[c] = "finally" /\ Frame(c)
      /\ \A d \in Clients \ {c} : pc'[d] = pc[d]
  BY GotoTyped DEF RecordFailure, Inv, Typed, Planned, Inside, Unplanned, Ended
<1>2. CASE UNCHANGED workdir
  BY <1>1, <1>2, EndKeeps DEF Frame, rest, Ended
<1>3. ASSUME NEW w \in BOOLEAN, PutStatus(c, "failed", w) PROVE UndoInv'
  <2>1. PICK t \in TxnIds : t = Own(job[c])
    BY <1>1, PlannedLog
  <2>2. t \notin reused /\ ~txn[t].dir => Untouched(t)
    <3>1. SessionLog(job[c], "except") /\ job[c] \in Jobs
      BY <1>1, PlannedLog
    <3>2. job[c].kind # "recover"
      BY <3>1 DEF SessionLog, OnRoute, Route, Writing, Delivered
    <3>3. QED
      BY <2>1, <3>1, <3>2 DEF SessionLog, Unused
  <2>3. Goto(c, "finally") /\ "finally" \in Places /\ "failed" \in Statuses
    BY DEF RecordFailure, Places, Ended, Statuses
  <2>4. Log(c)'
    BY <1>1, NoLog DEF Ended
  <2>5. QED
    BY <1>1, <1>3, <2>1, <2>2, <2>3, <2>4, StatusPut
<1>4. QED
  BY <1>2, <1>3 DEF RecordFailure

\* A recovery goes on if the checkpoint that it finds is what it would save.
LEMMA ValidateKeeps ==
  ASSUME Inv, NEW c \in Clients, Validate(c)
  PROVE  UndoInv'
<1> DEFINE j == job[c]
<1>1. /\ pc[c] = "validate" /\ pc[c] \in Planned /\ pc[c] \in Inside
      /\ UNCHANGED <<root, job, reused, left, writer, raced, blind>>
  BY DEF Validate, EnsureArtifact, PutFile, Upload, Call, Frame, Local, rest, Planned, Inside, Unplanned
<1>2. SessionLog(j, "validate") /\ j \in Jobs
  BY <1>1, PlannedLog
<1>3. j.kind = "recover"
  BY <1>2 DEF SessionLog, OnRoute, Route, Fresh, Writing, Delivered, Jobs
<1>4. PICK t \in TxnIds : t = Own(j) /\ t = j.tx
  BY <1>1, <1>3, PlannedLog DEF Own, IsRollback
<1>5. txn[t].dir /\ txn[t].plan = j.plan /\ baseline # None
  BY <1>2, <1>4 DEF SessionLog, Stored, Delivered
<1>11. t \notin reused => ~txn[t].shed
  BY <1>2, <1>4 DEF SessionLog, Stored
<1>6. CASE Raise(c) /\ UNCHANGED workdir
  BY <1>1, <1>6, ErrorKeeps
<1>10. txn[t] \in Transactions
  BY DEF Inv, Typed, TypeOK
<1>7. ASSUME NEW F \in {txn[t].files \cup {"artifact"}, txn[t].files \ {"artifact"}},
             NEW r, r = [txn[t] EXCEPT !.files = F], Put(t, r), Undoable(t), Frame(c),
             Raise(c) \/ Goto(c, "applying")
      PROVE  UndoInv'
  <2>0. F \subseteq {"artifact", "manifest"} /\ ("manifest" \in txn[t].files => "manifest" \in F)
    BY <1>10 DEF Transactions
  <2>1. /\ r \in Transactions /\ r.dir = txn[t].dir /\ r.plan = txn[t].plan /\ r.rec = txn[t].rec
        /\ r.ckpt = txn[t].ckpt /\ r.shed = txn[t].shed
        /\ "manifest" \in txn[t].files => "manifest" \in r.files
    BY <1>7, <1>10, <2>0 DEF Transactions
  <2>2. txn'[t] = r /\ UNCHANGED <<applyPtr, baseline, lastPtr>>
    BY <1>7 DEF Put, Inv, Typed, TypeOK
  <2>3. IdsKept(t)' /\ Undone(t)' /\ SavedAsPlanned(t)' /\ SavedFirst(t)'
    <3>1. IdsKept(t) /\ Undone(t) /\ SavedAsPlanned(t) /\ SavedFirst(t)
      BY DEF Inv, UndoInv, TransactionsInv
    <3>2. IdsKept(t)'
      BY <1>1, <1>5, <2>1, <2>2, <3>1 DEF IdsKept, IdFor
    <3>3. Undone(t)'
      BY <1>1, <2>1, <2>2, <3>1 DEF Undone, CanBeUndone, Complete
    <3>4. SavedFirst(t)'
      BY <1>1, <2>1, <2>2, <3>1 DEF SavedFirst, Complete
    <3>6. SavedAsPlanned(t)'
      BY <1>1, <2>1, <2>2, <3>1 DEF SavedAsPlanned
    <3>5. QED
      BY <3>2, <3>3, <3>4, <3>6
  <2>4. applyPtr = t =>
          /\ r.rec # None /\ r.rec.mode = "apply"
          /\ t \notin reused => r.plan # None /\ "manifest" \in r.files /\ r.ckpt.state \in {"full", "spoilt"}
    BY <2>1 DEF Inv, UndoInv, PointerInv, Complete
  <2>5. ASSUME left # None, Own(left.job) = t, t \notin reused PROVE LeftLog(left.job)'
    <3>1. SUFFICES ASSUME NEW l, l = left.job PROVE LeftLog(l)'
      BY <1>1
    <3>2. LeftLog(l) /\ Own(l) = t
      BY <2>5, <3>1 DEF Inv, UndoInv, LeftInv
    <3>3. ~IsRollback(l)
      BY <1>1, <2>5, <3>1, <1>4, NotLeft, <3>2 DEF Own
    <3>4. Complete(Own(l))' /\ (txn'[Own(l)].ckpt.state = "full" => Backed(l)')
      BY <1>1, <1>5, <1>11, <2>1, <2>2, <2>5, <3>2 DEF LeftLog, Complete, Backed
    <3>5. txn'[l.tx].plan = l.plan
      BY <1>5, <1>11, <2>1, <2>2, <2>5, <3>2, <3>3 DEF LeftLog, Own
    <3>6. QED
      BY <3>3, <3>4, <3>5 DEF LeftLog, Own, IsRollback
  <2>6. ASSUME Goto(c, "applying") PROVE Log(c)'
    <3>1. pc'[c] = "applying"
      BY <2>6, GotoTyped DEF Inv, Typed, Inside
    <3>2. OnRoute(j, "applying")'
      BY <1>1, <1>2, <1>3 DEF SessionLog, OnRoute, Route, Fresh, IsRollback, IdFor
    <3>3. Stored(j, "applying")'
      <4>1. baseline # None /\ txn'[t].dir /\ txn'[j.tx].plan = j.plan /\ "manifest" \in txn'[j.tx].files
        BY <1>1, <1>3, <1>4, <1>5, <1>7, <2>1, <2>2, SMTT(30) DEF Undoable
      <4>2. Own(j) = t /\ ~IsRollback(j) /\ baseline' = baseline /\ UNCHANGED job
        BY <1>1, <1>3, <1>4, <1>5, <2>2 DEF IsRollback, Own
      <4>4. Own(j) \notin reused => ~txn'[Own(j)].shed
        BY <1>4, <1>11, <2>1, <2>2
      <4>3. QED
        BY <1>1, <4>1, <4>2, <4>4 DEF Stored, Delivered, IsRollback, Own
    <3>4. Protected(j, "applying")'
      <4>1. txn'[t].ckpt.state = "full" /\ \A f \in Replaces(j.plan) : txn'[t].ckpt.saved[f] = j.plan.before[f]
        BY <1>5, <1>7, <2>1, <2>2 DEF Undoable
      <4>2. Own(j) = t /\ ~IsRollback(j)
        BY <1>3, <1>4 DEF IsRollback
      <4>3. Backed(j)'
        BY <1>1, <4>1, <4>2 DEF Backed, ToSave, Expected, Own, IsRollback
      <4>4. QED
        BY <1>1, <4>1, <4>2, <4>3 DEF Protected, Own, IsRollback
    <3>5. Noticed(j, "applying")' /\ Unused(j, "applying")'
      BY DEF Noticed, Unused, Writing, Fresh
    <3>6. Progress(j, "applying")'
      BY <1>1, <1>2 DEF SessionLog, Progress, Delivered, Result, Answered, IsRollback
    <3>7. QED
      BY <3>1, <3>2, <3>3, <3>4, <3>5, <3>6 DEF Log, SessionLog, Unplanned
  <2>7. "applying" \in Places
    BY DEF Places, Inside
  <2>8. QED
    BY <1>1, <1>4, <1>5, <1>7, <2>1, <2>3, <2>4, <2>5, <2>6, <2>7, PutKeeps
<1>8. \/ Raise(c) /\ UNCHANGED workdir
      \/ /\ Undoable(t) /\ Frame(c) /\ (Raise(c) \/ Goto(c, "applying"))
         /\ \/ Put(t, [txn[t] EXCEPT !.files = txn[t].files \cup {"artifact"}])
            \/ Put(t, [txn[t] EXCEPT !.files = txn[t].files \ {"artifact"}])
  <2>1. j.tx = t /\ Own(j) = t
    BY <1>4
  <2>2. CASE EnsureArtifact(c) /\ Undoable(t)
    <3>1. [txn[t] EXCEPT !.files = @ \cup {"artifact"}] = [txn[t] EXCEPT !.files = txn[t].files \cup {"artifact"}]
      OBVIOUS
    <3>2. QED
      BY <2>1, <2>2, <3>1 DEF EnsureArtifact, PutFile, Upload, Call
  <2>3. QED
    BY <2>1, <2>2 DEF Validate, Local
<1>9. QED
  BY <1>6, <1>7, <1>8

-----------------------------------------------------------------------------
(* The pointers, and what retention deletes. *)

\* A call that changes one of the pointers.
LEMMA PointerStep ==
  ASSUME Inv, NEW c \in Clients, pc[c] \in Planned \ {"except"}, pc[c] \in Inside,
         UNCHANGED <<txn, baseline>>, Frame(c), PointerInv',
         NEW q \in Places, Raise(c) \/ (Goto(c, q) /\ Log(c)')
  PROVE  UndoInv'
<1>1. UNCHANGED <<root, job, left, writer, raced, blind, reused>>
  BY DEF Frame, rest
<1>2. \A d \in Clients \ {c} : pc'[d] = pc[d]
  BY RaiseTyped, GotoTyped DEF Inv, Typed, Places
<1>3. TransactionsInv' /\ RootInv'
  BY <1>1 DEF Inv, UndoInv, TransactionsInv, IdsKept, Undone, CanBeUndone, SavedAsPlanned, SavedFirst, Complete,
     RootInv, Pristine, BaselineIsPristine
<1>4. Log(c)'
  <2>1. CASE Raise(c)
    <3>1. pc'[c] \in {"except", "finally"} /\ (pc'[c] = "except" => job[c].kind # "recover")
      BY <2>1, RaiseTyped DEF Inv, Typed
    <3>2. QED
      BY <1>1, <3>1, QuietErrorLog
  <2>2. QED
    BY <2>1
<1>5. SessionsInv'
  BY <1>1, <1>2, <1>4, SessionsFrame, PlannedLog
<1>6. LeftInv'
  BY <1>1, <1>2, NotLeft, LeftFrameInv
<1>7. QED
  BY <1>3, <1>5, <1>6 DEF UndoInv

\* The pointer of rollback latest is moved to a transaction that is marked
\* applied, or away.
LEMMA PointersKeep ==
  ASSUME Inv, NEW c \in Clients, PointApply(c) \/ PointLast(c) \/ RemovePointer(c)
  PROVE  UndoInv'
<1> DEFINE j == job[c]
<1>1. /\ pc[c] \in {"ptr_apply", "ptr_last", "ptr_remove"}
      /\ pc[c] \in Planned /\ pc[c] # "except" /\ pc[c] \in Inside /\ Frame(c)
      /\ UNCHANGED <<root, job, left, writer, raced, blind, reused>>
  BY DEF PointApply, PointLast, RemovePointer, Upload, Call, Frame, rest, Planned, Inside, Unplanned
<1>2. PICK p : p = pc[c]
  OBVIOUS
<1>3. SessionLog(j, p) /\ j \in Jobs /\ j.tx \in TxnIds
  BY <1>1, <1>2, PlannedLog
<1>4. NoTxn \notin TxnIds /\ Garbled \notin TxnIds
  BY BoundsAssumption DEF NoTxn, Garbled, TxnIds
<1>5. CASE Raise(c) /\ UNCHANGED workdir
  BY <1>1, <1>5, ErrorKeeps
<1>6. ASSUME UNCHANGED <<txn, baseline>>, PointerInv',
             NEW q \in {"ptr_last", "ptr_remove", "retain"}, Raise(c) \/ Goto(c, q),
             q = "ptr_last" => p = "ptr_apply",
             q = "ptr_remove" => p = "ptr_last" /\ IsRollback(j),
             q = "retain" => p = "ptr_remove" \/ (p = "ptr_last" /\ ~IsRollback(j)),
             Goto(c, q) /\ q # "ptr_last" => lastPtr' = Own(j)
      PROVE  UndoInv'
  <2>1. q \in Places
    BY DEF Places, Inside
  <2>2. ASSUME Goto(c, q) PROVE Log(c)'
    <3>1. pc'[c] = q
      BY <2>1, <2>2, GotoTyped DEF Inv, Typed, Places
    <3>2. OnRoute(j, q)'
      <4>1. p \in Route(j.kind) => q \in Route(j.kind)
        BY <1>3, <1>6 DEF Route, Fresh, Writing, Delivered, IsRollback, Jobs
      <4>2. QED
        BY <1>1, <1>3, <4>1 DEF SessionLog, OnRoute, IsRollback, IdFor
    <3>3. Stored(j, q)'
      BY <1>1, <1>2, <1>3, <1>6 DEF SessionLog, Stored, Writing, Delivered, Own, IsRollback
    <3>4. Protected(j, q)' /\ Unused(j, q)'
      BY DEF Protected, Unused, Fresh, Writing
    <3>5. Noticed(j, q)'
      BY <1>1, <1>6, <2>2 DEF Noticed, Writing, Own, IsRollback
    <3>6. Progress(j, q)'
      <4>1. j.todo = {}
        BY <1>1, <1>2, <1>3 DEF SessionLog, Progress, Delivered
      <4>2. QED
        BY <1>1, <1>3, <1>6, <4>1 DEF SessionLog, Progress, Result, Answered, IsRollback
    <3>7. QED
      BY <3>1, <3>2, <3>3, <3>4, <3>5, <3>6 DEF Log, SessionLog, Unplanned
  <2>3. QED
    BY <1>1, <1>6, <2>1, <2>2, PointerStep
<1>7. CASE PointApply(c)
  <2>1. ASSUME applyPtr' \in {j.tx, NoTxn, Garbled}, UNCHANGED <<txn, lastPtr, baseline>> PROVE PointerInv'
    <3>1. p = "ptr_apply"
      BY <1>2, <1>7 DEF PointApply, Upload, Call
    <3>2. txn[j.tx].rec # None /\ txn[j.tx].rec.mode = "apply" /\ txn[j.tx].rec.status = "applied"
      BY <1>3, <3>1 DEF SessionLog, Noticed
    <3>5. ~IsRollback(j)
      BY <1>3, <3>1 DEF SessionLog, OnRoute, Route, Fresh, Writing, Delivered, IsRollback
    <3>3. j.tx \notin reused => ~txn[j.tx].shed /\ CanBeUndone(j.tx)
      BY <1>3, <3>2, <3>5 DEF Inv, UndoInv, TransactionsInv, Undone, SessionLog, Stored, Own
    <3>4. QED
      BY <1>1, <1>4, <2>1, <3>2, <3>3 DEF PointerInv, CanBeUndone, Complete
  <2>2. /\ p = "ptr_apply"
        /\ \/ /\ applyPtr' \in {j.tx, NoTxn, Garbled} /\ UNCHANGED <<txn, lastPtr, baseline>>
              /\ Goto(c, "ptr_last") \/ Raise(c)
           \/ Raise(c) /\ UNCHANGED workdir
    BY <1>2, <1>7 DEF PointApply, Upload, Call
  <2>3. QED
    BY <1>5, <1>6, <2>1, <2>2
<1>8. CASE PointLast(c)
  <2>1. PICK q : q = IF IsRollback(j) THEN "ptr_remove" ELSE "retain"
    OBVIOUS
  <2>2. ASSUME UNCHANGED <<txn, applyPtr, baseline>> PROVE PointerInv'
    BY <1>1, <2>2 DEF Inv, UndoInv, PointerInv, Complete
  <2>3. /\ p = "ptr_last"
        /\ \/ /\ UNCHANGED <<txn, applyPtr, baseline>>
              /\ (Goto(c, q) /\ lastPtr' = Own(j)) \/ Raise(c)
           \/ Raise(c) /\ UNCHANGED workdir
    BY <1>2, <1>8, <2>1 DEF PointLast, Upload, Call
  <2>4. ASSUME Raise(c), Goto(c, q) PROVE FALSE
    BY <2>1, <2>4, GotoTyped, RaiseTyped DEF Inv, Typed, Inside
  <2>5. QED
    BY <1>5, <1>6, <2>1, <2>2, <2>3, <2>4
<1>9. CASE RemovePointer(c)
  <2>1. /\ p = "ptr_remove"
        /\ \/ applyPtr' = NoTxn /\ UNCHANGED <<txn, lastPtr, baseline>> /\ (Goto(c, "retain") \/ Raise(c))
           \/ Raise(c) /\ UNCHANGED workdir
    BY <1>2, <1>9 DEF RemovePointer, Call
  <2>2. applyPtr' = NoTxn => PointerInv'
    BY <1>4 DEF PointerInv
  <2>3. lastPtr = Own(j)
    BY <1>3, <2>1 DEF SessionLog, Noticed
  <2>4. QED
    BY <1>5, <1>6, <2>1, <2>2, <2>3
<1>10. QED
  BY <1>7, <1>8, <1>9

\* What retention leaves of a directory: it is as it was, gone, or has begun to
\* be deleted, which happens only to a transaction that has ended well and that
\* no pointer names.
LEMMA RetainLeaves ==
  ASSUME Inv, NEW c \in Clients, Retain(c), NEW t \in TxnIds
  PROVE  \/ txn'[t] = txn[t]
         \/ /\ t \in Expired
            /\ \/ txn'[t] = NoTransaction
               \/ /\ txn'[t].dir = TRUE /\ txn'[t].shed = TRUE
                  /\ txn'[t].plan \in {txn[t].plan, None} /\ txn'[t].rec \in {txn[t].rec, None}
                  /\ txn'[t].ckpt \in {txn[t].ckpt, NoCkpt}
<1>1. PICK D \in SUBSET Expired : Delete(D) \/ (\E u \in Expired \ D : DeletePartly(D, u))
  BY DEF Retain
<1>2. Without(D)[t] = IF t \in D THEN NoTransaction ELSE txn[t]
  BY DEF Without
<1>3. CASE Delete(D)
  BY <1>2, <1>3 DEF Delete
<1>4. CASE \E u \in Expired \ D : DeletePartly(D, u)
  <2>0. PICK u \in Expired \ D : DeletePartly(D, u)
    BY <1>4
  <2>1. PICK x \in Remains(txn[u]) : txn' = [Without(D) EXCEPT ![u] = x]
    BY <2>0 DEF DeletePartly
  <2>2. CASE t = u
    <3>1. txn'[t] = x
      BY <2>1, <2>2 DEF Without
    <3>2. /\ x.dir = TRUE /\ x.shed = TRUE /\ x.plan \in {txn[u].plan, None}
          /\ x.rec \in {txn[u].rec, None} /\ x.ckpt \in {txn[u].ckpt, NoCkpt}
      BY DEF Remains
    <3>3. QED
      BY <2>2, <3>1, <3>2
  <2>3. CASE t # u
    BY <1>2, <2>1, <2>3
  <2>4. QED
    BY <2>2, <2>3
<1>5. QED
  BY <1>1, <1>3, <1>4

\* Retention takes nothing from what the pointers name or an unfinished
\* rollback has left.
LEMMA RetainKeeps ==
  ASSUME Inv, NEW c \in Clients, Retain(c)
  PROVE  UndoInv'
<1> DEFINE j == job[c]
           Begun(t) == /\ txn'[t].dir = TRUE /\ txn'[t].shed = TRUE
                       /\ txn'[t].plan \in {txn[t].plan, None} /\ txn'[t].rec \in {txn[t].rec, None}
                       /\ txn'[t].ckpt \in {txn[t].ckpt, NoCkpt}
<1>1. /\ pc[c] = "retain" /\ pc[c] \in Planned /\ pc[c] # "except" /\ pc[c] \in Inside
      /\ UNCHANGED <<root, job, left, writer, raced, blind, reused>>
      /\ UNCHANGED <<applyPtr, lastPtr, baseline>>
  BY DEF Retain, Frame, rest, Planned, Inside, Unplanned
<1>2. Goto(c, "returned") \/ Raise(c)
  BY DEF Retain
<1>3. \A t \in TxnIds : txn'[t] = txn[t] \/ (t \in Expired /\ (txn'[t] = NoTransaction \/ Begun(t)))
  BY RetainLeaves
<1>4. /\ applyPtr \notin Expired /\ lastPtr \notin Expired
      /\ \A t \in Expired : txn[t].rec # None /\ txn[t].rec.status \in {"applied", "rolled_back"}
  BY DEF Expired, Unpointed
<1>5. /\ NoTransaction.dir = FALSE /\ NoTransaction.plan = None /\ NoTransaction.rec = None
      /\ NoTransaction.shed = FALSE /\ NoCkpt.state = "none"
  BY DEF NoTransaction, NoCkpt
<1>6. \A d \in Clients \ {c} : pc'[d] = pc[d]
  BY <1>2, RaiseTyped, GotoTyped DEF Inv, Typed, Ended
<1> HIDE DEF Begun
<1>7. TransactionsInv'
  <2> SUFFICES ASSUME NEW t \in TxnIds
               PROVE  IdsKept(t)' /\ Undone(t)' /\ SavedAsPlanned(t)' /\ SavedFirst(t)'
    BY DEF TransactionsInv
  <2>0. IdsKept(t) /\ Undone(t) /\ SavedAsPlanned(t) /\ SavedFirst(t)
    BY DEF Inv, UndoInv, TransactionsInv
  <2>1. CASE txn'[t] = NoTransaction
    BY <1>5, <2>1 DEF IdsKept, Undone, SavedAsPlanned, SavedFirst
  <2>2. CASE txn'[t] = txn[t]
    BY <1>1, <2>0, <2>2 DEF IdsKept, Undone, CanBeUndone, SavedAsPlanned, SavedFirst, Complete
  <2>3. CASE t \in Expired /\ Begun(t)
    <3>1. IdsKept(t)'
      BY <1>1, <1>4, <2>0, <2>3 DEF IdsKept, IdFor, Begun
    <3>2. Undone(t)' /\ SavedFirst(t)'
      BY <2>3 DEF Undone, SavedFirst, Begun
    <3>3. SavedAsPlanned(t)'
      BY <1>1, <1>5, <2>0, <2>3 DEF SavedAsPlanned, Begun
    <3>4. QED
      BY <3>1, <3>2, <3>3
  <2>4. QED
    BY <1>3, <2>1, <2>2, <2>3
<1>8. PointerInv'
  BY <1>1, <1>3, <1>4 DEF Inv, UndoInv, PointerInv, Complete
<1>9. Log(c)'
  <2>1. CASE Goto(c, "returned")
    BY <2>1, GotoTyped, NoLog DEF Inv, Typed, Ended
  <2>2. CASE Raise(c)
    <3>1. pc'[c] \in {"except", "finally"} /\ (pc'[c] = "except" => job[c].kind # "recover")
      BY <2>2, RaiseTyped DEF Inv, Typed
    <3>2. lastPtr = Own(j) /\ Own(j) \in TxnIds
      BY <1>1, PlannedLog DEF SessionLog, Noticed
    <3>3. txn'[Own(j)] = txn[Own(j)]
      BY <1>3, <1>4, <3>2
    <3>4. QED
      BY <1>1, <3>1, <3>3, QuietErrorLog
  <2>3. QED
    BY <1>2, <2>1, <2>2
<1>10. SessionsInv'
  BY <1>1, <1>6, <1>9, SessionsFrame, PlannedLog
<1>11. LeftInv'
  <2>1. SUFFICES ASSUME NEW l, l = left.job, left # None PROVE LeftInv'
    BY <1>1 DEF LeftInv
  <2>2. ASSUME Own(l) \notin reused PROVE LeftLog(l)'
    <3>1. LeftLog(l) /\ (IsRollback(l) => IdFor(l.id, None)) /\ l.tx \in TxnIds
      BY <2>1, <2>2, LeftTyped DEF Inv, UndoInv, LeftInv, Typed
    <3>2. Own(l) \in TxnIds
      BY <3>1, IdTells, NoneAssumption DEF Own
    <3>3. CASE Own(l) \in Expired /\ txn'[Own(l)] # txn[Own(l)]
      <4>1. ~IsRollback(l)
        BY <1>4, <3>1, <3>3 DEF LeftLog, Own
      <4>2. ~txn'[Own(l)].dir \/ txn'[Own(l)].shed
        BY <1>3, <1>5, <3>2, <3>3 DEF Begun
      <4>3. QED
        BY <4>1, <4>2 DEF LeftLog, Own, IsRollback
    <3>4. CASE txn'[Own(l)] = txn[Own(l)]
      <4>1. txn'[Own(l)] = txn[Own(l)]
        BY <3>4
      <4>2. txn'[Own(l)].dir /\ ~txn'[Own(l)].shed =>
              Complete(Own(l))' /\ (txn'[Own(l)].ckpt.state = "full" => Backed(l)')
        BY <1>1, <3>1, <4>1 DEF LeftLog, Complete, Backed
      <4>3. txn'[Own(l)].dir /\ ~txn'[Own(l)].shed /\ ~IsRollback(l) => txn'[l.tx].plan = l.plan
        BY <3>1, <4>1 DEF LeftLog, Own
      <4>4. ASSUME IsRollback(l)
            PROVE  /\ txn'[l.id].rec # None /\ txn'[l.id].rec.status \in {"rolling_back", "failed"}
                   /\ \A d \in Clients : pc'[d] \in Planned /\ Own(job'[d]) = l.id => pc'[d] = "except"
        <5>1. Own(l) = l.id
          BY <4>4 DEF Own
        <5>2. Own(job'[c]) # l.id
          BY <1>1, <2>1, <2>2, <4>4, NotLeft
        <5>3. QED
          BY <1>1, <1>6, <3>1, <4>1, <4>4, <5>1, <5>2 DEF LeftLog
      <4>5. QED
        BY <4>2, <4>3, <4>4 DEF LeftLog, Own, IsRollback
    <3>5. QED
      BY <1>3, <3>2, <3>3, <3>4
  <2>3. left' = left /\ (Own(left.job) \notin reused => LeftLog(left.job)')
    BY <1>1, <2>1, <2>2
  <2>4. QED
    BY <1>1, <2>1, <2>3 DEF Inv, UndoInv, LeftInv, IdFor, IsRollback, Expected, Current, Own
<1>12. RootInv'
  BY <1>1 DEF Inv, UndoInv, RootInv, Pristine, BaselineIsPristine
<1>13. QED
  BY <1>7, <1>8, <1>10, <1>11, <1>12 DEF UndoInv

-----------------------------------------------------------------------------
(* Writes to the document root. *)

\* A session writes a file, completely or in part.
LEMMA RootStep ==
  ASSUME Inv, NEW c \in Clients, pc[c] = "extract", NEW f \in Files, NEW v,
         root' = [root EXCEPT ![f] = v],
         writer' = [writer EXCEPT ![f] = Own(job[c])] \/ UNCHANGED <<root, writer>>,
         blind' = IF LeftWindow(f) THEN blind \cup {f} ELSE blind,
         UNCHANGED <<workdir, left, raced, reused>>,
         \A d \in Clients \ {c} : pc'[d] = pc[d] /\ job'[d] = job[d],
         Own(job'[c]) = Own(job[c]), Log(c)'
  PROVE  UndoInv'
<1>1. /\ SessionLog(job[c], "extract") /\ Working(c) /\ pc[c] \in Planned /\ pc[c] # "except"
      /\ Own(job[c]) \in TxnIds
  BY PlannedLog DEF Planned, Inside, Unplanned
<1>2. /\ txn[Own(job[c])].ckpt.state = "full" /\ baseline # None
  BY <1>1 DEF SessionLog, Protected, Stored, Writing
<1>3. /\ \A g \in Files \ {f} : root'[g] = root[g] /\ writer'[g] = writer[g]
      /\ writer'[f] = Own(job[c]) \/ (root'[f] = root[f] /\ writer'[f] = writer[f])
      /\ blind \subseteq blind'
  BY DEF Inv, Typed, TypeOK
<1>4. UNCHANGED <<txn, applyPtr, lastPtr, baseline>>
  BY DEF workdir
<1>5. TransactionsInv'
  BY <1>2, <1>3, <1>4
     DEF Inv, UndoInv, TransactionsInv, IdsKept, Undone, CanBeUndone, SavedAsPlanned, SavedFirst, Complete
<1>6. PointerInv'
  BY <1>4 DEF Inv, UndoInv, PointerInv, Complete
<1>7. SessionsInv'
  BY <1>1, SessionsFrame
<1>8. LeftInv'
  <2>1. \A g \in Files : left # None /\ left.at = "extract" /\ Current(left.job, g) /\ g \notin blind'
          => root'[g] = root[g]
    BY <1>3 DEF LeftWindow
  <2>2. QED
    BY <1>1, <1>3, <1>4, <2>1, NotLeft, LeftFrameInv
<1>9. RootInv'
  <2>1. NoTxn \notin TxnIds
    BY BoundsAssumption DEF NoTxn, TxnIds
  <2>2. QED
    BY <1>1, <1>2, <1>3, <1>4, <2>1 DEF Inv, UndoInv, RootInv, Pristine, BaselineIsPristine
<1>10. QED
  BY <1>5, <1>6, <1>7, <1>8, <1>9 DEF UndoInv

LEMMA WriteFileKeeps ==
  ASSUME Inv, NEW c \in Clients, WriteFile(c)
  PROVE  UndoInv'
<1>1. /\ pc[c] = "extract" /\ pc[c] \in Planned /\ pc[c] \in Inside
      /\ UNCHANGED <<workdir, left, raced, reused>>
  BY DEF WriteFile, Planned, Inside, Unplanned
<1>2. /\ SessionLog(job[c], "extract") /\ job[c] \in Jobs /\ Own(job[c]) \in TxnIds
      /\ txn[Own(job[c])].dir
      /\ Own(job[c]) \notin reused => ~txn[Own(job[c])].shed
  BY <1>1, PlannedLog DEF SessionLog, Stored
<1>3. PICK f \in job[c].todo :
        /\ blind' = IF LeftWindow(f) THEN blind \cup {f} ELSE blind
        /\ \/ /\ root' = [root EXCEPT ![f] = Written(job[c], f)]
              /\ writer' = [writer EXCEPT ![f] = Own(job[c])]
              /\ job' = [job EXCEPT ![c].todo = @ \ {f}]
              /\ Goto(c, "check")
           \/ Raise(c) /\ UNCHANGED <<root, writer, job>>
           \/ /\ \E v \in CutShort(job[c], f) :
                   /\ root' = [root EXCEPT ![f] = v]
                   /\ writer' = IF v = root[f] THEN writer ELSE [writer EXCEPT ![f] = Own(job[c])]
              /\ Raise(c) /\ UNCHANGED job
  BY DEF WriteFile
<1>4. f \in Files /\ blind \subseteq blind' /\ root \in [Files -> Contents]
  BY <1>2, <1>3 DEF Jobs, Inv, Typed, TypeOK
<1>5. ASSUME NEW v, root' = [root EXCEPT ![f] = v],
             writer' = [writer EXCEPT ![f] = Own(job[c])] \/ UNCHANGED <<root, writer>>,
             Raise(c), UNCHANGED job
      PROVE  UndoInv'
  <2>1. /\ pc'[c] \in {"except", "finally"} /\ (pc'[c] = "except" => job[c].kind # "recover")
        /\ \A d \in Clients \ {c} : pc'[d] = pc[d]
    BY <1>5, RaiseTyped DEF Inv, Typed
  <2>2. \A g \in Answered(job[c]) \ (job[c].todo \cup raced') : root'[g] = root[g]
    BY <1>3, <1>4, <1>5
  <2>3. txn'[Own(job[c])].dir /\ (Own(job[c]) \notin reused => ~txn'[Own(job[c])].shed)
    BY <1>1, <1>2 DEF workdir
  <2>4. Log(c)'
    BY <1>1, <1>5, <2>1, <2>2, <2>3, ErrorLog
  <2>5. QED
    BY <1>1, <1>3, <1>4, <1>5, <2>1, <2>4, RootStep
<1>6. CASE /\ root' = [root EXCEPT ![f] = Written(job[c], f)]
           /\ writer' = [writer EXCEPT ![f] = Own(job[c])]
           /\ job' = [job EXCEPT ![c].todo = @ \ {f}]
           /\ Goto(c, "check")
  <2> DEFINE j == job'[c]
  <2>1. pc'[c] = "check" /\ \A d \in Clients \ {c} : pc'[d] = pc[d]
    BY <1>6, GotoTyped DEF Inv, Typed, Inside
  <2>2. j = [job[c] EXCEPT !.todo = @ \ {f}] /\ \A d \in Clients \ {c} : job'[d] = job[d]
    BY <1>6 DEF Inv, Typed, TypeOK
  <2>3. /\ j.kind = job[c].kind /\ j.tx = job[c].tx /\ j.id = job[c].id /\ j.plan = job[c].plan
        /\ j.arch = job[c].arch /\ j.from = job[c].from /\ j.todo = job[c].todo \ {f}
    BY <1>2, <2>2 DEF Jobs
  <2>4. Own(j) = Own(job[c])
    BY <2>3 DEF Own, IsRollback
  <2>5. /\ root'[f] = Result(job[c], f)
        /\ \A g \in Files \ {f} : root'[g] = root[g]
    BY <1>2, <1>3, <1>4, <1>6 DEF SessionLog, OnRoute, Progress
  <2>6. OnRoute(job[c], "check")'
    BY <1>2, <2>3 DEF SessionLog, OnRoute, Route, Writing, Delivered, IsRollback, IdFor
  <2>7. Stored(job[c], "check")' /\ Noticed(job[c], "check")'
    <3>1. Stored(job[c], "check")'
      BY <1>1, <1>2, <2>3 DEF SessionLog, Stored, Writing, Delivered, Own, IsRollback, workdir
    <3>2. Noticed(job[c], "check")'
      BY <1>1, <1>2, <2>3 DEF SessionLog, Noticed, Writing, Delivered, Own, IsRollback, workdir
    <3>3. QED
      BY <3>1, <3>2
  <2>8. Protected(job[c], "check")'
    <3>1. Protected(job[c], pc[c]) /\ pc[c] \in Writing
      BY <1>1, <1>2 DEF SessionLog, Writing
    <3>2. txn[Own(job[c])].ckpt.state = "full" /\ Backed(job[c])
      BY <3>1 DEF Protected
    <3>3. /\ Own(j) = Own(job[c]) /\ ToSave(j) = ToSave(job[c]) /\ txn' = txn /\ blind \subseteq blind'
          /\ \A g : Expected(j, g) = Expected(job[c], g)
      BY <1>1, <1>4, <2>3 DEF Own, ToSave, Expected, IsRollback, workdir
    <3>4. ASSUME NEW g \in ToSave(j) \ blind' PROVE txn'[Own(j)].ckpt.saved[g] = Expected(j, g)
      BY <3>2, <3>3 DEF Backed
    <3>5. Backed(job[c])' /\ txn'[Own(j)].ckpt.state = "full"
      BY <3>2, <3>3, <3>4 DEF Backed, Own, ToSave, Expected, IsRollback
    <3>6. QED
      BY <3>3, <3>5 DEF Protected, Writing, Own, IsRollback
  <2>9. Unused(job[c], "check")'
    BY DEF Unused, Fresh
  <2>10. Progress(job[c], "check")'
    <3>1. Answered(job[c]) \subseteq Files
      BY DEF Answered, Touched, Creates, Replaces, Shipped
    <3>2. QED
      BY <1>1, <1>2, <2>3, <2>5, <3>1 DEF SessionLog, Progress, Delivered, Result, Answered, Written, IsRollback
  <2>11. Log(c)'
    BY <2>1, <2>6, <2>7, <2>8, <2>9, <2>10 DEF Log, SessionLog, Unplanned
  <2>12. QED
    BY <1>1, <1>3, <1>4, <1>6, <2>1, <2>2, <2>4, <2>11, RootStep
<1>7. CASE Raise(c) /\ UNCHANGED <<root, writer, job>>
  <2>1. root' = [root EXCEPT ![f] = root[f]]
    BY <1>4, <1>7
  <2>2. QED
    BY <1>5, <1>7, <2>1
<1>8. CASE /\ \E v \in CutShort(job[c], f) :
                   /\ root' = [root EXCEPT ![f] = v]
                   /\ writer' = IF v = root[f] THEN writer ELSE [writer EXCEPT ![f] = Own(job[c])]
           /\ Raise(c) /\ UNCHANGED job
  <2>1. PICK v \in CutShort(job[c], f) :
          /\ root' = [root EXCEPT ![f] = v]
          /\ writer' = IF v = root[f] THEN writer ELSE [writer EXCEPT ![f] = Own(job[c])]
    BY <1>8
  <2>2. v = root[f] => UNCHANGED <<root, writer>>
    BY <1>4, <2>1
  <2>3. QED
    BY <1>5, <1>8, <2>1, <2>2
<1>9. QED
  BY <1>3, <1>6, <1>7, <1>8

-----------------------------------------------------------------------------
(* A script that loses its session, and what it does then. *)

\* What a script counts on does not depend on how far it is.
LEMMA LeftLogKept ==
  ASSUME NEW l, NEW m, m.kind = l.kind, m.tx = l.tx, m.id = l.id, m.plan = l.plan,
         UNCHANGED txn, blind \subseteq blind', LeftLog(l),
         \A d \in Clients : IsRollback(l) /\ pc'[d] \in Planned /\ Own(job'[d]) = l.id => pc'[d] = "except"
  PROVE  LeftLog(m)'
<1>1. Own(m) = Own(l) /\ (IsRollback(m) <=> IsRollback(l))
  BY DEF Own, IsRollback
<1>2. Backed(l) => Backed(m)'
  BY <1>1 DEF Backed, ToSave, Expected, Own, IsRollback
<1>3. txn'[Own(m)].dir /\ ~txn'[Own(m)].shed => Complete(Own(m))' /\ (txn'[Own(m)].ckpt.state = "full" => Backed(m)')
  BY <1>1, <1>2 DEF LeftLog, Complete
<1>4. txn'[Own(m)].dir /\ ~txn'[Own(m)].shed /\ ~IsRollback(m) => txn'[m.tx].plan = m.plan
  BY <1>1 DEF LeftLog
<1>5. ASSUME IsRollback(m)
      PROVE  /\ txn'[m.id].rec # None /\ txn'[m.id].rec.status \in {"rolling_back", "failed"}
             /\ \A d \in Clients : pc'[d] \in Planned /\ Own(job'[d]) = m.id => pc'[d] = "except"
  BY <1>1, <1>5 DEF LeftLog
<1>6. QED
  BY <1>3, <1>4, <1>5 DEF LeftLog, Own, IsRollback

\* The script of a session has all that it needs to be left alone.
LEMMA LoseScriptKeeps ==
  ASSUME Inv, NEW c \in Clients, LoseScript(c)
  PROVE  UndoInv'
<1>1. /\ pc[c] \in Writing /\ pc[c] \in Planned /\ pc[c] \in Inside /\ left = None
      /\ UNCHANGED <<root, workdir, writer, raced, blind, reused>>
      /\ left' = [job |-> job[c], at |-> pc[c]]
  BY DEF LoseScript, Writing, Planned, Inside, Unplanned
<1>2. PICK p : p = pc[c]
  OBVIOUS
<1>3. SessionLog(job[c], p) /\ job[c] \in Jobs /\ Own(job[c]) \in TxnIds
  BY <1>1, <1>2, PlannedLog
<1>4. /\ \A d \in Clients \ {c} : pc'[d] = pc[d] /\ job'[d] = job[d]
      /\ pc'[c] \in {"except", "finally", "idle"}
      /\ pc'[c] \in {"except", "finally"} => UNCHANGED job
      /\ pc'[c] = "except" => job[c].kind # "recover"
  <2>1. CASE Raise(c) /\ UNCHANGED job
    BY <2>1, RaiseTyped DEF Inv, Typed
  <2>2. CASE Goto(c, "finally") /\ UNCHANGED job
    BY <2>2, GotoTyped DEF Inv, Typed, Ended
  <2>3. CASE Leave(c)
    BY <2>3 DEF Leave, Goto, Inv, Typed, TypeOK
  <2>4. QED
    BY <2>1, <2>2, <2>3 DEF LoseScript
<1>5. /\ txn[Own(job[c])].dir /\ baseline # None /\ txn[Own(job[c])].ckpt.state = "full" /\ Backed(job[c])
      /\ txn[job[c].tx].plan = job[c].plan
      /\ Own(job[c]) \notin reused => ~txn[Own(job[c])].shed
  BY <1>1, <1>2, <1>3 DEF SessionLog, Stored, Protected, Delivered, Writing
<1>6. Log(c)'
  <2>1. CASE pc'[c] = "except"
    BY <1>1, <1>4, <1>5, <2>1, ErrorLog DEF workdir
  <2>2. QED
    BY <1>4, <2>1, NoLog DEF Ended
<1>7. SessionsInv'
  BY <1>1, <1>4, <1>6, SessionsFrame, PlannedLog
<1>8. TransactionsInv' /\ PointerInv' /\ RootInv'
  BY <1>1, StillFrame
<1>9. ASSUME NEW m, m = job[c] PROVE LeftLog(m)'
  <2>1. txn'[Own(m)].dir => Complete(Own(m))' /\ (txn'[Own(m)].ckpt.state = "full" => Backed(m)')
    BY <1>1, <1>5, <1>9 DEF Complete, Backed, workdir
  <2>2. ~IsRollback(m) => txn'[m.tx].plan = m.plan
    BY <1>1, <1>5, <1>9 DEF workdir
  <2>3. ASSUME IsRollback(m)
        PROVE  /\ txn'[m.id].rec # None /\ txn'[m.id].rec.status \in {"rolling_back", "failed"}
               /\ \A d \in Clients : pc'[d] \in Planned /\ Own(job'[d]) = m.id => pc'[d] = "except"
    <3>1. txn[m.id].rec # None /\ txn[m.id].rec.status = "rolling_back"
      BY <1>1, <1>2, <1>3, <1>9, <2>3 DEF SessionLog, Noticed
    <3>2. \A d \in Clients \ {c} : pc'[d] \notin Planned
      BY <1>1, <1>4, OthersWait, PlannedLog DEF Inv, Planned
    <3>3. pc'[c] \in Planned => pc'[c] = "except"
      BY <1>4 DEF Planned, Inside
    <3>4. QED
      BY <1>1, <3>1, <3>2, <3>3 DEF workdir
  <2>4. QED
    BY <2>1, <2>2, <2>3 DEF LeftLog, Own, IsRollback
<1>10. LeftInv'
  <2>1. left'.job = job[c] /\ left'.at = p
    BY <1>1, <1>2
  <2>2. SUFFICES ASSUME NEW m, m = job[c], left'.job = m
                 PROVE  LeftInv'
    BY <2>1
  <2>3. /\ IdFor(m.tx, m.plan.arch) /\ m.todo \subseteq Touched(m.plan)
        /\ IsRollback(m) => IdFor(m.id, None)
    BY <1>3, <2>2 DEF SessionLog, OnRoute
  <2>4. p = "extract" => \A f \in m.todo \ blind : Current(m, f) => root[f] = Expected(m, f)
    BY <1>3, <2>2 DEF SessionLog, Protected
  <2>5. LeftLog(left.job)'
    BY <1>9, <2>2
  <2>6. QED
    BY <1>1, <1>5, <2>1, <2>2, <2>3, <2>4, <2>5 DEF LeftInv, IdFor, IsRollback, Expected, Current, workdir
<1>11. QED
  BY <1>7, <1>8, <1>10 DEF UndoInv

\* The script that is left alone moves on, or ends, without a write.
LEMMA LeftMoves ==
  ASSUME Inv, left # None, UNCHANGED <<root, workdir, pc, job, writer, raced, blind, reused>>, NEW m,
         \/ left' = None
         \/ /\ left'.job = m /\ m.kind = left.job.kind /\ m.tx = left.job.tx /\ m.id = left.job.id
            /\ m.plan = left.job.plan /\ m.todo \subseteq left.job.todo
            /\ left'.at = "extract" =>
                 \A f \in m.todo \ blind : Current(m, f) => root[f] = Expected(m, f)
  PROVE  UndoInv'
<1>1. left' # None => Own(left'.job) = Own(left.job)
  BY DEF Own, IsRollback
<1>2. ASSUME NEW t, Untouched(t) PROVE Untouched(t)'
  BY <1>1, <1>2 DEF Untouched, Own, IsRollback
<1>3. ASSUME NEW d \in Clients PROVE Log(d)'
  <2>1. Log(d)
    BY DEF Inv, UndoInv, SessionsInv
  <2>2. pc[d] \in Unplanned => Prepared(job[d], pc[d])'
    BY <2>1 DEF Log, Prepared, workdir
  <2>3. ASSUME pc[d] \in Planned PROVE SessionLog(job[d], pc[d])'
    <3>1. SessionLog(job[d], pc[d])
      BY <2>1, <2>3 DEF Log
    <3>2. OnRoute(job[d], pc[d])' /\ Stored(job[d], pc[d])' /\ Protected(job[d], pc[d])'
          /\ Noticed(job[d], pc[d])' /\ Progress(job[d], pc[d])'
      BY <3>1 DEF SessionLog, OnRoute, Stored, Protected, Noticed, Progress, Backed, workdir
    <3>3. Unused(job[d], pc[d])'
      BY <1>2, <3>1 DEF SessionLog, Unused, Own, IsRollback, workdir
    <3>4. QED
      BY <3>2, <3>3 DEF SessionLog
  <2>4. QED
    BY <2>2, <2>3 DEF Log
<1>4. TransactionsInv' /\ PointerInv' /\ RootInv'
  BY StillFrame
<1>5. LeftInv'
  <2>1. CASE left' = None
    BY <2>1 DEF LeftInv
  <2>2. CASE left'.job = m /\ m.kind = left.job.kind /\ m.tx = left.job.tx /\ m.id = left.job.id
             /\ m.plan = left.job.plan /\ m.todo \subseteq left.job.todo
             /\ (left'.at = "extract" =>
                   \A f \in m.todo \ blind : Current(m, f) => root[f] = Expected(m, f))
    <3>1. SUFFICES ASSUME NEW l, l = left.job PROVE LeftInv'
      OBVIOUS
    <3>2. /\ baseline # None /\ IdFor(l.tx, l.plan.arch) /\ l.todo \subseteq Touched(l.plan)
          /\ IsRollback(l) => IdFor(l.id, None)
          /\ Own(l) \notin reused => LeftLog(l)
      BY <3>1 DEF Inv, UndoInv, LeftInv
    <3>3. Own(m) = Own(l) /\ (IsRollback(m) <=> IsRollback(l))
      BY <2>2, <3>1 DEF Own, IsRollback
    <3>4. ASSUME Own(m) \notin reused PROVE LeftLog(m)'
      <4>1. \A d \in Clients : IsRollback(l) /\ pc'[d] \in Planned /\ Own(job'[d]) = l.id => pc'[d] = "except"
        BY <3>2, <3>3, <3>4 DEF LeftLog
      <4>2. LeftLog(l) /\ UNCHANGED txn
        BY <3>2, <3>3, <3>4 DEF workdir
      <4>3. QED
        BY <2>2, <3>1, <4>1, <4>2, LeftLogKept
    <3>5. Own(m) \notin reused => LeftLog(left.job)'
      BY <2>2, <3>4
    <3>6. QED
      BY <2>2, <3>1, <3>2, <3>3, <3>5 DEF LeftInv, IdFor, IsRollback, Own, Expected, Current, workdir
  <2>3. QED
    BY <2>1, <2>2
<1>6. QED
  BY <1>3, <1>4, <1>5 DEF UndoInv, SessionsInv

LEMMA LeftMovesKeep ==
  ASSUME Inv, LeftStarts \/ LeftChecks \/ LeftEnds
  PROVE  UndoInv'
<1> SUFFICES ASSUME NEW l, l = left.job PROVE UndoInv'
  OBVIOUS
<1>1. /\ left # None /\ UNCHANGED <<root, workdir, pc, job, writer, raced, blind, reused>>
      /\ l \in Jobs /\ l.todo \subseteq Files /\ left = [job |-> l, at |-> left.at]
  BY LeftTyped DEF LeftStarts, LeftChecks, LeftEnds, LeftFrame, Inv, Typed
<1>2. CASE LeftStarts
  <2>1. PICK m : m = [l EXCEPT !.from = Extracted(l)]
    OBVIOUS
  <2>2. /\ m.kind = l.kind /\ m.tx = l.tx /\ m.id = l.id /\ m.plan = l.plan /\ m.todo = l.todo
        /\ left'.job = m /\ left'.at = "check"
    BY <1>1, <1>2, <2>1 DEF LeftStarts, Jobs
  <2>3. QED
    BY <1>1, <2>2, LeftMoves
<1>3. CASE LeftChecks
  <2>1. PICK f \in l.todo :
          /\ Current(l, f)
          /\ \/ /\ root[f] = Expected(l, f)
                /\ left' = [left EXCEPT !.at = "extract"]
             \/ left' = [left EXCEPT !.job.todo = @ \ {f}]
    BY <1>3 DEF LeftChecks
  <2>2. left.at = "check"
    BY <1>3 DEF LeftChecks
  <2>3. CASE root[f] = Expected(l, f) /\ left' = [left EXCEPT !.at = "extract"]
    <3>1. left'.job = l
      BY <1>1, <2>3
    <3>2. \A g \in l.todo : Current(l, g) => root[g] = Expected(l, g)
      BY <1>1, <2>1, <2>3, CurrentAlone
    <3>3. QED
      BY <1>1, <3>1, <3>2, LeftMoves
  <2>4. CASE left' = [left EXCEPT !.job.todo = @ \ {f}]
    <3>1. PICK m : m = [l EXCEPT !.todo = @ \ {f}]
      OBVIOUS
    <3>2. /\ m.kind = l.kind /\ m.tx = l.tx /\ m.id = l.id /\ m.plan = l.plan /\ m.todo = l.todo \ {f}
          /\ left'.job = m /\ left'.at = "check"
      BY <1>1, <2>2, <2>4, <3>1 DEF Jobs
    <3>3. QED
      BY <1>1, <3>2, LeftMoves
  <2>5. QED
    BY <2>1, <2>3, <2>4
<1>4. CASE LeftEnds
  BY <1>1, <1>4, LeftMoves DEF LeftEnds
<1>5. QED
  BY <1>2, <1>3, <1>4

\* A file is changed by somebody who does not hold the lock: what a session or
\* a script is about to write over is counted as raced or blind.
LEMMA DisturbKeeps ==
  ASSUME Inv, NEW f \in Files, NEW v, NEW w, Disturb(f, v, w),
         UNCHANGED <<workdir, pc, job, reused>>,
         \/ w = NoTxn /\ v \in EditContents /\ UNCHANGED left
         \/ /\ left # None /\ w = Own(left.job)
            /\ \/ left' = None
               \/ \E g : left' = [job |-> [left.job EXCEPT !.todo = @ \ {g}], at |-> "check"]
  PROVE  UndoInv'
<1>1. /\ \A g \in Files \ {f} : root'[g] = root[g] /\ writer'[g] = writer[g]
      /\ root'[f] = v /\ writer'[f] = w /\ blind \subseteq blind' /\ raced \subseteq raced'
      /\ InWindow(f) => f \in blind'
      /\ (\E c \in Clients : pc[c] \in Inside) => f \in raced'
  BY DEF Disturb, Inv, Typed, TypeOK
<1>2. UNCHANGED <<txn, applyPtr, lastPtr, baseline>>
  BY DEF workdir
<1>3. NoTxn \notin TxnIds
  BY BoundsAssumption DEF NoTxn, TxnIds
<1>4. left # None => Own(left.job) \in TxnIds
  <2>1. left # None => left.job.tx \in TxnIds
    BY LeftTyped DEF Inv, Typed
  <2>2. left # None /\ IsRollback(left.job) => left.job.id \in TxnIds
    BY NoneAssumption, IdTells DEF Inv, UndoInv, LeftInv
  <2>3. QED
    BY <2>1, <2>2 DEF Own
<1>5. ASSUME left' # None
      PROVE  /\ left # None /\ left'.job.kind = left.job.kind /\ left'.job.tx = left.job.tx
             /\ left'.job.id = left.job.id /\ left'.job.plan = left.job.plan
             /\ left'.job.todo \subseteq left.job.todo
             /\ left'.at = "extract" => left' = left
  <2>1. CASE UNCHANGED left
    BY <1>5, <2>1
  <2>2. ASSUME left # None, NEW g, left' = [job |-> [left.job EXCEPT !.todo = @ \ {g}], at |-> "check"]
        PROVE  /\ left'.job.kind = left.job.kind /\ left'.job.tx = left.job.tx
               /\ left'.job.id = left.job.id /\ left'.job.plan = left.job.plan
               /\ left'.job.todo \subseteq left.job.todo /\ left'.at = "check"
    BY <2>2, LeftTyped DEF Inv, Typed, Jobs
  <2>3. QED
    BY <1>5, <2>1, <2>2
<1>6. TransactionsInv'
  <2>1. ASSUME left # None, w = Own(left.job), w \notin reused, txn[w].dir, ~txn[w].shed PROVE Complete(w)
    BY <2>1 DEF Inv, UndoInv, LeftInv, LeftLog
  <2>2. ASSUME NEW t \in TxnIds PROVE SavedFirst(t)'
    <3>1. SavedFirst(t)
      BY DEF Inv, UndoInv, TransactionsInv
    <3>2. QED
      BY <1>1, <1>2, <1>3, <2>1, <3>1 DEF SavedFirst, Complete
  <2>3. ASSUME NEW t \in TxnIds PROVE IdsKept(t)' /\ Undone(t)' /\ SavedAsPlanned(t)'
    BY <1>1, <1>2 DEF Inv, UndoInv, TransactionsInv, IdsKept, Undone, CanBeUndone, SavedAsPlanned, Complete
  <2>4. QED
    BY <2>2, <2>3 DEF TransactionsInv
<1>7. PointerInv'
  BY <1>2 DEF Inv, UndoInv, PointerInv, Complete
<1>8. RootInv'
  <2>1. left # None => baseline # None
    BY DEF Inv, UndoInv, LeftInv
  <2>2. QED
    BY <1>1, <1>2, <1>3, <1>4, <2>1 DEF Inv, UndoInv, RootInv, Pristine, BaselineIsPristine
<1>9. SessionsInv'
  <2> SUFFICES ASSUME NEW d \in Clients PROVE Log(d)'
    BY DEF SessionsInv
  <2>1. Log(d)
    BY DEF Inv, UndoInv, SessionsInv
  <2>2. pc[d] \in Unplanned => Prepared(job[d], pc[d])'
    BY <1>2, <2>1 DEF Log, Prepared
  <2>3. ASSUME pc[d] \in Planned PROVE SessionLog(job[d], pc[d])'
    <3>1. /\ SessionLog(job[d], pc[d]) /\ pc[d] \in Inside /\ Own(job[d]) \in TxnIds /\ job[d] \in Jobs
      BY <2>3, PlannedLog
    <3>2. OnRoute(job[d], pc[d])' /\ Stored(job[d], pc[d])' /\ Noticed(job[d], pc[d])'
      BY <1>2, <3>1 DEF SessionLog, OnRoute, Stored, Noticed
    <3>3. Protected(job[d], pc[d])'
      <4>1. Backed(job[d]) => Backed(job[d])'
        BY <1>1, <1>2 DEF Backed
      <4>2. pc[d] = "checkpoint" \/ (pc[d] = "extract" /\ Current(job[d], f)) => f \in blind'
        BY <1>1 DEF InWindow
      <4>3. \A g \in Touched(job[d].plan) \ blind' : pc[d] = "checkpoint" => root'[g] = Expected(job[d], g)
        <5>1. Touched(job[d].plan) \subseteq Files
          BY DEF Touched, Creates, Replaces, Shipped
        <5>2. QED
          BY <1>1, <3>1, <4>2, <5>1 DEF SessionLog, Protected
      <4>4. \A g \in job[d].todo \ blind' :
              pc[d] = "extract" /\ Current(job[d], g) => root'[g] = Expected(job[d], g)
        BY <1>1, <3>1, <4>2 DEF SessionLog, Protected, Jobs
      <4>5. QED
        BY <1>2, <3>1, <4>1, <4>3, <4>4 DEF SessionLog, Protected, Expected, Current, IsRollback
    <3>4. Unused(job[d], pc[d])'
      <4>1. ASSUME NEW t \in TxnIds, Untouched(t) PROVE Untouched(t)'
        BY <1>1, <1>3, <1>5, <4>1 DEF Untouched, Own, IsRollback
      <4>2. QED
        BY <1>2, <3>1, <4>1 DEF SessionLog, Unused, Own, IsRollback
    <3>5. Progress(job[d], pc[d])'
      <4>1. f \in raced'
        BY <1>1, <3>1
      <4>2. Answered(job[d]) \subseteq Files
        BY DEF Answered, Touched, Creates, Replaces, Shipped
      <4>3. QED
        BY <1>1, <3>1, <4>1, <4>2 DEF SessionLog, Progress, Result, Answered, Written, IsRollback
    <3>6. QED
      BY <3>2, <3>3, <3>4, <3>5 DEF SessionLog
  <2>4. QED
    BY <2>2, <2>3 DEF Log
<1>10. LeftInv'
  <2>1. SUFFICES ASSUME left' # None, NEW l, l = left.job, NEW m, m = left'.job
                 PROVE  LeftInv'
    BY DEF LeftInv
  <2>2. /\ left # None /\ m.kind = l.kind /\ m.tx = l.tx /\ m.id = l.id /\ m.plan = l.plan
        /\ m.todo \subseteq l.todo
        /\ left'.at = "extract" => left' = left
    BY <1>5, <2>1
  <2>3. /\ baseline # None /\ IdFor(l.tx, l.plan.arch) /\ l.todo \subseteq Touched(l.plan)
        /\ IsRollback(l) => IdFor(l.id, None)
        /\ Own(l) \notin reused => LeftLog(l)
        /\ left.at = "extract" =>
             \A g \in l.todo \ blind : Current(l, g) => root[g] = Expected(l, g)
    BY <2>1, <2>2 DEF Inv, UndoInv, LeftInv
  <2>4. Own(m) = Own(l) /\ (IsRollback(m) <=> IsRollback(l))
    BY <2>2 DEF Own, IsRollback
  <2>5. ASSUME Own(m) \notin reused PROVE LeftLog(m)'
    <3>1. \A d \in Clients : IsRollback(l) /\ pc'[d] \in Planned /\ Own(job'[d]) = l.id => pc'[d] = "except"
      BY <2>3, <2>4, <2>5 DEF LeftLog
    <3>2. LeftLog(l)
      BY <2>3, <2>4, <2>5
    <3>3. QED
      BY <1>1, <1>2, <2>2, <3>1, <3>2, LeftLogKept
  <2>6. Own(m) \notin reused => LeftLog(left.job)'
    BY <2>1, <2>5
  <2>7. ASSUME left'.at = "extract", NEW g \in m.todo \ blind', Current(m, g) PROVE root'[g] = Expected(m, g)
    <3>1. m = l /\ left.at = "extract" /\ g \in Files
      BY <2>1, <2>2, <2>7, LeftTyped DEF Inv, Typed
    <3>2. g = f => f \in blind'
      BY <1>1, <2>1, <2>2, <2>7, <3>1 DEF InWindow, LeftWindow
    <3>3. QED
      BY <1>1, <2>3, <2>7, <3>1, <3>2
  <2>8. QED
    BY <1>2, <2>1, <2>2, <2>3, <2>4, <2>6, <2>7 DEF LeftInv, IdFor, IsRollback, Own, Expected, Current
<1>11. QED
  BY <1>6, <1>7, <1>8, <1>9, <1>10 DEF UndoInv

\* The script that is left alone, and somebody else, change files.
LEMMA OthersWriteKeep ==
  ASSUME Inv, LeftWrites \/ ExternalEdit
  PROVE  UndoInv'
<1>1. CASE LeftWrites
  <2>1. PICK f, v :
          /\ f \in left.job.todo
          /\ left # None /\ Disturb(f, v, Own(left.job)) /\ UNCHANGED <<workdir, pc, job, reused>>
          /\ \/ left' = [job |-> [left.job EXCEPT !.todo = @ \ {f}], at |-> "check"]
             \/ left' = None
    BY <1>1 DEF LeftWrites, LeftFrame
  <2>2. f \in Files
    BY <2>1, LeftTyped DEF Inv, Typed
  <2>3. QED
    BY <2>1, <2>2, DisturbKeeps
<1>2. CASE ExternalEdit
  BY <1>2, DisturbKeeps DEF ExternalEdit, Edit
<1>3. QED
  BY <1>1, <1>2

\* The removal of a lock by hand, and a step of something else.
LEMMA IdleKeeps ==
  ASSUME Inv, OperatorUnlock \/ UNCHANGED vars
  PROVE  UndoInv'
<1>1. UNCHANGED <<root, workdir, pc, job, left, writer, raced, blind, reused>>
  BY DEF OperatorUnlock, vars, rest
<1>2. TransactionsInv' /\ PointerInv' /\ RootInv'
  BY <1>1, StillFrame
<1>3. ASSUME NEW d \in Clients PROVE Log(d)'
  <2>1. Log(d)
    BY DEF Inv, UndoInv, SessionsInv
  <2>2. QED
    BY <1>1, <2>1, SMTT(30) DEF Log, Prepared, SessionLog, OnRoute, Stored, Protected, Noticed, Unused, Untouched,
       Progress, Backed, workdir
<1>4. LeftInv'
  BY <1>1 DEF Inv, UndoInv, LeftInv, LeftLog, Complete, Backed, workdir
<1>5. QED
  BY <1>2, <1>3, <1>4 DEF UndoInv, SessionsInv

-----------------------------------------------------------------------------
(* The invariant, and what follows from it. *)

LEMMA UndoInit == Init => UndoInv
<1> SUFFICES ASSUME Init PROVE UndoInv
  OBVIOUS
<1>1. NoTransaction.dir = FALSE /\ NoTransaction.plan = None /\ NoTransaction.rec = None
  BY DEF NoTransaction
<1>2. TransactionsInv
  BY <1>1 DEF Init, TransactionsInv, IdsKept, Undone, SavedAsPlanned, SavedFirst
<1>3. PointerInv
  BY BoundsAssumption DEF Init, PointerInv, NoTxn, TxnIds
<1>4. SessionsInv
  BY DEF Init, SessionsInv, Log, Planned, Unplanned, Inside
<1>5. LeftInv
  BY DEF Init, LeftInv
<1>6. RootInv
  BY DEF Init, RootInv, Pristine, BaselineIsPristine
<1>7. QED
  BY <1>2, <1>3, <1>4, <1>5, <1>6 DEF UndoInv

LEMMA NextKeeps ==
  ASSUME Inv, [Next]_vars
  PROVE  UndoInv'
<1>1. ASSUME NEW c \in Clients, Step(c) PROVE UndoInv'
  BY <1>1, AcquireKeeps, StopKeeps, LookupKeeps, PlanKeeps, EnsureBaselineKeeps, MakeDirKeeps,
     PutFileKeeps, RecordKeeps, PreflightKeeps, CheckpointKeeps, RecoveryStateKeeps, ValidateKeeps,
     TargetKeeps, StartScriptKeeps, CheckFileKeeps, WriteFileKeeps, PointersKeep, RetainKeeps,
     RecordFailureKeeps DEF Step
<1>2. ASSUME NEW c \in Clients,
             \/ StartApply(c) \/ StartRollback(c) \/ ReadFails(c) \/ Interrupt(c) \/ Crash(c)
             \/ LoseScript(c)
      PROVE  UndoInv'
  BY <1>2, StartKeeps, StopKeeps, LoseScriptKeeps
<1>3. CASE LeftStarts \/ LeftChecks \/ LeftEnds \/ LeftWrites \/ ExternalEdit
  BY <1>3, LeftMovesKeep, OthersWriteKeep
<1>4. CASE OperatorUnlock \/ UNCHANGED vars
  BY <1>4, IdleKeeps
<1>5. QED
  BY <1>1, <1>2, <1>3, <1>4 DEF Next

LEMMA InvHolds == Spec => []Inv
<1>1. Init => Inv
  BY InitTyped, UndoInit DEF Inv, Init, SessionIds, Exclusive, Working, Inside, Ended
<1>2. Inv /\ [Next]_vars => Inv'
  BY NextTyped, NextIds, NextKeeps DEF Inv
<1>3. QED
  BY <1>1, <1>2, PTL DEF Spec

\* What a session has in its transaction directory by the place it has reached,
\* what it leaves there for others, and what a script that has lost its session
\* relies on, through every call that fails, every crash and every retry.
THEOREM UndoInvariant == Spec => []UndoInv
<1>1. Inv => UndoInv
  BY DEF Inv
<1>2. QED
  BY <1>1, InvHolds, PTL

\* The record of an apply that says applying or applied stands for one that can
\* be undone: checkpoint_script, or the validation of what a recovery has found,
\* comes before the record, and what comes later keeps the files.
THEOREM ApplyingUndoable == Spec => []ApplyingIsUndoable
<1>1. ASSUME Inv, NEW t \in Recorded \ reused, txn[t].rec.mode = "apply",
             txn[t].rec.status \in {"applying", "applied"}
      PROVE  IF txn[t].shed THEN txn[t].rec.status = "applied" /\ applyPtr # t
             ELSE /\ txn[t].plan # None /\ "manifest" \in txn[t].files
                  /\ \/ txn[t].ckpt.state = "full"
                     \/ txn[t].ckpt.state = "spoilt" /\ txn[t].rec.status = "applying"
                  /\ txn[t].ckpt.state = "full" =>
                       \A f \in Replaces(txn[t].plan) \ blind : txn[t].ckpt.saved[f] = txn[t].plan.before[f]
  <2>1. t \in TxnIds /\ t \notin reused /\ txn[t].rec # None
    BY <1>1 DEF Recorded
  <2>2. IdsKept(t) /\ Undone(t) /\ SavedAsPlanned(t) /\ PointerInv
    BY <1>1, <2>1 DEF Inv, UndoInv, TransactionsInv
  <2>3. CASE txn[t].shed
    BY <1>1, <2>1, <2>2, <2>3 DEF IdsKept, PointerInv
  <2>4. CASE ~txn[t].shed
    <3>1. CanBeUndone(t) /\ (txn[t].rec.status = "applied" => txn[t].ckpt.state = "full")
      BY <1>1, <2>1, <2>2, <2>4 DEF Undone
    <3>2. Replaces(txn[t].plan) \subseteq Files
      BY DEF Replaces, Shipped
    <3>3. QED
      BY <1>1, <2>1, <2>2, <2>4, <3>1, <3>2 DEF CanBeUndone, Complete, SavedAsPlanned
  <2>5. QED
    BY <2>3, <2>4
<1>2. Inv => ApplyingIsUndoable
  BY <1>1 DEF ApplyingIsUndoable
<1>3. QED
  BY <1>2, InvHolds, PTL

\* Write-ahead undo log: whoever wrote a file last, a session or a script that
\* has lost its session, had a complete checkpoint before it wrote.
THEOREM SavedBeforeWritten == Spec => []WrittenIsSaved
<1>1. ASSUME Inv, NEW f \in Files, writer[f] \notin reused \cup {NoTxn}, txn[writer[f]].dir,
             ~txn[writer[f]].shed
      PROVE  txn[writer[f]].ckpt.state \in {"full", "spoilt"}
  <2>1. writer[f] \in TxnIds
    BY <1>1, BoundsAssumption DEF Inv, Typed, TypeOK, TxnIds, NoTxn
  <2>2. SavedFirst(writer[f])
    BY <1>1, <2>1 DEF Inv, UndoInv, TransactionsInv
  <2>3. QED
    BY <1>1, <2>2 DEF SavedFirst, Complete
<1>2. Inv => WrittenIsSaved
  BY <1>1 DEF WrittenIsSaved
<1>3. QED
  BY <1>2, InvHolds, PTL

\* The pointer of rollback latest never dangles, through uploads that are cut
\* short, recoveries, rollbacks and retention.
THEOREM PointerNeverDangles == Spec => []PointerUsable
<1>1. Inv => PointerUsable
  BY DEF Inv, UndoInv, PointerInv, PointerUsable, Complete, Recorded
<1>2. QED
  BY <1>1, InvHolds, PTL

\* ensure_baseline runs before any session writes, and no later session renews
\* the baseline: it never shows the content of a release.
THEOREM BaselineStaysPristine == Spec => []BaselineIsPristine
<1>1. Inv => BaselineIsPristine
  BY DEF Inv, UndoInv, RootInv
<1>2. QED
  BY <1>1, InvHolds, PTL

\* A rollback that gets to its last record has restored every file that the
\* apply had planned to change, unless it was edited in the meantime.
THEOREM RollbackTrue == Spec => []RollbackRestores
<1>1. ASSUME Inv, NEW c \in Clients, pc[c] = "mark", IsRollback(job[c]),
             NEW f \in Touched(job[c].plan) \ raced
      PROVE  root[f] = job[c].plan.before[f]
  <2>1. pc[c] \in Planned
    BY <1>1 DEF Planned, Inside, Unplanned
  <2>2. Progress(job[c], "mark")
    BY <1>1, <2>1, PlannedLog DEF SessionLog
  <2>3. Answered(job[c]) = Touched(job[c].plan)
    BY <1>1 DEF Answered, IsRollback
  <2>4. QED
    BY <1>1, <2>2, <2>3 DEF Progress, Result
<1>2. Inv => RollbackRestores
  BY <1>1 DEF RollbackRestores
<1>3. QED
  BY <1>2, InvHolds, PTL

\* An apply that gets to its last record has delivered the archive, a recovery
\* what the earlier attempt had planned, unless files were edited meanwhile.
THEOREM ApplyTrue == Spec => []ApplyDelivers
<1>1. ASSUME Inv, NEW c \in Clients, pc[c] \in {"mark", "ptr_apply", "ptr_last", "retain"},
             ~IsRollback(job[c]), NEW f \in Files \ raced
      PROVE  /\ job[c].kind = "apply" /\ f \in Shipped(job[c].arch) => root[f] = Payload[job[c].arch][f]
             /\ job[c].kind = "recover" /\ f \in Touched(job[c].plan) => root[f] = Payload[job[c].arch][f]
  <2>1. pc[c] \in Planned
    BY <1>1 DEF Planned, Inside, Unplanned
  <2>2. Progress(job[c], pc[c]) /\ job[c].arch = job[c].plan.arch
    BY <1>1, <2>1, PlannedLog DEF SessionLog, OnRoute
  <2>3. job[c].todo = {}
    BY <1>1, <2>2 DEF Progress, Delivered
  <2>4. f \in Answered(job[c]) => root[f] = Payload[job[c].arch][f]
    BY <1>1, <2>2, <2>3 DEF Progress, Result
  <2>5. QED
    BY <2>2, <2>4 DEF Answered
<1>2. Inv => ApplyDelivers
  BY <1>1 DEF ApplyDelivers
<1>3. QED
  BY <1>2, InvHolds, PTL

\* The document root is changed by three actions only.
LEMMA RootWriters ==
  ASSUME [Next]_vars
  PROVE  (\E c \in Clients : WriteFile(c)) \/ LeftWrites \/ ExternalEdit \/ UNCHANGED root
<1>1. ASSUME NEW c \in Clients, Step(c) PROVE WriteFile(c) \/ UNCHANGED root
  <2>1. CASE \/ Acquire(c) \/ LookupFails(c) \/ Lookup(c) \/ Plan(c) \/ Preflight(c)
             \/ RecoveryState(c) \/ Target(c) \/ StartScript(c) \/ CheckFile(c) \/ Release(c)
    BY <2>1 DEF Acquire, LookupFails, Lookup, Plan, Preflight, RecoveryState, Target, StartScript,
       CheckFile, Release, Local
  <2>2. CASE \/ EnsureBaseline(c) \/ MakeDir(c) \/ PutArtifact(c) \/ PutPlan(c) \/ PutManifest(c)
             \/ PutRecord(c) \/ Checkpoint(c) \/ Applying(c) \/ MarkDone(c) \/ PointApply(c)
             \/ PointLast(c) \/ RemovePointer(c) \/ Retain(c) \/ RecordFailure(c)
    BY <2>2 DEF EnsureBaseline, MakeDir, PutArtifact, PutPlan, PutManifest, PutFile, PutRecord, Checkpoint,
       Applying, MarkDone, PointApply, PointLast, RemovePointer, Retain, RecordFailure, Record, Upload,
       Call, Frame
  <2>3. CASE Validate(c)
    BY <2>3 DEF Validate, EnsureArtifact, PutFile, Upload, Call, Frame, Local
  <2>4. QED
    BY <1>1, <2>1, <2>2, <2>3 DEF Step
<1>2. ASSUME NEW c \in Clients,
             StartApply(c) \/ StartRollback(c) \/ ReadFails(c) \/ Interrupt(c) \/ Crash(c) \/ LoseScript(c)
      PROVE  UNCHANGED root
  BY <1>2 DEF StartApply, StartRollback, Start, ReadFails, Interrupt, Crash, LoseScript, Local
<1>3. LeftStarts \/ LeftChecks \/ LeftEnds \/ OperatorUnlock \/ UNCHANGED vars => UNCHANGED root
  BY DEF LeftStarts, LeftChecks, LeftEnds, OperatorUnlock, vars
<1>4. QED
  BY <1>1, <1>2, <1>3 DEF Next

\* What is checked before a write and saved before the script is what the write
\* replaces.
LEMMA SavedIsReplaced ==
  ASSUME NEW j, NEW f \in Touched(j.plan) \ blind, Backed(j), root[f] = Expected(j, f),
         ~Blocked(j, f), root[f] # "absent"
  PROVE  txn[Own(j)].ckpt.saved[f] = root[f]
<1>1. f \in ToSave(j)
  BY DEF ToSave, Blocked, Touched
<1>2. QED
  BY <1>1 DEF Backed

\* No content is lost: what a session or its left script overwrites or deletes
\* is in the checkpoint, unless it appeared in a window of the scripts.
THEOREM NothingLost == Spec => NothingOverwrittenUnsaved
<1> DEFINE Saved(f, t) == /\ txn[t].ckpt.state \in {"full", "spoilt"}
                          /\ txn[t].ckpt.state = "full" => txn[t].ckpt.saved[f] = root[f]
<1>1. ASSUME Inv, [Next]_vars, NEW f \in Files \ blind, root'[f] # root[f], root[f] # "absent",
             writer'[f] \notin reused \cup {NoTxn}, ~txn[writer'[f]].shed
      PROVE  Saved(f, writer'[f])
  <2>1. ASSUME NEW c \in Clients, WriteFile(c) PROVE Saved(f, writer'[f])
    <3>1. pc[c] = "extract" /\ pc[c] \in Planned
      BY <2>1 DEF WriteFile, Planned, Inside, Unplanned
    <3>2. SessionLog(job[c], "extract") /\ job[c] \in Jobs
      BY <1>1, <3>1, PlannedLog
    <3>3. PICK g \in job[c].todo :
            /\ Current(job[c], g)
            /\ root' # root => ~Blocked(job[c], g)
            /\ \E v : \/ root' = [root EXCEPT ![g] = v] /\ writer' = [writer EXCEPT ![g] = Own(job[c])]
                      \/ root' = [root EXCEPT ![g] = root[g]]
                      \/ UNCHANGED root
      BY <2>1 DEF WriteFile
    <3>4. f = g /\ writer'[f] = Own(job[c])
      BY <1>1, <3>3 DEF Inv, Typed, TypeOK
    <3>5. /\ txn[Own(job[c])].ckpt.state = "full" /\ Backed(job[c])
          /\ root[f] = Expected(job[c], f) /\ f \in Touched(job[c].plan)
      BY <1>1, <3>2, <3>3, <3>4 DEF SessionLog, Protected, OnRoute, Writing
    <3>6. QED
      BY <1>1, <3>3, <3>4, <3>5, SavedIsReplaced
  <2>2. CASE LeftWrites
    <3>1. SUFFICES ASSUME NEW l, l = left.job PROVE Saved(f, writer'[f])
      OBVIOUS
    <3>2. PICK g, v :
            /\ g \in l.todo
            /\ left # None /\ left.at = "extract" /\ (IsRollback(l) \/ txn[l.tx].dir)
            /\ Current(l, g) /\ ~Blocked(l, g)
            /\ root' = [root EXCEPT ![g] = v] /\ writer' = [writer EXCEPT ![g] = Own(l)]
      BY <2>2, <3>1 DEF LeftWrites, Disturb
    <3>3. f = g /\ writer'[f] = Own(l)
      BY <1>1, <3>2 DEF Inv, Typed, TypeOK
    <3>4. /\ LeftLog(l) /\ f \in Touched(l.plan) /\ root[f] = Expected(l, f)
          /\ IsRollback(l) => l.id \in TxnIds
      BY <1>1, <3>1, <3>2, <3>3, IdTells, NoneAssumption DEF Inv, UndoInv, LeftInv
    <3>5. txn[Own(l)].dir
      <4>1. CASE IsRollback(l)
        <5>1. IdsKept(l.id) /\ txn[l.id].rec # None
          BY <1>1, <3>4, <4>1 DEF LeftLog, Inv, UndoInv, TransactionsInv
        <5>2. QED
          BY <4>1, <5>1 DEF IdsKept, NoTransaction, Own
      <4>2. CASE ~IsRollback(l)
        BY <3>2, <4>2 DEF Own
      <4>3. QED
        BY <4>1, <4>2
    <3>6. Complete(Own(l)) /\ (txn[Own(l)].ckpt.state = "full" => Backed(l))
      BY <1>1, <3>3, <3>4, <3>5 DEF LeftLog
    <3>7. QED
      BY <1>1, <3>2, <3>3, <3>4, <3>6, SavedIsReplaced DEF Complete
  <2>3. CASE ExternalEdit
    <3>1. PICK g, v :
            /\ g \in Files
            /\ root' = [root EXCEPT ![g] = v] /\ writer' = [writer EXCEPT ![g] = NoTxn]
      BY <2>3 DEF ExternalEdit, Edit, Disturb
    <3>2. QED
      BY <1>1, <3>1 DEF Inv, Typed, TypeOK
  <2>4. QED
    BY <1>1, <2>1, <2>2, <2>3, RootWriters
<1>2. Inv /\ [Next]_vars =>
        [\A f \in Files \ blind :
           /\ root'[f] # root[f] /\ root[f] # "absent"
           /\ writer'[f] \notin reused \cup {NoTxn} /\ ~txn[writer'[f]].shed
           => LET k == txn[writer'[f]].ckpt IN
              k.state \in {"full", "spoilt"} /\ (k.state = "full" => k.saved[f] = root[f])]_vars
  BY <1>1
<1>3. QED
  BY <1>2, InvHolds, PTL DEF Spec, NothingOverwrittenUnsaved

\* A write into one transaction directory that leaves the checkpoint alone.
LEMMA PutElsewhere ==
  ASSUME Inv, NEW t \in TxnIds, NEW u, NEW r, Put(u, r), u \in TxnIds => r.ckpt = txn[u].ckpt
  PROVE  txn'[t].ckpt = txn[t].ckpt
BY DEF Put, Inv, Typed, TypeOK

\* Only the checkpoint scripts, and retention, change what has been saved.
LEMMA CheckpointWriters ==
  ASSUME Inv, [Next]_vars, NEW t \in TxnIds
  PROVE  \/ \E c \in Clients : Checkpoint(c) /\ t = Own(job[c])
         \/ txn'[t].ckpt = txn[t].ckpt \/ ~txn'[t].dir \/ txn'[t].shed
<1> DEFINE Same == txn'[t].ckpt = txn[t].ckpt
<1>1. ASSUME NEW c \in Clients, Step(c), ~Retain(c), ~Checkpoint(c) PROVE Same
  <2> DEFINE u == Own(job[c])
  <2>1. CASE \/ Acquire(c) \/ LookupFails(c) \/ Lookup(c) \/ Plan(c) \/ Preflight(c)
             \/ RecoveryState(c) \/ Target(c) \/ StartScript(c) \/ CheckFile(c) \/ WriteFile(c)
             \/ Release(c)
    BY <2>1 DEF Acquire, LookupFails, Lookup, Plan, Preflight, RecoveryState, Target, StartScript,
       CheckFile, WriteFile, Release, Local, workdir
  <2>2. CASE EnsureBaseline(c) \/ PointApply(c) \/ PointLast(c) \/ RemovePointer(c)
    BY <2>2 DEF EnsureBaseline, PointApply, PointLast, RemovePointer, Upload, Call, workdir
  <2>3. u \in TxnIds => txn[u] \in Transactions
    BY DEF Inv, Typed, TypeOK
  <2>4. CASE MakeDir(c)
    <3>1. UNCHANGED txn \/ Put(u, [txn[u] EXCEPT !.dir = TRUE])
      BY <2>4 DEF MakeDir, Call, workdir
    <3>2. u \in TxnIds => [txn[u] EXCEPT !.dir = TRUE].ckpt = txn[u].ckpt
      BY <2>3 DEF Transactions
    <3>3. QED
      BY <3>1, <3>2, PutElsewhere
  <2>5. ASSUME NEW p, NEW x, NEW q, PutFile(c, p, x, q) PROVE Same
    <3>1. \/ UNCHANGED txn
          \/ \E F : Put(u, [txn[u] EXCEPT !.files = F])
      BY <2>5 DEF PutFile, Upload, Call, workdir
    <3>2. \A F : u \in TxnIds => [txn[u] EXCEPT !.files = F].ckpt = txn[u].ckpt
      BY <2>3 DEF Transactions
    <3>3. QED
      BY <3>1, <3>2, PutElsewhere
  <2>6. CASE PutPlan(c)
    <3>1. \/ UNCHANGED txn
          \/ \E F : Put(u, [txn[u] EXCEPT !.plan = job[c].plan, !.files = F])
          \/ Put(u, [txn[u] EXCEPT !.plan = None])
      BY <2>6 DEF PutPlan, Upload, Call, workdir
    <3>2. /\ \A F : u \in TxnIds => [txn[u] EXCEPT !.plan = job[c].plan, !.files = F].ckpt = txn[u].ckpt
          /\ u \in TxnIds => [txn[u] EXCEPT !.plan = None].ckpt = txn[u].ckpt
      BY <2>3 DEF Transactions
    <3>3. QED
      BY <3>1, <3>2, PutElsewhere
  <2>7. CASE PutRecord(c) \/ Applying(c) \/ MarkDone(c) \/ RecordFailure(c)
    <3>1. UNCHANGED txn \/ \E s, w : PutStatus(c, s, w)
      BY <2>7 DEF PutRecord, Applying, MarkDone, RecordFailure, Record, Upload, Call, workdir
    <3>2. ASSUME NEW s, NEW w, PutStatus(c, s, w) PROVE Same
      <4>1. PICK k : Put(u, [txn[u] EXCEPT !.dir = TRUE, !.rec = k])
        BY <3>2 DEF PutStatus
      <4>2. u \in TxnIds => [txn[u] EXCEPT !.dir = TRUE, !.rec = k].ckpt = txn[u].ckpt
        BY <2>3 DEF Transactions
      <4>3. QED
        BY <4>1, <4>2, PutElsewhere
    <3>3. QED
      BY <3>1, <3>2
  <2>8. CASE Validate(c)
    <3>1. UNCHANGED txn \/ EnsureArtifact(c)
      BY <2>8 DEF Validate, Local, workdir
    <3>2. QED
      BY <2>5, <3>1 DEF EnsureArtifact
  <2>9. CASE PutArtifact(c) \/ PutManifest(c)
    BY <2>5, <2>9 DEF PutArtifact, PutManifest
  <2>10. QED
    BY <1>1, <2>1, <2>2, <2>4, <2>6, <2>7, <2>8, <2>9 DEF Step
<1>2. ASSUME NEW c \in Clients, Retain(c) PROVE Same \/ ~txn'[t].dir \/ txn'[t].shed
  <2>1. NoTransaction.dir = FALSE
    BY DEF NoTransaction
  <2>2. QED
    BY <1>2, <2>1, RetainLeaves
<1>3. ASSUME NEW c \in Clients, Checkpoint(c) PROVE Same \/ t = Own(job[c])
  <2>1. UNCHANGED txn \/ \E r : Put(Own(job[c]), r)
    BY <1>3 DEF Checkpoint, Save, SaveTorn, workdir
  <2>2. QED
    BY <2>1 DEF Put, Inv, Typed, TypeOK
<1>4. ASSUME NEW c \in Clients,
             StartApply(c) \/ StartRollback(c) \/ ReadFails(c) \/ Interrupt(c) \/ Crash(c) \/ LoseScript(c)
      PROVE  Same
  BY <1>4 DEF StartApply, StartRollback, Start, ReadFails, Interrupt, Crash, LoseScript, Local, workdir
<1>5. LeftStarts \/ LeftChecks \/ LeftEnds \/ LeftWrites \/ ExternalEdit \/ OperatorUnlock \/ UNCHANGED vars => Same
  BY DEF LeftStarts, LeftChecks, LeftEnds, LeftWrites, LeftFrame, ExternalEdit, Edit, OperatorUnlock, vars, workdir
<1>6. QED
  BY <1>1, <1>2, <1>3, <1>4, <1>5 DEF Next

\* A complete checkpoint is replaced or spoilt only by the recovery of its own
\* transaction, which has seen in its preflight that the document root still
\* holds what the checkpoint has saved.
THEOREM SavedIsKept == Spec => SavedIsNotLost
<1>1. ASSUME Inv, [Next]_vars, NEW t \in TxnIds \ reused,
             txn[t].ckpt.state = "full", txn'[t].ckpt # txn[t].ckpt, txn'[t].dir, ~txn'[t].shed,
             NEW f \in Files \ blind
      PROVE  txn[t].ckpt.saved[f] \in {"absent", root[f]}
  <2>1. PICK c \in Clients : Checkpoint(c) /\ t = Own(job[c])
    BY <1>1, CheckpointWriters
  <2>2. pc[c] = "checkpoint" /\ pc[c] \in Planned
    BY <2>1 DEF Checkpoint, Planned, Inside, Unplanned
  <2>3. SessionLog(job[c], "checkpoint") /\ job[c].plan # None
    BY <1>1, <2>2, PlannedLog, NoneAssumption
  <2>4. job[c].kind = "recover"
    BY <1>1, <2>1, <2>3 DEF SessionLog, Unused, Fresh
  <2>5. t = job[c].tx /\ txn[t].plan = job[c].plan
    BY <2>1, <2>3, <2>4 DEF Own, IsRollback, SessionLog, Stored, Delivered
  <2>6. txn[t].ckpt.saved[f] = IF f \in Replaces(job[c].plan) THEN job[c].plan.before[f] ELSE "absent"
    BY <1>1, <2>3, <2>5 DEF Inv, UndoInv, TransactionsInv, SavedAsPlanned
  <2>7. f \in Replaces(job[c].plan) => root[f] = job[c].plan.before[f]
    BY <1>1, <2>3, <2>4 DEF SessionLog, Protected, Expected, IsRollback, Touched
  <2>8. QED
    BY <2>6, <2>7
<1>2. Inv /\ [Next]_vars =>
        [\A t \in TxnIds \ reused :
           txn[t].ckpt.state = "full" /\ txn'[t].ckpt # txn[t].ckpt /\ txn'[t].dir /\ ~txn'[t].shed
           => \A f \in Files \ blind : txn[t].ckpt.saved[f] \in {"absent", root[f]}]_vars
  BY <1>1
<1>3. QED
  BY <1>2, InvHolds, PTL DEF Spec, SavedIsNotLost
=============================================================================
