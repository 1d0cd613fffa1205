---------------------------- MODULE Deploy_proofs ----------------------------
(* Types and mutual exclusion of the sessions of Deploy, for any number of   *)
(* clients, paths and archives and for all bounds.                           *)
EXTENDS Deploy, TLAPS

Typed == TypeOK /\ SessionShape

\* An update of one transaction keeps the types of the workdir.
LEMMA PutTyped ==
  ASSUME TypeOK, NEW t, NEW r, t \in TxnIds => r \in Transactions, Put(t, r)
  PROVE  /\ txn' \in [TxnIds -> Transactions]
         /\ UNCHANGED <<applyPtr, lastPtr, baseline>>
BY DEF TypeOK, Put

\* The record that a session writes of its plan.
LEMMA RecordTyped ==
  ASSUME NEW m \in {"apply", "rollback"}, NEW p \in Plans, NEW s \in Statuses, NEW w \in BOOLEAN
  PROVE  RecordOf(m, p, s, w) \in Records
<1>1. Creates(p) \in SUBSET Files /\ Replaces(p) \in SUBSET Files
  BY DEF Creates, Replaces, Shipped
<1>2. p.arch \in Archives
  BY DEF Plans
<1>3. QED
  BY <1>1, <1>2 DEF RecordOf, Records

\* So does the upload of a transaction record, whole or cut short.
LEMMA PutStatusTyped ==
  ASSUME TypeOK, NEW c \in Clients, NEW s \in Statuses, NEW w \in BOOLEAN,
         job[c].plan \in Plans, PutStatus(c, s, w)
  PROVE  /\ txn' \in [TxnIds -> Transactions]
         /\ UNCHANGED <<applyPtr, lastPtr, baseline>>
<1> DEFINE m == IF IsRollback(job[c]) THEN "rollback" ELSE "apply"
           rec == RecordOf(m, job[c].plan, s, w)
           r == [txn[Own(job[c])] EXCEPT !.dir = TRUE, !.rec = rec]
<1>1. m \in {"apply", "rollback"}
  OBVIOUS
<1>2. Put(Own(job[c]), r)
  BY DEF PutStatus
<1> HIDE DEF m
<1>3. rec \in Records
  BY <1>1, RecordTyped
<1> HIDE DEF rec
<1>4. Own(job[c]) \in TxnIds => r \in Transactions
  BY <1>3 DEF TypeOK, Transactions
<1> HIDE DEF r
<1>5. QED
  BY <1>2, <1>4, PutTyped

\* The local variables of a session that ends.
LEMMA IdleJobTyped == IdleJob \in Jobs
BY BoundsAssumption DEF IdleJob, NoJob, Jobs, NoTxn, Contents

\* Moving one session to another place.
LEMMA GotoTyped ==
  ASSUME TypeOK, NEW c \in Clients, NEW p \in {"idle", "acquire"} \cup Inside \cup Ended, Goto(c, p)
  PROVE  /\ pc' \in [Clients -> {"idle", "acquire"} \cup Inside \cup Ended]
         /\ pc'[c] = p
         /\ \A d \in Clients \ {c} : pc'[d] = pc[d]
BY DEF TypeOK, Goto

\* An error leads into the handler only when the plan is known.
LEMMA RaiseTyped ==
  ASSUME TypeOK, NEW c \in Clients, Raise(c)
  PROVE  /\ pc' \in [Clients -> {"idle", "acquire"} \cup Inside \cup Ended]
         /\ pc'[c] \in {"except", "finally"}
         /\ pc'[c] = "except" => job[c].plan # None /\ job[c].kind # "recover"
         /\ \A d \in Clients \ {c} : pc'[d] = pc[d]
<1>1. CASE Noted(c)
  BY <1>1, GotoTyped DEF Raise, Noted, Inside
<1>2. CASE ~Noted(c)
  BY <1>2, GotoTyped DEF Raise, Ended
<1>3. QED
  BY <1>1, <1>2

\* The shape of the other sessions does not change with a step of one session.
LEMMA ShapeFrame ==
  ASSUME SessionShape, NEW c \in Clients, Shape(c)',
         \A d \in Clients \ {c} : pc'[d] = pc[d] /\ job'[d] = job[d]
  PROVE  SessionShape'
<1>1. SUFFICES ASSUME NEW d \in Clients, d # c PROVE Shape(d)'
  BY DEF SessionShape
<1>2. Shape(d) /\ pc'[d] = pc[d] /\ job'[d] = job[d]
  BY <1>1 DEF SessionShape
<1>3. QED
  BY <1>2 DEF Shape

\* The new local variables of one session.
LEMMA JobTyped ==
  ASSUME TypeOK, NEW c \in Clients, NEW j \in Jobs, job' = [job EXCEPT ![c] = j]
  PROVE  /\ job' \in [Clients -> Jobs] /\ job'[c] = j
         /\ \A d \in Clients \ {c} : job'[d] = job[d]
BY DEF TypeOK

\* A session starts.
LEMMA StartTyped ==
  ASSUME Typed, NEW c \in Clients, StartApply(c) \/ StartRollback(c)
  PROVE  Typed'
<1>1. PICK kind \in {"apply", "rollback"}, a \in Archives \cup {None}, s \in 1..MaxSeconds :
         Start(c, kind, a, s) /\ (kind = "apply" => a \in Archives)
  BY DEF StartApply, StartRollback
<1> DEFINE id == IdOf[s][a]
           x == IF kind = "apply" THEN id ELSE NoTxn
           j == NoJob(kind, a, id, x)
<1>2. id \in TxnIds
  BY IdsAssumption
<1>3. clock' \in 0..MaxSeconds /\ skews' \in 0..MaxSkews
  BY <1>1, BoundsAssumption DEF Start, Typed, TypeOK
<1>4. /\ j \in Jobs /\ j.plan = None /\ j.kind = kind /\ j.arch = a /\ j.id = id
      /\ kind = "apply" => j.tx = id
  <2>1. id \in 0..MaxTxn /\ x \in 0..MaxTxn /\ (kind = "apply" => x = id)
    BY <1>2, BoundsAssumption DEF TxnIds, NoTxn
  <2> HIDE DEF x, id
  <2>2. QED
    BY <2>1 DEF Jobs, NoJob, Contents
<1>5. job' = [job EXCEPT ![c] = j] /\ Goto(c, "acquire")
  BY <1>1 DEF Start
<1> HIDE DEF j, id
<1>6. /\ job' \in [Clients -> Jobs] /\ job'[c] = j
      /\ \A d \in Clients \ {c} : job'[d] = job[d]
  BY <1>4, <1>5, JobTyped DEF Typed
<1>7. /\ pc' \in [Clients -> {"idle", "acquire"} \cup Inside \cup Ended]
      /\ pc'[c] = "acquire" /\ \A d \in Clients \ {c} : pc'[d] = pc[d]
  BY <1>5, GotoTyped DEF Typed
<1>8. TypeOK'
  BY <1>1, <1>3, <1>6, <1>7 DEF Typed, TypeOK, Start, workdir
<1>9. Shape(c)'
  BY <1>1, <1>2, <1>4, <1>6, <1>7 DEF Shape, Inside, Unplanned, Planned
<1>10. QED
  BY <1>6, <1>7, <1>8, <1>9, ShapeFrame DEF Typed

\* The session is gone, and its client may start another one.
LEMMA LeaveTyped ==
  ASSUME Typed, NEW c \in Clients, Leave(c)
  PROVE  /\ pc' \in [Clients -> {"idle", "acquire"} \cup Inside \cup Ended]
         /\ job' \in [Clients -> Jobs]
         /\ SessionShape'
<1>1. /\ job'[c] = IdleJob /\ job' \in [Clients -> Jobs]
      /\ \A d \in Clients \ {c} : job'[d] = job[d]
  BY IdleJobTyped, JobTyped DEF Typed, Leave
<1>2. /\ pc' \in [Clients -> {"idle", "acquire"} \cup Inside \cup Ended]
      /\ pc'[c] = "idle" /\ \A d \in Clients \ {c} : pc'[d] = pc[d]
  BY GotoTyped DEF Typed, Leave
<1>3. Shape(c)'
  BY <1>2 DEF Shape, Inside, Unplanned, Planned
<1>4. QED
  BY <1>1, <1>2, <1>3, ShapeFrame DEF Typed

\* The bound on the faults is kept by every step.
LEMMA FaultTyped ==
  ASSUME TypeOK, Fault \/ NoFault
  PROVE  faults' \in 0..MaxFaults
BY BoundsAssumption DEF TypeOK, Fault, NoFault

Places == {"idle", "acquire"} \cup Inside \cup Ended
WorkdirTyped ==
  /\ txn \in [TxnIds -> Transactions]
  /\ applyPtr \in 0..Garbled /\ lastPtr \in 0..Garbled
  /\ baseline \in [Files -> Contents] \cup {None}

\* A session that has its plan makes a call, or an error takes it away.
LEMMA MoveTyped ==
  ASSUME Typed, NEW c \in Clients, NEW q \in Planned \cup Ended,
         pc[c] \in Planned, Goto(c, q) \/ Raise(c), UNCHANGED job
  PROVE  pc' \in [Clients -> Places] /\ SessionShape'
<1>1. /\ pc' \in [Clients -> Places] /\ pc'[c] \in Planned \cup Ended
      /\ \A d \in Clients \ {c} : pc'[d] = pc[d]
  BY GotoTyped, RaiseTyped DEF Typed, Places, Planned, Inside, Ended, Unplanned
<1>2. Shape(c)
  BY DEF Typed, SessionShape
<1>3. Shape(c)'
  BY <1>1, <1>2 DEF Shape, Planned, Inside, Ended, Unplanned
<1>4. QED
  BY <1>1, <1>3, ShapeFrame DEF Typed

\* A session without a plan is taken away by an error, without a handler.
LEMMA EarlyErrorTyped ==
  ASSUME Typed, NEW c \in Clients, pc[c] \in Inside, Raise(c), UNCHANGED job
  PROVE  pc' \in [Clients -> Places] /\ SessionShape'
<1>1. /\ pc' \in [Clients -> Places] /\ pc'[c] \in {"except", "finally"}
      /\ pc'[c] = "except" => job[c].plan # None
      /\ \A d \in Clients \ {c} : pc'[d] = pc[d]
  BY RaiseTyped DEF Typed, Places
<1>2. Shape(c)
  BY DEF Typed, SessionShape
<1>3. Shape(c)'
  BY <1>1, <1>2 DEF Shape, Inside, Ended, Unplanned, Planned
<1>4. QED
  BY <1>1, <1>3, ShapeFrame DEF Typed

\* A session is interrupted.
LEMMA InterruptTyped ==
  ASSUME Typed, NEW c \in Clients, pc[c] \in Inside, Goto(c, "finally"), UNCHANGED job
  PROVE  pc' \in [Clients -> Places] /\ SessionShape'
<1>1. /\ pc' \in [Clients -> Places] /\ pc'[c] = "finally"
      /\ \A d \in Clients \ {c} : pc'[d] = pc[d]
  BY GotoTyped DEF Typed, Places, Ended
<1>2. Shape(c)
  BY DEF Typed, SessionShape
<1>3. Shape(c)'
  BY <1>1, <1>2 DEF Shape, Inside, Unplanned, Planned
<1>4. QED
  BY <1>1, <1>3, ShapeFrame DEF Typed

\* A call that keeps the types of the workdir keeps the types.
LEMMA CallTyped ==
  ASSUME Typed, NEW c \in Clients, NEW q \in Planned \cup Ended,
         pc[c] \in Planned, Goto(c, q) \/ Raise(c), Fault \/ NoFault, WorkdirTyped',
         Frame(c)
  PROVE  Typed'
<1>1. pc' \in [Clients -> Places] /\ SessionShape'
  BY MoveTyped DEF Frame
<1>2. faults' \in 0..MaxFaults
  BY FaultTyped DEF Typed
<1>3. QED
  BY <1>1, <1>2 DEF Typed, TypeOK, WorkdirTyped, Places, Frame, rest

\* The transaction whose record a session with a plan writes.
LEMMA OwnTyped ==
  ASSUME Typed, NEW c \in Clients, pc[c] \in Planned
  PROVE  /\ job[c].plan \in Plans /\ job[c].tx \in TxnIds /\ Own(job[c]) \in TxnIds
         /\ txn[Own(job[c])] \in Transactions /\ txn[job[c].tx] \in Transactions
BY DEF Typed, TypeOK, SessionShape, Shape, Planned, Own, Inside, Unplanned

\* An upload, complete or cut short, is a call.
LEMMA UploadTyped ==
  ASSUME Typed, NEW c \in Clients, NEW q \in Planned \cup Ended, NEW p \in Planned,
         NEW Effect, NEW Cut, Upload(c, p, Effect, Cut, q),
         Effect => WorkdirTyped', Cut => WorkdirTyped'
  PROVE  Typed'
<1>1. UNCHANGED workdir => WorkdirTyped'
  BY DEF WorkdirTyped, workdir, Typed, TypeOK
<1>2. /\ pc[c] \in Planned /\ (Goto(c, q) \/ Raise(c)) /\ (Fault \/ NoFault) /\ Frame(c)
      /\ WorkdirTyped'
  BY <1>1 DEF Upload, Call
<1>3. QED
  BY <1>2, CallTyped

\* The upload of a file of the transaction keeps the types.
LEMMA PutFileTyped ==
  ASSUME Typed, NEW c \in Clients, NEW p \in Planned, NEW x \in {"artifact", "manifest"},
         NEW q \in Planned, PutFile(c, p, x, q)
  PROVE  Typed'
<1> DEFINE t == Own(job[c])
           r == [txn[t] EXCEPT !.files = @ \cup {x}]
           u == [txn[t] EXCEPT !.files = @ \ {x}]
<1>1. pc[c] \in Planned
  BY DEF PutFile, Upload, Call
<1>2. r \in Transactions /\ u \in Transactions
  BY <1>1, OwnTyped DEF Transactions
<1>3. Upload(c, p, Put(t, r), Put(t, u), q)
  BY DEF PutFile
<1> HIDE DEF r, u
<1>4. (Put(t, r) => WorkdirTyped') /\ (Put(t, u) => WorkdirTyped')
  BY <1>2, PutTyped DEF WorkdirTyped, Typed, TypeOK
<1>5. QED
  BY <1>3, <1>4, UploadTyped

\* The uploads and markings of a session keep the types.
LEMMA UploadsTyped ==
  ASSUME Typed, NEW c \in Clients,
         \/ EnsureBaseline(c) \/ MakeDir(c) \/ PutArtifact(c) \/ PutPlan(c) \/ PutManifest(c)
  PROVE  Typed'
<1> DEFINE t == Own(job[c])
<1>0. {"baseline", "mkdir", "artifact", "planfile", "manifest", "record", "preflight"} \subseteq Planned
  BY DEF Planned, Inside, Unplanned
<1>1. CASE EnsureBaseline(c)
  <2>1. (/\ baseline' = IF baseline = None THEN root ELSE baseline
         /\ UNCHANGED <<txn, applyPtr, lastPtr>>) => WorkdirTyped'
    BY DEF WorkdirTyped, Typed, TypeOK
  <2>2. QED
    BY <1>0, <1>1, <2>1, CallTyped DEF EnsureBaseline, Call, WorkdirTyped, workdir, Typed, TypeOK
<1>2. CASE MakeDir(c)
  <2>1. ASSUME pc[c] = "mkdir", Put(t, [txn[t] EXCEPT !.dir = TRUE]) PROVE WorkdirTyped'
    <3>1. [txn[t] EXCEPT !.dir = TRUE] \in Transactions
      BY <1>0, <2>1, OwnTyped DEF Transactions
    <3>2. QED
      BY <2>1, <3>1, PutTyped DEF WorkdirTyped, Typed, TypeOK
  <2>2. QED
    BY <1>0, <1>2, <2>1, CallTyped DEF MakeDir, Call, WorkdirTyped, workdir, Typed, TypeOK
<1>3. CASE PutArtifact(c) \/ PutManifest(c)
  BY <1>0, <1>3, PutFileTyped DEF PutArtifact, PutManifest
<1>4. CASE PutPlan(c)
  <2>0. pc[c] \in Planned
    BY <1>0, <1>4 DEF PutPlan, Upload, Call
  <2> DEFINE Kept == IF txn[t].plan = job[c].plan THEN {"manifest"} ELSE {}
             r == [txn[t] EXCEPT !.plan = job[c].plan, !.files = @ \cap ({"artifact"} \cup Kept)]
             u == [txn[t] EXCEPT !.plan = None]
  <2>1. r \in Transactions /\ u \in Transactions
    BY <2>0, OwnTyped DEF Transactions
  <2>2. Upload(c, "planfile", Put(t, r), Put(t, u), "manifest")
    BY <1>4 DEF PutPlan
  <2> HIDE DEF r, u
  <2>3. (Put(t, r) => WorkdirTyped') /\ (Put(t, u) => WorkdirTyped')
    BY <2>1, PutTyped DEF WorkdirTyped, Typed, TypeOK
  <2>4. QED
    BY <1>0, <2>2, <2>3, UploadTyped
<1>5. QED
  BY <1>1, <1>2, <1>3, <1>4

\* So do the records of the transaction's progress.
LEMMA RecordsTyped ==
  ASSUME Typed, NEW c \in Clients,
         PutRecord(c) \/ Applying(c) \/ MarkDone(c) \/ RecordFailure(c)
  PROVE  Typed'
<1>0. {"record", "applying", "mark", "except", "script", "preflight", "ptr_last", "ptr_apply"} \subseteq Planned
  BY DEF Planned, Inside, Unplanned
<1>1. pc[c] \in Planned /\ job[c].plan \in Plans
  BY <1>0, OwnTyped DEF PutRecord, Applying, MarkDone, RecordFailure, Record, Upload, Call
<1>2. ASSUME NEW s \in Statuses, NEW w \in BOOLEAN, PutStatus(c, s, w) PROVE WorkdirTyped'
  BY <1>1, <1>2, PutStatusTyped DEF WorkdirTyped, Typed, TypeOK
<1>3. ASSUME NEW p \in Planned, NEW q \in Planned, NEW s \in Statuses, Record(c, p, s, q) PROVE Typed'
  <2>1. PutStatus(c, s, TRUE) => WorkdirTyped'
    BY <1>2
  <2>2. PutStatus(c, s, FALSE) => WorkdirTyped'
    BY <1>2
  <2>3. QED
    BY <1>3, <2>1, <2>2, UploadTyped DEF Record
<1>4. CASE PutRecord(c) \/ Applying(c) \/ MarkDone(c)
  BY <1>0, <1>3, <1>4 DEF PutRecord, Applying, MarkDone, Statuses
<1>5. CASE RecordFailure(c)
  <2>1. UNCHANGED workdir => WorkdirTyped'
    BY DEF WorkdirTyped, Typed, TypeOK, workdir
  <2>2. WorkdirTyped'
    BY <1>2, <1>5, <2>1 DEF RecordFailure, Statuses
  <2>3. QED
    BY <1>1, <1>5, <2>2, CallTyped DEF RecordFailure, Ended
<1>6. QED
  BY <1>4, <1>5

\* What a deletion that is cut short leaves of a transaction.
LEMMA RemainsTyped ==
  ASSUME NEW r \in Transactions
  PROVE  Remains(r) \subseteq Transactions
<1>1. NoCkpt \in Checkpoints
  BY DEF NoCkpt, Checkpoints, Contents
<1>2. ASSUME NEW F \in SUBSET r.files, NEW p \in {r.plan, None}, NEW k \in {r.rec, None},
             NEW b \in {r.ckpt, NoCkpt}
      PROVE  [dir |-> TRUE, shed |-> TRUE, files |-> F, plan |-> p, rec |-> k, ckpt |-> b] \in Transactions
  BY <1>1 DEF Transactions
<1>3. SUFFICES ASSUME NEW x \in Remains(r) PROVE x \in Transactions
  OBVIOUS
<1>4. PICK F \in SUBSET r.files, p \in {r.plan, None}, k \in {r.rec, None}, b \in {r.ckpt, NoCkpt} :
        x = [dir |-> TRUE, shed |-> TRUE, files |-> F, plan |-> p, rec |-> k, ckpt |-> b]
  BY <1>3 DEF Remains
<1>5. QED
  BY <1>2, <1>4

\* So do the pointers and the deletion of old transactions.
LEMMA PointersTyped ==
  ASSUME Typed, NEW c \in Clients,
         PointApply(c) \/ PointLast(c) \/ RemovePointer(c) \/ Retain(c)
  PROVE  Typed'
<1>0. {"ptr_apply", "ptr_last", "ptr_remove", "retain"} \subseteq Planned
  BY DEF Planned, Inside, Unplanned
<1>1. pc[c] \in Planned /\ job[c].tx \in 0..Garbled /\ Own(job[c]) \in 0..Garbled
  BY <1>0, OwnTyped, BoundsAssumption
     DEF PointApply, PointLast, RemovePointer, Retain, Upload, Call, TxnIds, Garbled
<1>2. WorkdirTyped /\ {NoTxn, Garbled} \subseteq 0..Garbled
  BY BoundsAssumption DEF WorkdirTyped, Typed, TypeOK, NoTxn, Garbled
<1>3. CASE PointApply(c)
  <2>1. ASSUME applyPtr' \in {job[c].tx, NoTxn, Garbled}, UNCHANGED <<txn, lastPtr, baseline>>
        PROVE  WorkdirTyped'
    BY <1>1, <1>2, <2>1 DEF WorkdirTyped
  <2>2. QED
    BY <1>0, <1>3, <2>1, UploadTyped DEF PointApply
<1>4. CASE PointLast(c)
  <2>1. ASSUME lastPtr' \in {Own(job[c]), NoTxn, Garbled}, UNCHANGED <<txn, applyPtr, baseline>>
        PROVE  WorkdirTyped'
    BY <1>1, <1>2, <2>1 DEF WorkdirTyped
  <2>2. QED
    BY <1>0, <1>4, <2>1, UploadTyped DEF PointLast
<1>5. CASE RemovePointer(c)
  <2>1. applyPtr' = NoTxn /\ UNCHANGED <<txn, lastPtr, baseline>> => WorkdirTyped'
    BY <1>2 DEF WorkdirTyped
  <2>2. QED
    BY <1>0, <1>2, <1>5, <2>1, CallTyped DEF RemovePointer, Call, WorkdirTyped, workdir
<1>6. CASE Retain(c)
  <2>1. NoTransaction \in Transactions
    BY DEF NoTransaction, NoCkpt, Transactions, Checkpoints, Contents
  <2>2. ASSUME NEW D PROVE Without(D) \in [TxnIds -> Transactions]
    BY <1>2, <2>1 DEF Without, WorkdirTyped
  <2>3. ASSUME NEW D, NEW t \in TxnIds, DeletePartly(D, t) PROVE txn' \in [TxnIds -> Transactions]
    <3>1. Remains(txn[t]) \subseteq Transactions
      BY <1>2, <2>1, RemainsTyped DEF WorkdirTyped
    <3>2. QED
      BY <2>2, <2>3, <3>1 DEF DeletePartly
  <2>4. Expired \subseteq TxnIds
    BY DEF Expired, Unpointed
  <2>5. txn' \in [TxnIds -> Transactions] /\ UNCHANGED <<applyPtr, lastPtr, baseline>>
    BY <1>6, <2>2, <2>3, <2>4 DEF Retain, Delete
  <2>6. WorkdirTyped'
    BY <1>2, <2>5 DEF WorkdirTyped
  <2>7. QED
    BY <1>1, <1>6, <2>6, CallTyped DEF Retain, Ended
<1>7. QED
  BY <1>3, <1>4, <1>5, <1>6

\* A checkpoint, complete or torn, keeps the types.
LEMMA CheckpointTyped ==
  ASSUME Typed, NEW c \in Clients, Checkpoint(c)
  PROVE  Typed'
<1>1. pc[c] \in Planned
  BY DEF Checkpoint, Planned, Inside, Unplanned
<1>2. WorkdirTyped
  BY DEF WorkdirTyped, Typed, TypeOK
<1>3. ASSUME NEW k \in Checkpoints PROVE [txn[Own(job[c])] EXCEPT !.ckpt = k] \in Transactions
  BY <1>1, OwnTyped DEF Transactions
<1>4. Save(job[c]) => WorkdirTyped'
  <2> DEFINE k == [state |-> "full", saved |-> [f \in Files |-> IF f \in ToSave(job[c]) THEN root[f] ELSE "absent"]]
  <2>1. k \in Checkpoints
    BY DEF Checkpoints, Typed, TypeOK, Contents
  <2>2. QED
    BY <1>2, <1>3, <2>1, PutTyped DEF Save, WorkdirTyped, Typed
<1>5. SaveTorn(job[c]) => WorkdirTyped'
  <2> DEFINE s == IF txn[Own(job[c])].ckpt.state \in {"full", "spoilt"} THEN "spoilt" ELSE "torn"
  <2>1. [NoCkpt EXCEPT !.state = s] \in Checkpoints
    BY DEF NoCkpt, Checkpoints, Contents
  <2>2. QED
    BY <1>2, <1>3, <2>1, PutTyped DEF SaveTorn, WorkdirTyped, Typed
<1>6. WorkdirTyped'
  BY <1>2, <1>4, <1>5 DEF Checkpoint, WorkdirTyped, workdir
<1>7. QED
  BY <1>1, <1>6, CallTyped DEF Checkpoint, Planned, Inside, Unplanned

\* A step that changes nothing but the place and the variables of one session.
LEMMA LocalTyped ==
  ASSUME Typed, UNCHANGED Local, Fault \/ NoFault, reused' \subseteq TxnIds,
         pc' \in [Clients -> Places], job' \in [Clients -> Jobs], SessionShape'
  PROVE  Typed'
<1>1. faults' \in 0..MaxFaults
  BY FaultTyped DEF Typed
<1>2. QED
  BY <1>1 DEF Typed, TypeOK, Local, workdir, rest, Places

\* The ids that are marked as shared are ids.
LEMMA ReuseTyped ==
  ASSUME Typed, NEW c \in Clients, pc[c] \in Inside, Reuse(c) \/ UNCHANGED reused
  PROVE  reused' \subseteq TxnIds
<1>1. job[c].id \in TxnIds
  BY DEF Typed, SessionShape, Shape, Inside
<1>2. QED
  BY <1>1 DEF Typed, TypeOK, Reuse

\* A session reads its plan, or the one of the transaction it undoes or recovers.
LEMMA PlannedTyped ==
  ASSUME Typed, NEW c \in Clients, NEW q \in Planned, Goto(c, q), pc[c] \in Inside,
         NEW p \in Plans, NEW S \in SUBSET Files, NEW t \in TxnIds,
         job' = [job EXCEPT ![c] = [@ EXCEPT !.tx = t, !.plan = p, !.todo = S]]
  PROVE  pc' \in [Clients -> Places] /\ job' \in [Clients -> Jobs] /\ SessionShape'
<1> DEFINE j == [job[c] EXCEPT !.tx = t, !.plan = p, !.todo = S]
<1>1. /\ j \in Jobs /\ j.plan = p /\ j.tx = t
      /\ j.kind = job[c].kind /\ j.id = job[c].id /\ j.arch = job[c].arch
  <2>1. job[c] \in Jobs /\ t \in 0..MaxTxn
    BY DEF Typed, TypeOK, TxnIds
  <2>2. ASSUME NEW x \in Jobs PROVE [x EXCEPT !.tx = t] \in Jobs
    BY <2>1 DEF Jobs
  <2>3. ASSUME NEW x \in Jobs PROVE [x EXCEPT !.plan = p] \in Jobs
    BY DEF Jobs
  <2>4. ASSUME NEW x \in Jobs PROVE [x EXCEPT !.todo = S] \in Jobs
    BY DEF Jobs
  <2>5. QED
    BY <2>1, <2>2, <2>3, <2>4 DEF Jobs
<1> HIDE DEF j
<1>2. job' = [job EXCEPT ![c] = j]
  BY DEF j
<1>3. /\ job' \in [Clients -> Jobs] /\ job'[c] = j
      /\ \A d \in Clients \ {c} : job'[d] = job[d]
  BY <1>1, <1>2, JobTyped DEF Typed
<1>4. /\ pc' \in [Clients -> Places] /\ pc'[c] = q
      /\ \A d \in Clients \ {c} : pc'[d] = pc[d]
  BY GotoTyped DEF Typed, Places, Planned
<1>5. Shape(c)
  BY DEF Typed, SessionShape
<1>6. Shape(c)'
  BY <1>1, <1>3, <1>4, <1>5 DEF Shape, Planned, Inside, Unplanned
<1>7. QED
  BY <1>3, <1>4, <1>6, ShapeFrame DEF Typed

\* What the planning session finds in the document root is a plan.
LEMMA MakePlanTyped ==
  ASSUME TypeOK, NEW a \in Archives
  PROVE  MakePlan(a) \in Plans
BY DEF TypeOK, MakePlan, Plans, Contents

\* A fresh plan.
LEMMA PlanTyped ==
  ASSUME Typed, NEW c \in Clients, Plan(c)
  PROVE  Typed'
<1> DEFINE p == MakePlan(job[c].arch)
<1>1. Shape(c) /\ pc[c] = "plan" /\ pc[c] \in Inside
  BY DEF Typed, SessionShape, Plan, Inside
<1>2. p \in Plans /\ job[c].tx \in TxnIds
  BY <1>1, MakePlanTyped DEF Typed, Shape
<1>3. CASE Raise(c) /\ UNCHANGED job
  BY <1>1, <1>3, EarlyErrorTyped, ReuseTyped, LocalTyped DEF Plan, Typed, TypeOK
<1>4. CASE /\ Goto(c, "baseline")
           /\ job' = [job EXCEPT ![c] = [@ EXCEPT !.plan = p, !.todo = Touched(p)]]
  <2>1. Touched(p) \in SUBSET Files
    BY DEF Touched, Creates, Replaces, Shipped
  <2>2. [job[c] EXCEPT !.tx = job[c].tx, !.plan = p, !.todo = Touched(p)]
          = [job[c] EXCEPT !.plan = p, !.todo = Touched(p)]
    BY DEF Typed, TypeOK, Jobs
  <2> HIDE DEF p
  <2>3. "baseline" \in Planned
    BY DEF Planned, Inside, Unplanned
  <2>4. pc' \in [Clients -> Places] /\ job' \in [Clients -> Jobs] /\ SessionShape'
    BY <1>1, <1>2, <1>4, <2>1, <2>2, <2>3, PlannedTyped
  <2>5. QED
    BY <1>1, <2>4, ReuseTyped, LocalTyped DEF Plan
<1>5. QED
  BY <1>3, <1>4 DEF Plan

\* The plan of a rollback is the one of the apply it undoes.
LEMMA TargetTyped ==
  ASSUME Typed, NEW c \in Clients, Target(c)
  PROVE  Typed'
<1> DEFINE t == applyPtr
           p == txn[t].plan
<1>1. pc[c] \in Inside
  BY DEF Target, Inside
<1>2. CASE Raise(c) /\ UNCHANGED job
  BY <1>1, <1>2, EarlyErrorTyped, ReuseTyped, LocalTyped DEF Target, Typed, TypeOK
<1>3. CASE /\ CanRollBack(t) /\ Goto(c, "mkdir")
           /\ job' = [job EXCEPT ![c] = [@ EXCEPT !.tx = t, !.plan = p, !.todo = Touched(p)]]
  <2>1. t \in TxnIds /\ p # None
    BY <1>3 DEF CanRollBack, Recorded, Undoable
  <2>2. p \in Plans
    BY <2>1 DEF Typed, TypeOK, Transactions
  <2>3. Touched(p) \in SUBSET Files /\ "mkdir" \in Planned
    BY DEF Touched, Creates, Replaces, Shipped, Planned, Inside, Unplanned
  <2> HIDE DEF p, t
  <2>4. pc' \in [Clients -> Places] /\ job' \in [Clients -> Jobs] /\ SessionShape'
    BY <1>1, <1>3, <2>1, <2>2, <2>3, PlannedTyped
  <2>5. QED
    BY <1>1, <2>4, ReuseTyped, LocalTyped DEF Target
<1>4. QED
  BY <1>2, <1>3 DEF Target

\* A recovery goes on with the plan of the earlier attempt.
LEMMA RecoveryStateTyped ==
  ASSUME Typed, NEW c \in Clients, RecoveryState(c)
  PROVE  Typed'
<1> DEFINE p == txn[job[c].tx].plan
           j == [job[c] EXCEPT !.plan = p, !.todo = Remaining(p)]
<1>1. Shape(c) /\ pc[c] = "state" /\ pc[c] \in Inside
  BY DEF Typed, SessionShape, RecoveryState, Inside
<1>2. job[c].tx \in TxnIds
  BY <1>1 DEF Shape
<1>3. CASE Raise(c) /\ UNCHANGED job
  BY <1>1, <1>3, EarlyErrorTyped, ReuseTyped, LocalTyped DEF RecoveryState, Typed, TypeOK
<1>4. ASSUME NEW q \in {"validate", "preflight"}, p # None, Goto(c, q), job' = [job EXCEPT ![c] = j]
      PROVE  Typed'
  <2>1. p \in Plans
    BY <1>2, <1>4 DEF Typed, TypeOK, Transactions
  <2>2. Remaining(p) \in SUBSET Files /\ q \in Planned
    BY DEF Remaining, Touched, Creates, Replaces, Shipped, Planned, Inside, Unplanned
  <2>3. [job[c] EXCEPT !.tx = job[c].tx, !.plan = p, !.todo = Remaining(p)] = j
    BY DEF Typed, TypeOK, Jobs
  <2> HIDE DEF p
  <2>4. pc' \in [Clients -> Places] /\ job' \in [Clients -> Jobs] /\ SessionShape'
    BY <1>1, <1>2, <1>4, <2>1, <2>2, <2>3, PlannedTyped
  <2>5. QED
    BY <1>1, <2>4, ReuseTyped, LocalTyped DEF RecoveryState
<1>5. QED
  BY <1>3, <1>4 DEF RecoveryState

\* A session gets the lock or is gone.
LEMMA AcquireTyped ==
  ASSUME Typed, NEW c \in Clients, Acquire(c)
  PROVE  Typed'
<1>1. Shape(c) /\ pc[c] = "acquire" /\ job[c].id \in 0..MaxTxn /\ NoTxn \in 0..MaxTxn
  BY BoundsAssumption DEF Typed, TypeOK, SessionShape, Acquire, Jobs, NoTxn
<1>2. lock' \in 0..MaxTxn
  BY <1>1 DEF Acquire, Typed, TypeOK
<1>3. faults' \in 0..MaxFaults
  BY FaultTyped DEF Acquire, Typed
<1>4. pc' \in [Clients -> Places] /\ job' \in [Clients -> Jobs] /\ SessionShape'
  <2>1. CASE Leave(c)
    BY <2>1, LeaveTyped DEF Places
  <2>2. CASE Goto(c, IF IsRollback(job[c]) THEN "target" ELSE "lookup") /\ UNCHANGED job
    <3>1. /\ pc' \in [Clients -> Places] /\ pc'[c] = IF IsRollback(job[c]) THEN "target" ELSE "lookup"
          /\ \A d \in Clients \ {c} : pc'[d] = pc[d]
      BY <2>2, GotoTyped DEF Typed, Places, Inside
    <3>2. job[c] \in Jobs
      BY DEF Typed, TypeOK
    <3>3. Shape(c)'
      BY <1>1, <2>2, <3>1, <3>2 DEF Shape, Inside, Unplanned, Planned, IsRollback, Jobs
    <3>4. QED
      BY <2>2, <3>1, <3>3, ShapeFrame DEF Typed, TypeOK
  <2>3. QED
    BY <2>1, <2>2 DEF Acquire
<1>5. QED
  BY <1>2, <1>3, <1>4 DEF Acquire, Typed, TypeOK, workdir, rest, Places

\* A session finds out what is known of its release.
LEMMA LookupTyped ==
  ASSUME Typed, NEW c \in Clients, Lookup(c) \/ LookupFails(c)
  PROVE  Typed'
<1>0. CASE LookupFails(c)
  <2>1. pc[c] \in Inside
    BY <1>0 DEF LookupFails, Inside
  <2>2. QED
    BY <1>0, <2>1, EarlyErrorTyped, ReuseTyped, LocalTyped DEF LookupFails, Typed, TypeOK
<1> SUFFICES ASSUME Lookup(c) PROVE Typed'
  BY <1>0
<1>1. Shape(c) /\ pc[c] = "lookup" /\ pc[c] \in Inside /\ job[c] \in Jobs
  BY DEF Typed, TypeOK, SessionShape, Lookup, Inside
<1>2. Fault \/ NoFault
  BY DEF Lookup, ReadPointer
<1>3. CASE Raise(c) /\ UNCHANGED job
  BY <1>1, <1>2, <1>3, EarlyErrorTyped, ReuseTyped, LocalTyped DEF Lookup, Typed, TypeOK
<1>4. CASE \E q \in {"noop", "plan"} : Goto(c, q) /\ UNCHANGED job
  <2>1. PICK q \in {"noop", "plan"} : Goto(c, q) /\ UNCHANGED job
    BY <1>4
  <2>2. /\ pc' \in [Clients -> Places] /\ pc'[c] = q
        /\ \A d \in Clients \ {c} : pc'[d] = pc[d]
    BY <2>1, GotoTyped DEF Typed, Places, Inside, Ended
  <2>3. Shape(c)'
    BY <1>1, <2>1, <2>2 DEF Shape, Inside, Unplanned, Planned
  <2>4. SessionShape'
    BY <2>1, <2>2, <2>3, ShapeFrame DEF Typed
  <2>5. QED
    BY <1>1, <1>2, <2>1, <2>2, <2>4, ReuseTyped, LocalTyped DEF Lookup, Typed, TypeOK
<1>5. CASE \E t \in TxnIds : /\ job' = [job EXCEPT ![c] = [@ EXCEPT !.kind = "recover", !.tx = t]]
                              /\ Goto(c, "state")
  <2>1. PICK t \in TxnIds : /\ job' = [job EXCEPT ![c] = [@ EXCEPT !.kind = "recover", !.tx = t]]
                            /\ Goto(c, "state")
    BY <1>5
  <2> DEFINE k == [job[c] EXCEPT !.kind = "recover"]
             j == [k EXCEPT !.tx = t]
  <2>2. k \in Jobs /\ k.id = job[c].id /\ k.arch = job[c].arch /\ k.plan = job[c].plan
    BY <1>1 DEF Jobs
  <2>3. t \in 0..MaxTxn
    BY DEF TxnIds
  <2> HIDE DEF k
  <2>4. /\ j \in Jobs /\ j.id = job[c].id /\ j.arch = job[c].arch /\ j.plan = job[c].plan
        /\ j.tx = t
    BY <2>2, <2>3 DEF Jobs
  <2>5. j.kind = "recover"
    BY <1>1 DEF Jobs, k
  <2>6. job' = [job EXCEPT ![c] = j]
    BY <2>1 DEF k
  <2> HIDE DEF j
  <2>7. /\ job' \in [Clients -> Jobs] /\ job'[c] = j
        /\ \A d \in Clients \ {c} : job'[d] = job[d]
    BY <2>4, <2>6, JobTyped DEF Typed
  <2>8. /\ pc' \in [Clients -> Places] /\ pc'[c] = "state"
        /\ \A d \in Clients \ {c} : pc'[d] = pc[d]
    BY <2>1, GotoTyped DEF Typed, Places, Inside
  <2>9. Shape(c)'
    BY <1>1, <2>4, <2>5, <2>7, <2>8 DEF Shape, Inside, Unplanned, Planned
  <2>10. SessionShape'
    BY <2>7, <2>8, <2>9, ShapeFrame DEF Typed
  <2>11. QED
    BY <1>1, <1>2, <2>7, <2>8, <2>10, ReuseTyped, LocalTyped DEF Lookup
<1>6. QED
  BY <1>3, <1>4, <1>5 DEF Lookup

\* The checks that change nothing but the place of the session.
LEMMA ChecksTyped ==
  ASSUME Typed, NEW c \in Clients, Preflight(c) \/ Validate(c)
  PROVE  Typed'
<1>1. pc[c] \in Planned
  BY DEF Preflight, Validate, Planned, Inside, Unplanned
<1>2. CASE Preflight(c)
  <2>1. Goto(c, "checkpoint") \/ Raise(c)
    BY <1>2 DEF Preflight
  <2>2. pc' \in [Clients -> Places] /\ SessionShape'
    BY <1>1, <1>2, <2>1, MoveTyped DEF Preflight, Planned, Inside, Unplanned
  <2>3. QED
    BY <1>2, <2>2, LocalTyped DEF Preflight, Typed, TypeOK
<1>4. CASE Validate(c)
  <2>1. "validate" \in Planned /\ "applying" \in Planned
    BY DEF Planned, Inside, Unplanned
  <2>2. CASE EnsureArtifact(c)
    BY <2>1, <2>2, PutFileTyped DEF EnsureArtifact
  <2>3. CASE Raise(c) /\ NoFault /\ UNCHANGED <<Local, job, reused>>
    <3>1. pc' \in [Clients -> Places] /\ SessionShape'
      BY <1>1, <2>3, MoveTyped
    <3>2. QED
      BY <2>3, <3>1, LocalTyped DEF Typed, TypeOK
  <2>4. QED
    BY <1>4, <2>2, <2>3 DEF Validate
<1>5. QED
  BY <1>2, <1>4

\* One file less to write, or the files extracted.
LEMMA ScriptJobTyped ==
  ASSUME NEW j \in Jobs, NEW k,
         (\E f : k = [j EXCEPT !.todo = @ \ {f}]) \/ (\E x \in [Files -> Contents] : k = [j EXCEPT !.from = x])
  PROVE  /\ k \in Jobs /\ k.plan = j.plan /\ k.tx = j.tx
         /\ k.kind = j.kind /\ k.id = j.id /\ k.arch = j.arch
<1>1. CASE \E f : k = [j EXCEPT !.todo = @ \ {f}]
  <2>1. PICK f : k = [j EXCEPT !.todo = @ \ {f}]
    BY <1>1
  <2>2. k \in Jobs
    BY <2>1 DEF Jobs
  <2>3. QED
    BY <2>1, <2>2 DEF Jobs
<1>2. CASE \E x \in [Files -> Contents] : k = [j EXCEPT !.from = x]
  <2>1. PICK x \in [Files -> Contents] : k = [j EXCEPT !.from = x]
    BY <1>2
  <2>2. k \in Jobs
    BY <2>1 DEF Jobs
  <2>3. QED
    BY <2>1, <2>2 DEF Jobs
<1>3. QED
  BY <1>1, <1>2

\* A script that writes goes on.
LEMMA GoOnTyped ==
  ASSUME Typed, NEW c \in Clients, pc[c] \in Planned, NEW q \in Planned,
         Goto(c, q) \/ (UNCHANGED pc /\ q = pc[c]),
         NEW k \in Jobs, k.plan = job[c].plan, k.tx = job[c].tx,
         k.kind = job[c].kind, k.id = job[c].id, k.arch = job[c].arch,
         job' = [job EXCEPT ![c] = k]
  PROVE  pc' \in [Clients -> Places] /\ job' \in [Clients -> Jobs] /\ SessionShape'
<1>1. /\ job' \in [Clients -> Jobs] /\ job'[c] = k
      /\ \A d \in Clients \ {c} : job'[d] = job[d]
  BY JobTyped DEF Typed
<1>2. /\ pc' \in [Clients -> Places] /\ pc'[c] = q
      /\ \A d \in Clients \ {c} : pc'[d] = pc[d]
  <2>1. CASE Goto(c, q)
    BY <2>1, GotoTyped DEF Typed, Places, Planned
  <2>2. CASE UNCHANGED pc /\ q = pc[c]
    BY <2>2 DEF Typed, TypeOK, Places
  <2>3. QED
    BY <2>1, <2>2
<1>3. Shape(c)
  BY DEF Typed, SessionShape
<1>4. Shape(c)'
  BY <1>1, <1>2, <1>3 DEF Shape, Planned, Inside, Unplanned
<1>5. QED
  BY <1>1, <1>2, <1>4, ShapeFrame DEF Typed

LEMMA TodoTyped ==
  ASSUME Typed, NEW c \in Clients, NEW f, pc[c] \in Planned, NEW q \in Planned,
         Goto(c, q) \/ (UNCHANGED pc /\ q = pc[c]),
         job' = [job EXCEPT ![c].todo = @ \ {f}]
  PROVE  pc' \in [Clients -> Places] /\ job' \in [Clients -> Jobs] /\ SessionShape'
<1> DEFINE k == [job[c] EXCEPT !.todo = @ \ {f}]
<1>1. job[c] \in Jobs
  BY DEF Typed, TypeOK
<1>2. \E g : k = [job[c] EXCEPT !.todo = @ \ {g}]
  OBVIOUS
<1>3. job' = [job EXCEPT ![c] = k]
  OBVIOUS
<1> HIDE DEF k
<1>4. QED
  BY <1>1, <1>2, <1>3, ScriptJobTyped, GoOnTyped

\* What a script extracts are contents of files.
LEMMA ExtractedTyped ==
  ASSUME TypeOK, NEW j \in Jobs, j.plan \in Plans, j.tx \in TxnIds
  PROVE  Extracted(j) \in [Files -> Contents]
<1>1. txn[j.tx].ckpt.saved \in [Files -> Contents]
  BY DEF TypeOK, Transactions, Checkpoints
<1>2. Payload[j.plan.arch] \in [Files -> Contents]
  BY ArchivesAssumption DEF Plans, Contents
<1>3. QED
  BY <1>1, <1>2 DEF Extracted

\* The head of a script that writes.
LEMMA StartScriptTyped ==
  ASSUME Typed, NEW c \in Clients, StartScript(c)
  PROVE  Typed'
<1> DEFINE k == [job[c] EXCEPT !.from = Extracted(job[c])]
<1>1. pc[c] \in Planned /\ pc[c] \in Inside /\ "check" \in Planned
  BY DEF StartScript, Planned, Inside, Unplanned
<1>2. CASE Raise(c) /\ UNCHANGED job
  <2>1. pc' \in [Clients -> Places] /\ SessionShape'
    BY <1>1, <1>2, MoveTyped
  <2>2. QED
    BY <1>1, <1>2, <2>1, ReuseTyped, LocalTyped DEF StartScript, Typed, TypeOK
<1>3. CASE Goto(c, "check") /\ job' = [job EXCEPT ![c].from = Extracted(job[c])]
  <2>1. job[c] \in Jobs
    BY DEF Typed, TypeOK
  <2>2. Extracted(job[c]) \in [Files -> Contents]
    BY <1>1, <2>1, OwnTyped, ExtractedTyped DEF Typed
  <2>3. job' = [job EXCEPT ![c] = k]
    BY <1>3
  <2>4. \E x \in [Files -> Contents] : k = [job[c] EXCEPT !.from = x]
    BY <2>2
  <2> HIDE DEF k
  <2>5. pc' \in [Clients -> Places] /\ job' \in [Clients -> Jobs] /\ SessionShape'
    BY <1>1, <1>3, <2>1, <2>3, <2>4, ScriptJobTyped, GoOnTyped
  <2>6. QED
    BY <1>1, <2>5, ReuseTyped, LocalTyped DEF StartScript
<1>4. QED
  BY <1>2, <1>3 DEF StartScript

\* The check of one file.
LEMMA CheckFileTyped ==
  ASSUME Typed, NEW c \in Clients, CheckFile(c)
  PROVE  Typed'
<1>1. pc[c] = "check" /\ pc[c] \in Inside /\ {"check", "mark", "extract"} \subseteq Planned
  BY DEF CheckFile, Planned, Inside, Unplanned
<1>2. CASE UNCHANGED job /\ (Goto(c, "mark") \/ Goto(c, "extract") \/ Raise(c))
  <2>1. pc' \in [Clients -> Places] /\ SessionShape'
    BY <1>1, <1>2, MoveTyped
  <2>2. QED
    BY <1>1, <1>2, <2>1, ReuseTyped, LocalTyped DEF CheckFile, Typed, TypeOK
<1>3. CASE \E f \in job[c].todo :
             job' = [job EXCEPT ![c].todo = @ \ {f}] /\ UNCHANGED pc
  <2>1. pc' \in [Clients -> Places] /\ job' \in [Clients -> Jobs] /\ SessionShape'
    BY <1>1, <1>3, TodoTyped
  <2>2. QED
    BY <1>1, <2>1, ReuseTyped, LocalTyped DEF CheckFile
<1>4. QED
  BY <1>2, <1>3 DEF CheckFile

\* What a script writes, or leaves half written, is the content of a file.
LEMMA WrittenTyped ==
  ASSUME TypeOK, NEW j \in Jobs, NEW f \in Files
  PROVE  Written(j, f) \in Contents /\ CutShort(j, f) \subseteq Contents
<1>1. Written(j, f) \in Contents
  BY DEF Written, Jobs, Contents
<1>2. QED
  BY <1>1 DEF CutShort, TypeOK, Contents

\* The write of one file.
LEMMA WriteFileTyped ==
  ASSUME Typed, NEW c \in Clients, WriteFile(c)
  PROVE  Typed'
<1>1. pc[c] \in Planned /\ "check" \in Planned
  BY DEF WriteFile, Planned, Inside, Unplanned
<1>2. PICK f \in job[c].todo :
        /\ blind' \in {blind, blind \cup {f}}
        /\ \/ /\ root' = [root EXCEPT ![f] = Written(job[c], f)] /\ writer' = [writer EXCEPT ![f] = Own(job[c])]
              /\ job' = [job EXCEPT ![c].todo = @ \ {f}]
              /\ NoFault /\ Goto(c, "check")
           \/ NoFault /\ Raise(c) /\ UNCHANGED <<root, writer, job>>
           \/ /\ \E v \in CutShort(job[c], f) : root' = [root EXCEPT ![f] = v]
              /\ writer' \in {writer, [writer EXCEPT ![f] = Own(job[c])]}
              /\ (Fault \/ NoFault) /\ Raise(c) /\ UNCHANGED job
  BY DEF WriteFile
<1>3. f \in Files /\ job[c] \in Jobs
  BY DEF Typed, TypeOK, Jobs
<1>4. Written(job[c], f) \in Contents /\ Own(job[c]) \in 0..MaxTxn /\ CutShort(job[c], f) \subseteq Contents
  BY <1>1, <1>3, WrittenTyped, OwnTyped DEF TxnIds, Typed
<1>5. blind' \subseteq Files
  BY <1>2, <1>3 DEF Typed, TypeOK
<1>6. root' \in [Files -> Contents]
  BY <1>2, <1>4 DEF Typed, TypeOK
<1>7. writer' \in [Files -> 0..MaxTxn]
  BY <1>2, <1>4 DEF Typed, TypeOK
<1>8. pc' \in [Clients -> Places] /\ job' \in [Clients -> Jobs] /\ SessionShape'
  <2>1. CASE /\ job' = [job EXCEPT ![c].todo = @ \ {f}]
             /\ Goto(c, "check")
    BY <1>1, <2>1, TodoTyped
  <2>2. CASE Raise(c) /\ UNCHANGED job
    BY <1>1, <2>2, MoveTyped DEF Typed, TypeOK
  <2>3. QED
    BY <1>2, <2>1, <2>2
<1>9. faults' \in 0..MaxFaults
  BY <1>2, FaultTyped DEF Typed
<1>10. QED
  BY <1>5, <1>6, <1>7, <1>8, <1>9 DEF WriteFile, Typed, TypeOK, workdir, Places

\* The ways in which a session is cut off or comes to its end.
LEMMA EndTyped ==
  ASSUME Typed, NEW c \in Clients, ReadFails(c) \/ Interrupt(c) \/ Crash(c) \/ Release(c)
  PROVE  Typed'
<1>1. CASE ReadFails(c)
  <2>1. pc[c] \in Inside
    BY <1>1 DEF ReadFails, Inside
  <2>2. QED
    BY <1>1, <2>1, EarlyErrorTyped, ReuseTyped, LocalTyped DEF ReadFails, Typed, TypeOK
<1>2. CASE Interrupt(c)
  <2>1. pc' \in [Clients -> Places] /\ SessionShape'
    BY <1>2, InterruptTyped DEF Interrupt
  <2>2. QED
    BY <1>2, <2>1, ReuseTyped, LocalTyped DEF Interrupt, Typed, TypeOK
<1>3. CASE Crash(c)
  <2>1. reused' \subseteq TxnIds
    BY <1>3 DEF Crash, Typed, TypeOK
  <2>2. QED
    BY <1>3, <2>1, LeaveTyped, LocalTyped DEF Crash, Places
<1>4. CASE Release(c)
  <2>1. lock' \in 0..MaxTxn
    BY <1>4, BoundsAssumption DEF Release, Typed, TypeOK, NoTxn
  <2>2. pc' \in [Clients -> Places] /\ job' \in [Clients -> Jobs] /\ SessionShape'
    BY <1>4, LeaveTyped DEF Release, Places
  <2>3. QED
    BY <1>4, <2>1, <2>2 DEF Release, Typed, TypeOK, workdir, rest, Places
<1>5. QED
  BY <1>1, <1>2, <1>3, <1>4

\* A script that has lost its session has a plan, and a transaction to write for.
LEMMA ScriptsTyped ==
  ASSUME NEW j \in Jobs, j.plan # None, j.tx # NoTxn, NEW at \in {"script", "check", "extract"}
  PROVE  [job |-> j, at |-> at] \in Scripts
BY DEF Scripts

LEMMA LeftTyped ==
  ASSUME TypeOK, left # None
  PROVE  /\ left.job \in Jobs /\ left.job.plan \in Plans /\ left.job.tx \in TxnIds
         /\ left.job.plan # None /\ left.job.tx # NoTxn
         /\ left.job.todo \subseteq Files /\ Own(left.job) \in 0..MaxTxn
         /\ left = [job |-> left.job, at |-> left.at]
<1>1. left \in Scripts
  BY DEF TypeOK
<1>2. /\ left.job \in Jobs /\ left.job.plan # None /\ left.job.tx # NoTxn
      /\ left = [job |-> left.job, at |-> left.at]
  BY <1>1 DEF Scripts
<1>3. QED
  BY <1>2, BoundsAssumption DEF Jobs, TxnIds, NoTxn, Own

\* A session loses its script.
LEMMA LoseScriptTyped ==
  ASSUME Typed, NEW c \in Clients, LoseScript(c)
  PROVE  Typed'
<1>1. pc[c] \in Planned /\ pc[c] \in Inside /\ pc[c] \in {"script", "check", "extract"}
  BY DEF LoseScript, Planned, Inside, Unplanned
<1>2. left' \in Scripts
  <2>1. job[c] \in Jobs /\ job[c].plan # None /\ job[c].tx # NoTxn
    BY <1>1, OwnTyped, NoneAssumption, BoundsAssumption DEF Typed, TypeOK, TxnIds, NoTxn
  <2>2. left' = [job |-> job[c], at |-> pc[c]]
    BY DEF LoseScript
  <2>3. QED
    BY <1>1, <2>1, <2>2, ScriptsTyped
<1>3. pc' \in [Clients -> Places] /\ job' \in [Clients -> Jobs] /\ SessionShape'
  <2>1. CASE Raise(c) /\ UNCHANGED job
    BY <1>1, <2>1, EarlyErrorTyped DEF Typed, TypeOK
  <2>2. CASE Goto(c, "finally") /\ UNCHANGED job
    BY <1>1, <2>2, InterruptTyped DEF Typed, TypeOK
  <2>3. CASE Leave(c)
    BY <2>3, LeaveTyped DEF Places
  <2>4. QED
    BY <2>1, <2>2, <2>3 DEF LoseScript
<1>4. faults' \in 0..MaxFaults
  BY FaultTyped DEF LoseScript, Typed
<1>5. QED
  BY <1>2, <1>3, <1>4 DEF LoseScript, Typed, TypeOK, workdir, Places

\* Somebody who does not hold the lock leaves the content of a file.
LEMMA DisturbTyped ==
  ASSUME TypeOK, NEW f \in Files, NEW v \in Contents, NEW w \in 0..MaxTxn, Disturb(f, v, w)
  PROVE  /\ root' \in [Files -> Contents] /\ writer' \in [Files -> 0..MaxTxn]
         /\ raced' \subseteq Files /\ blind' \subseteq Files
BY DEF TypeOK, Disturb

\* The script that has lost its session stays one, and writes contents of files.
LEMMA LeftStepTyped ==
  ASSUME Typed, LeftStarts \/ LeftChecks \/ LeftWrites \/ LeftEnds
  PROVE  Typed'
<1>1. TypeOK /\ left # None /\ LeftFrame
  BY DEF Typed, LeftStarts, LeftChecks, LeftWrites, LeftEnds
<1>2. SessionShape'
  BY <1>1 DEF Typed, LeftFrame, SessionShape, Shape
<1>3. left' \in Scripts \cup {None}
  <2>1. ASSUME NEW k, NEW at \in {"script", "check", "extract"}, left' = [job |-> k, at |-> at],
               \/ \E f : k = [left.job EXCEPT !.todo = @ \ {f}]
               \/ \E x \in [Files -> Contents] : k = [left.job EXCEPT !.from = x]
        PROVE  left' \in Scripts
    <3>1. k \in Jobs /\ k.plan # None /\ k.tx # NoTxn
      BY <1>1, <2>1, LeftTyped, ScriptJobTyped
    <3>2. QED
      BY <2>1, <3>1, ScriptsTyped
  <2>2. CASE LeftStarts
    <3>1. Extracted(left.job) \in [Files -> Contents]
      BY <1>1, LeftTyped, ExtractedTyped
    <3>2. left' = [job |-> [left.job EXCEPT !.from = Extracted(left.job)], at |-> "check"]
      BY <2>2 DEF LeftStarts
    <3>3. QED
      BY <2>1, <3>1, <3>2
  <2>3. CASE LeftChecks
    <3>1. CASE left' = [left EXCEPT !.at = "extract"]
      <4>1. left' = [job |-> left.job, at |-> "extract"]
        BY <1>1, <3>1, LeftTyped
      <4>2. QED
        BY <1>1, <4>1, LeftTyped, ScriptsTyped
    <3>2. CASE \E f : left' = [left EXCEPT !.job.todo = @ \ {f}]
      <4>1. PICK f : left' = [left EXCEPT !.job.todo = @ \ {f}]
        BY <3>2
      <4>2. left' = [job |-> [left.job EXCEPT !.todo = @ \ {f}], at |-> "check"]
        BY <1>1, <2>3, <4>1, LeftTyped DEF LeftChecks
      <4>3. QED
        BY <2>1, <4>2
    <3>3. QED
      BY <2>3, <3>1, <3>2 DEF LeftChecks
  <2>4. CASE LeftWrites
    <3>1. \/ \E f : left' = [job |-> [left.job EXCEPT !.todo = @ \ {f}], at |-> "check"]
          \/ left' = None
      BY <2>4 DEF LeftWrites
    <3>2. QED
      BY <2>1, <3>1
  <2>5. CASE LeftEnds
    BY <2>5 DEF LeftEnds
  <2>6. QED
    BY <2>2, <2>3, <2>4, <2>5
<1>4. /\ root' \in [Files -> Contents] /\ writer' \in [Files -> 0..MaxTxn]
      /\ raced' \subseteq Files /\ blind' \subseteq Files /\ faults' \in 0..MaxFaults
  <2>1. CASE LeftWrites
    <3>1. PICK f \in left.job.todo :
            /\ Fault \/ NoFault
            /\ \/ Disturb(f, Written(left.job, f), Own(left.job))
               \/ \E v \in CutShort(left.job, f) : Disturb(f, v, Own(left.job))
      BY <2>1 DEF LeftWrites
    <3>2. f \in Files /\ Own(left.job) \in 0..MaxTxn
      BY <1>1, LeftTyped
    <3>3. Written(left.job, f) \in Contents /\ CutShort(left.job, f) \subseteq Contents
      BY <1>1, <3>2, LeftTyped, WrittenTyped
    <3>4. PICK v \in Contents : Disturb(f, v, Own(left.job))
      BY <3>1, <3>3
    <3>5. faults' \in 0..MaxFaults
      BY <1>1, <3>1, FaultTyped
    <3>6. QED
      BY <1>1, <3>2, <3>4, <3>5, DisturbTyped
  <2>2. CASE UNCHANGED <<root, writer, raced, blind, faults>>
    BY <1>1, <2>2 DEF TypeOK
  <2>3. QED
    BY <2>1, <2>2 DEF LeftStarts, LeftChecks, LeftEnds
<1>5. QED
  BY <1>1, <1>2, <1>3, <1>4 DEF Typed, TypeOK, LeftFrame, workdir

\* The steps of the surroundings, and the steps that change nothing.
LEMMA SurroundingsTyped ==
  ASSUME Typed, ExternalEdit \/ OperatorUnlock \/ UNCHANGED vars
  PROVE  Typed'
<1>1. CASE ExternalEdit
  <2>1. PICK f \in Files, v \in EditContents : Edit(f, v)
    BY <1>1 DEF ExternalEdit
  <2>2. v \in Contents /\ NoTxn \in 0..MaxTxn
    BY RootAssumption, BoundsAssumption DEF NoTxn
  <2>3. /\ root' \in [Files -> Contents] /\ writer' \in [Files -> 0..MaxTxn]
        /\ raced' \subseteq Files /\ blind' \subseteq Files
    BY <2>1, <2>2, DisturbTyped DEF Edit, Typed
  <2>4. edits' \in 0..MaxEdits
    BY <2>1, BoundsAssumption DEF Edit, Typed, TypeOK
  <2>5. SessionShape'
    BY <2>1 DEF Edit, Typed, SessionShape, Shape
  <2>6. QED
    BY <2>1, <2>3, <2>4, <2>5 DEF Edit, Typed, TypeOK, workdir
<1>2. CASE OperatorUnlock
  <2>1. lock' \in 0..MaxTxn
    BY <1>2, BoundsAssumption DEF OperatorUnlock, NoTxn
  <2>2. SessionShape'
    BY <1>2 DEF OperatorUnlock, Typed, SessionShape, Shape
  <2>3. QED
    BY <1>2, <2>1, <2>2 DEF OperatorUnlock, Typed, TypeOK, workdir, rest
<1>3. CASE UNCHANGED vars
  BY <1>3 DEF vars, Typed, TypeOK, SessionShape, Shape, workdir, rest
<1>4. QED
  BY <1>1, <1>2, <1>3

\* Every step keeps the types, and the local variables fit the place of the
\* session.
LEMMA NextTyped ==
  ASSUME Typed, [Next]_vars
  PROVE  Typed'
<1>1. ASSUME NEW c \in Clients, Step(c) PROVE Typed'
  BY <1>1, AcquireTyped, LookupTyped, PlanTyped, UploadsTyped, RecordsTyped, ChecksTyped,
     CheckpointTyped, RecoveryStateTyped, TargetTyped, StartScriptTyped, CheckFileTyped,
     WriteFileTyped, PointersTyped, EndTyped DEF Step
<1>2. QED
  BY <1>1, StartTyped, EndTyped, LoseScriptTyped, LeftStepTyped, SurroundingsTyped DEF Next

\* At the start nobody is at work and the workdir is empty.
LEMMA InitTyped == Init => Typed
<1> SUFFICES ASSUME Init PROVE Typed
  OBVIOUS
<1>1. NoTransaction \in Transactions
  BY DEF NoTransaction, NoCkpt, Transactions, Checkpoints, Contents
<1>2. NoTxn \in 0..MaxTxn /\ NoTxn \in 0..Garbled /\ 0 \in 0..MaxSeconds /\ 0 \in 0..MaxSkews
      /\ 0 \in 0..MaxFaults /\ 0 \in 0..MaxEdits
  BY BoundsAssumption DEF NoTxn, Garbled
<1>3. pc \in [Clients -> Places] /\ job \in [Clients -> Jobs]
  BY IdleJobTyped DEF Init, Places
<1>4. TypeOK
  BY <1>1, <1>2, <1>3, RootAssumption DEF Init, TypeOK, Places
<1>5. SessionShape
  BY DEF Init, SessionShape, Shape, Inside, Unplanned, Planned
<1>6. QED
  BY <1>4, <1>5 DEF Typed

\* Every variable of Deploy stays in its range, and so do the local variables
\* of a session at each of its calls.
THEOREM TypeCorrect == Spec => [](TypeOK /\ SessionShape)
<1>1. Typed /\ [Next]_vars => Typed'
  BY NextTyped
<1>2. QED
  BY <1>1, InitTyped, PTL DEF Spec, Typed

-----------------------------------------------------------------------------

\* The lock carries the right id as long as it does not change, nobody gets past
\* acquire(), and those who are past it keep their ids.
LEMMA IdsFrame ==
  ASSUME SessionIds, UNCHANGED lock,
         \A d \in Clients : Working(d)' => Working(d) /\ job'[d].id = job[d].id
  PROVE  SessionIds'
BY DEF SessionIds, Exclusive

\* A free lock means that nobody is past acquire().
LEMMA FreeMeansNobody ==
  ASSUME SessionIds, SessionShape, lock = NoTxn
  PROVE  \A d \in Clients : ~Working(d)
<1> SUFFICES ASSUME NEW d \in Clients, Working(d) PROVE FALSE
  OBVIOUS
<1>1. job[d].id \in TxnIds
  BY DEF SessionShape, Shape, Working, Inside, Ended
<1>2. QED
  BY <1>1, BoundsAssumption DEF SessionIds, TxnIds, NoTxn

\* One call in the middle of a session.
GoesOn(c) ==
  /\ Working(c)
  /\ pc' \in [Clients -> Places]
  /\ pc'[c] \in Inside \cup Ended
  /\ \A d \in Clients \ {c} : pc'[d] = pc[d] /\ job'[d] = job[d]
  /\ job'[c].id = job[c].id
  /\ UNCHANGED lock

\* The calls between acquire() and release() go on with the session.
LEMMA UploadsGoOn ==
  ASSUME Typed, NEW c \in Clients,
         \/ EnsureBaseline(c) \/ MakeDir(c) \/ PutArtifact(c) \/ PutPlan(c) \/ PutManifest(c)
         \/ PutRecord(c) \/ Applying(c) \/ MarkDone(c) \/ PointApply(c) \/ PointLast(c)
         \/ RemovePointer(c)
  PROVE  GoesOn(c)
<1> USE DEF Upload, Call, Frame, Inside
<1>1. \/ \E q \in Inside : pc[c] \in Inside /\ Goto(c, q) /\ UNCHANGED <<job, lock>>
      \/ pc[c] \in Inside /\ Raise(c) /\ UNCHANGED <<job, lock>>
  BY DEF EnsureBaseline, MakeDir, PutArtifact, PutPlan, PutManifest, PutFile, PutRecord, Applying,
         Record, MarkDone, PointApply, PointLast, RemovePointer
<1>2. QED
  BY <1>1, GotoTyped, RaiseTyped DEF GoesOn, Working, Places, Typed, Ended

\* The calls that check, save or fail, and leave the local variables alone.
LEMMA ChecksGoOn ==
  ASSUME Typed, NEW c \in Clients,
         \/ Preflight(c) \/ Validate(c) \/ Checkpoint(c) \/ LookupFails(c)
         \/ Retain(c) \/ RecordFailure(c) \/ ReadFails(c) \/ Interrupt(c)
  PROVE  GoesOn(c)
<1> USE DEF Call, Frame, Inside, Ended, Local
<1>1. \/ \E q \in Inside \cup Ended : pc[c] \in Inside /\ Goto(c, q) /\ UNCHANGED <<job, lock>>
      \/ pc[c] \in Inside /\ Raise(c) /\ UNCHANGED <<job, lock>>
  BY DEF Preflight, Validate, EnsureArtifact, PutFile, Upload, Checkpoint, LookupFails, Retain,
         RecordFailure, ReadFails, Interrupt
<1>2. QED
  BY <1>1, GotoTyped, RaiseTyped DEF GoesOn, Working, Places, Typed

\* So do the steps that set the local variables; none of them touches the id.
LEMMA JobsGoOn ==
  ASSUME Typed, NEW c \in Clients,
         \/ Lookup(c) \/ Plan(c) \/ RecoveryState(c) \/ Target(c)
         \/ StartScript(c) \/ CheckFile(c) \/ WriteFile(c)
  PROVE  GoesOn(c)
<1> USE DEF Inside, Ended, Local
<1>1. pc[c] \in Inside /\ UNCHANGED lock
  BY DEF Lookup, Plan, RecoveryState, Target, StartScript, CheckFile, WriteFile
<1>2. \/ \E q \in Inside \cup Ended : Goto(c, q)
      \/ Raise(c)
      \/ UNCHANGED pc
  BY DEF Lookup, Plan, RecoveryState, Target, StartScript, CheckFile, WriteFile
<1>3. /\ pc' \in [Clients -> Places] /\ pc'[c] \in Inside \cup Ended
      /\ \A d \in Clients \ {c} : pc'[d] = pc[d]
  <2>1. CASE UNCHANGED pc
    BY <1>1, <2>1 DEF Typed, TypeOK, Places
  <2>2. CASE Raise(c)
    BY <2>2, RaiseTyped DEF Typed, Places
  <2>3. CASE \E q \in Inside \cup Ended : Goto(c, q)
    BY <2>3, GotoTyped DEF Typed, Places
  <2>4. QED
    BY <1>2, <2>1, <2>2, <2>3
<1>4. job'[c].id = job[c].id /\ \A d \in Clients \ {c} : job'[d] = job[d]
  <2> USE DEF Typed, TypeOK, Jobs
  <2>1. CASE UNCHANGED job
    BY <2>1
  <2>2. CASE Lookup(c)
    BY <2>2 DEF Lookup
  <2>3. CASE Plan(c)
    BY <2>3 DEF Plan
  <2>4. CASE RecoveryState(c)
    BY <2>4, ZenonT(30) DEF RecoveryState
  <2>5. CASE Target(c)
    BY <2>5 DEF Target
  <2>6. CASE CheckFile(c)
    BY <2>6 DEF CheckFile
  <2>7. CASE WriteFile(c)
    BY <2>7 DEF WriteFile
  <2>8. CASE StartScript(c)
    BY <2>8 DEF StartScript
  <2>9. QED
    BY <2>2, <2>3, <2>4, <2>5, <2>6, <2>7, <2>8
<1>5. QED
  BY <1>1, <1>3, <1>4 DEF GoesOn, Working

\* What happens to the places and ids when a session is gone.
LEMMA LeaveFrame ==
  ASSUME Typed, NEW c \in Clients, Leave(c)
  PROVE  /\ pc'[c] = "idle" /\ ~Working(c)'
         /\ \A d \in Clients \ {c} : pc'[d] = pc[d] /\ job'[d] = job[d]
BY GotoTyped DEF Leave, Typed, TypeOK, Working, Inside, Ended

\* What the steps of Deploy do to the lock and to those who are past acquire().
Begins(c) ==       \* a session that waits for the lock, or starts to
  /\ ~Working(c) /\ ~Working(c)' /\ UNCHANGED lock
  /\ \A d \in Clients \ {c} : pc'[d] = pc[d] /\ job'[d] = job[d]
Takes(c) ==        \* it gets the lock
  /\ lock = NoTxn /\ lock' = job'[c].id /\ Working(c)'
  /\ \A d \in Clients \ {c} : pc'[d] = pc[d] /\ job'[d] = job[d]
Strays(c) ==       \* the lock is made, and the session does not learn of it
  /\ lock = NoTxn /\ lock' \in TxnIds /\ ~Working(c)'
  /\ \A d \in Clients \ {c} : pc'[d] = pc[d] /\ job'[d] = job[d]
Gives(c) ==        \* it ends
  /\ Working(c) /\ ~Working(c)' /\ lock' = IF lock = job[c].id THEN NoTxn ELSE lock
  /\ \A d \in Clients \ {c} : pc'[d] = pc[d] /\ job'[d] = job[d]
Vanishes(c) ==     \* it is killed
  /\ Working(c) /\ ~Working(c)' /\ UNCHANGED lock
  /\ \A d \in Clients \ {c} : pc'[d] = pc[d] /\ job'[d] = job[d]

\* The steps of a session, seen from the lock.
LEMMA SessionSteps ==
  ASSUME Typed, NEW c \in Clients,
         \/ StartApply(c) \/ StartRollback(c) \/ Step(c)
         \/ ReadFails(c) \/ Interrupt(c) \/ Crash(c) \/ LoseScript(c)
  PROVE  GoesOn(c) \/ Begins(c) \/ Takes(c) \/ Strays(c) \/ Gives(c) \/ Vanishes(c)
<1>1. CASE StartApply(c) \/ StartRollback(c)
  <2>1. PICK kind, a, s : Start(c, kind, a, s)
    BY <1>1 DEF StartApply, StartRollback
  <2>2. /\ pc[c] = "idle" /\ pc'[c] = "acquire" /\ UNCHANGED lock
        /\ \A d \in Clients \ {c} : pc'[d] = pc[d] /\ job'[d] = job[d]
    BY <2>1, GotoTyped DEF Start, Typed, TypeOK
  <2>3. QED
    BY <2>2 DEF Begins, Working, Inside, Ended
<1>2. CASE Acquire(c)
  <2>1. pc[c] = "acquire" /\ ~Working(c) /\ job[c].id \in TxnIds
    BY <1>2 DEF Acquire, Working, Inside, Ended, Typed, SessionShape, Shape
  <2>2. CASE Leave(c)
    <3>1. UNCHANGED lock \/ (lock = NoTxn /\ lock' = job[c].id)
      BY <1>2, <2>1, <2>2, GotoTyped DEF Acquire, Leave, Typed
    <3>2. QED
      BY <2>1, <2>2, <3>1, LeaveFrame DEF Begins, Strays
  <2>3. CASE /\ lock = NoTxn /\ lock' = job[c].id /\ UNCHANGED job
             /\ Goto(c, IF IsRollback(job[c]) THEN "target" ELSE "lookup")
    <3>1. pc'[c] \in Inside /\ \A d \in Clients \ {c} : pc'[d] = pc[d]
      BY <2>3, GotoTyped DEF Typed, Inside
    <3>2. QED
      BY <2>3, <3>1 DEF Takes, Working
  <2>4. QED
    BY <1>2, <2>2, <2>3 DEF Acquire
<1>3. CASE Release(c)
  BY <1>3, LeaveFrame DEF Release, Gives, Working
<1>4. CASE Crash(c)
  BY <1>4, LeaveFrame DEF Crash, Local, Vanishes, Working
<1>5. CASE LoseScript(c)
  <2>1. pc[c] \in Inside /\ Working(c) /\ UNCHANGED lock
    BY <1>5 DEF LoseScript, Working, Inside
  <2>2. CASE Leave(c)
    BY <2>1, <2>2, LeaveFrame DEF Vanishes
  <2>3. CASE (Raise(c) \/ Goto(c, "finally")) /\ UNCHANGED job
    BY <2>1, <2>3, RaiseTyped, GotoTyped DEF GoesOn, Working, Places, Typed, Inside, Ended
  <2>4. QED
    BY <1>5, <2>2, <2>3 DEF LoseScript
<1>6. QED
  BY <1>1, <1>2, <1>3, <1>4, <1>5, UploadsGoOn, ChecksGoOn, JobsGoOn DEF Step

\* The steps of the others do not touch the sessions, and the operator removes
\* a lock when none is past acquire().
LEMMA OtherSteps ==
  ASSUME \/ LeftStarts \/ LeftChecks \/ LeftWrites \/ LeftEnds
         \/ ExternalEdit \/ OperatorUnlock \/ UNCHANGED vars
  PROVE  /\ UNCHANGED <<pc, job>>
         /\ UNCHANGED lock \/ (lock # NoTxn /\ lock' = NoTxn /\ \A d \in Clients : ~Working(d))
BY DEF LeftStarts, LeftChecks, LeftWrites, LeftEnds, LeftFrame, ExternalEdit, Edit, OperatorUnlock, vars

\* The lock changes hands only when nobody is past acquire().
LEMMA NextIds ==
  ASSUME Typed, SessionIds, [Next]_vars
  PROVE  SessionIds'
<1>1. CASE UNCHANGED <<pc, job>> /\ (UNCHANGED lock \/ \A d \in Clients : ~Working(d))
  <2>1. \A d \in Clients : Working(d)' <=> Working(d)
    BY <1>1 DEF Working
  <2>2. QED
    BY <1>1, <2>1 DEF SessionIds, Exclusive
<1>2. ASSUME NEW c \in Clients,
             GoesOn(c) \/ Begins(c) \/ Takes(c) \/ Strays(c) \/ Gives(c) \/ Vanishes(c)
      PROVE  SessionIds'
  <2>1. \A d \in Clients \ {c} : (Working(d)' <=> Working(d)) /\ job'[d].id = job[d].id
    BY <1>2 DEF GoesOn, Begins, Takes, Strays, Gives, Vanishes, Working
  <2>2. CASE GoesOn(c) \/ Begins(c) \/ Vanishes(c)
    BY <2>1, <2>2, IdsFrame DEF GoesOn, Begins, Vanishes
  <2>3. CASE Takes(c) \/ Strays(c)
    <3>1. \A d \in Clients \ {c} : ~Working(d)'
      BY <2>1, <2>3, FreeMeansNobody DEF Takes, Strays, Typed
    <3>2. Working(c)' => lock' = job'[c].id
      BY <2>3 DEF Takes, Strays
    <3>3. QED
      BY <3>1, <3>2 DEF SessionIds, Exclusive
  <2>4. CASE Gives(c)
    <3>1. \A d \in Clients : ~Working(d)'
      BY <2>1, <2>4 DEF Gives, SessionIds, Exclusive
    <3>2. QED
      BY <3>1 DEF SessionIds, Exclusive
  <2>5. QED
    BY <1>2, <2>2, <2>3, <2>4
<1>3. QED
  BY <1>1, <1>2, SessionSteps, OtherSteps DEF Next

\* The lock carries the id of the session that is past acquire(), and there is
\* one such session at most: release() tests for the id before it removes the
\* lock, acquire() finds the lock free.  Two sessions may well have the same id.
THEOREM SessionInvariant == Spec => []SessionInv
<1>1. Init => SessionIds
  BY DEF Init, SessionIds, Exclusive, Working, Inside, Ended
<1>2. Typed /\ SessionIds /\ [Next]_vars => SessionIds'
  BY NextIds
<1>3. Typed <=> TypeOK /\ SessionShape
  BY DEF Typed
<1>4. QED
  BY <1>1, <1>2, <1>3, TypeCorrect, PTL DEF Spec, SessionInv

\* Sessions that are past acquire() exclude one another, for any number of
\* clients, whatever calls fail, wherever sessions are killed and however their
\* ids collide.
THEOREM SessionsExclude == Spec => []Exclusive
<1>1. SessionInv => Exclusive
  BY DEF SessionInv, SessionIds
<1>2. QED
  BY <1>1, SessionInvariant, PTL

-----------------------------------------------------------------------------
(* Seen from outside, the lock is the one of AbstractLock. *)

\* The session that is past acquire() is the holder of the lock.
HolderIsWorker ==
  \A c \in Clients : Working(c) => Holder = c /\ Workers = {c} /\ lock # NoTxn
LEMMA HolderWorks == SessionInv => HolderIsWorker
<1> SUFFICES ASSUME SessionInv, NEW c \in Clients, Working(c)
             PROVE  Holder = c /\ Workers = {c} /\ lock # NoTxn
  BY DEF HolderIsWorker
<1>1. \A d \in Clients : Working(d) => d = c
  BY DEF SessionInv, SessionIds, Exclusive
<1>2. lock # NoTxn
  BY FreeMeansNobody DEF SessionInv
<1>3. (CHOOSE d \in Clients : Working(d)) = c
  BY <1>1
<1>4. QED
  BY <1>1, <1>2, <1>3 DEF Holder, Workers

\* Without one the lock is free or left over.
LEMMA NobodyWorks ==
  ASSUME \A d \in Clients : ~Working(d)
  PROVE  Holder = (IF lock = NoTxn THEN "free" ELSE "left over") /\ Workers = {}
BY DEF Holder, Workers

\* Every step of Deploy is one of AbstractLock, or none.
LEMMA LockSteps ==
  ASSUME Typed, SessionInv, SessionInv', [Next]_vars
  PROVE  [Lock!Next]_<<Holder, Workers>>
<1>0. HolderIsWorker /\ HolderIsWorker'
  BY HolderWorks, PTL
<1>1. ASSUME \A d \in Clients : Working(d)' <=> Working(d), UNCHANGED lock
      PROVE  UNCHANGED <<Holder, Workers>>
  <2>1. CASE \E d \in Clients : Working(d)
    BY <1>0, <1>1, <2>1 DEF HolderIsWorker
  <2>2. CASE \A d \in Clients : ~Working(d)
    BY <1>1, <2>2 DEF Holder, Workers
  <2>3. QED
    BY <2>1, <2>2
<1>2. CASE /\ UNCHANGED <<pc, job>>
           /\ UNCHANGED lock \/ (lock # NoTxn /\ lock' = NoTxn /\ \A d \in Clients : ~Working(d))
  <2>1. \A d \in Clients : Working(d)' <=> Working(d)
    BY <1>2 DEF Working
  <2>2. CASE UNCHANGED lock
    BY <1>1, <2>1, <2>2
  <2>3. CASE lock # NoTxn /\ lock' = NoTxn /\ \A d \in Clients : ~Working(d)
    <3>1. Holder = "left over" /\ Holder' = "free" /\ UNCHANGED Workers
      BY <2>1, <2>3 DEF Holder, Workers
    <3>2. QED
      BY <3>1 DEF Lock!Next, Lock!Clear
  <2>4. QED
    BY <1>2, <2>2, <2>3
<1>3. ASSUME NEW c \in Clients,
             GoesOn(c) \/ Begins(c) \/ Takes(c) \/ Strays(c) \/ Gives(c) \/ Vanishes(c)
      PROVE  [Lock!Next]_<<Holder, Workers>>
  <2>1. \A d \in Clients \ {c} : Working(d)' <=> Working(d)
    BY <1>3 DEF GoesOn, Begins, Takes, Strays, Gives, Vanishes, Working
  <2>2. CASE GoesOn(c) \/ Begins(c)
    <3>1. Working(c)' <=> Working(c)
      BY <2>2 DEF GoesOn, Begins, Working
    <3>2. QED
      BY <1>1, <2>1, <2>2, <3>1 DEF GoesOn, Begins
  <2>3. CASE Takes(c)
    <3>1. \A d \in Clients : ~Working(d)
      BY <2>3, FreeMeansNobody DEF Takes, SessionInv
    <3>2. Holder = "free" /\ Workers = {}
      BY <2>3, <3>1, NobodyWorks DEF Takes
    <3>3. Holder' = c /\ Workers' = {c}
      BY <1>0, <2>3 DEF Takes, HolderIsWorker
    <3>4. QED
      BY <3>2, <3>3 DEF Lock!Next, Lock!Take
  <2>4. CASE Strays(c)
    <3>1. \A d \in Clients : ~Working(d) /\ ~Working(d)'
      BY <2>1, <2>4, FreeMeansNobody DEF Strays, SessionInv
    <3>2. lock = NoTxn /\ lock' # NoTxn
      BY <2>4, BoundsAssumption DEF Strays, TxnIds, NoTxn
    <3>3. Holder = "free" /\ Holder' = "left over" /\ UNCHANGED Workers
      BY <3>1, <3>2 DEF Holder, Workers
    <3>4. QED
      BY <3>3 DEF Lock!Next, Lock!Stray
  <2>5. CASE Gives(c) \/ Vanishes(c)
    <3>1. Holder = c /\ Workers = {c} /\ lock # NoTxn /\ lock = job[c].id
      BY <1>0, <2>5 DEF Gives, Vanishes, SessionInv, SessionIds, HolderIsWorker
    <3>2. \A d \in Clients : ~Working(d)'
      BY <2>1, <2>5, <3>1 DEF Gives, Vanishes, Workers
    <3>3. CASE Gives(c)
      <4>1. Holder' = "free" /\ Workers' = {}
        BY <3>1, <3>2, <3>3 DEF Gives, Holder, Workers
      <4>2. QED
        BY <3>1, <4>1 DEF Lock!Next, Lock!Give
    <3>4. CASE Vanishes(c)
      <4>1. Holder' = "left over" /\ Workers' = {}
        BY <3>1, <3>2, <3>4 DEF Vanishes, Holder, Workers
      <4>2. QED
        BY <3>1, <4>1 DEF Lock!Next, Lock!Abandon
    <3>5. QED
      BY <2>5, <3>3, <3>4
  <2>6. QED
    BY <1>3, <2>2, <2>3, <2>4, <2>5
<1>4. QED
  BY <1>2, <1>3, SessionSteps, OtherSteps DEF Next

\* The sessions of Deploy use the atomic lock of AbstractLock, which the remote
\* scripts of RemoteLock implement.
THEOREM LockImplemented == Spec => ImplementsLock
<1>1. Init => Lock!Init
  BY DEF Init, Lock!Init, Holder, Workers, Working, Inside, Ended
<1>2. Typed /\ SessionInv /\ SessionInv' /\ [Next]_vars => [Lock!Next]_<<Holder, Workers>>
  BY LockSteps
<1>3. Typed <=> TypeOK /\ SessionShape
  BY DEF Typed
<1>4. QED
  BY <1>1, <1>2, <1>3, TypeCorrect, SessionInvariant, PTL DEF Spec, ImplementsLock, Lock!Spec

=============================================================================
