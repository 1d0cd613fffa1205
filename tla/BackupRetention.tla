--------------------------- MODULE BackupRetention ---------------------------
(***************************************************************************)
(* Which complete backups are deleted (select_retention_deletions).        *)
(*                                                                         *)
(* The backups and what points at them belong to a remote engine that uses *)
(* the selection: it makes backups, with timestamps of one second and from *)
(* clocks that disagree, moves its pointers, and deletes what the          *)
(* selection names, one after the other, unless it is killed before it is  *)
(* done.                                                                   *)
(***************************************************************************)
EXTENDS Naturals, Sequences, FiniteSets, SequencesExt

CONSTANTS
  Ids,        \* backup identifiers: numbers, in their order
  Times,      \* created_at: numbers, in their order
  Retention   \* backup.retention

\* Identifiers and times are compared; the code refuses a retention below 1.
ASSUME RetentionAssumption == Ids \subseteq Nat \ {0} /\ Times \subseteq Nat /\ Retention \in Nat \ {0}

NoBackup == 0

VARIABLES
  backups,    \* the backups that exist
  baselineId, latestId, active,
  deletions,  \* what is selected and not deleted yet
  stage,      \* "ready", "deleting", or "refused" for a selection that failed
  former      \* history: the backups there were when the selection was made

retentionVars == <<backups, baselineId, latestId, active, deletions, stage, former>>

\* A pre_rollback backup is treated as a pre_apply one.
Backups == [id : Ids, created : Times, kind : {"baseline", "pre_apply"}]

\* validate_backup_metadata: baselines are protected, and nothing else is.
Protected(b) == b.kind = "baseline"

-----------------------------------------------------------------------------
(* select_retention_deletions. *)

ByTimeOnly(a, b) == a.created < b.created  \* mutant: the identifier does not count
Older(a, b) == a.created < b.created \/ (a.created = b.created /\ a.id < b.id)

Everything(S) == S  \* mutant: baselines are selected like the others
Unprotected(S) == {b \in S : ~Protected(b)}
Referenced == ({baselineId, latestId} \cup active) \ {NoBackup}

Acceptable(S) ==
  /\ Referenced \subseteq {b.id : b \in S}
  /\ \A b \in S : b.id = baselineId => b.kind = "baseline"

\* The newest are kept, and those that something refers to.
NewestOnly(S) == \* mutant: what is referenced is not added
  {b \in Unprotected(S) : Cardinality({c \in Unprotected(S) : Older(b, c)}) < Retention}
Kept(S) ==
  {b \in Unprotected(S) : Cardinality({c \in Unprotected(S) : Older(b, c)}) < Retention}
    \cup {b \in S : b.id \in Referenced}

\* In the order of their age, the oldest first.
YoungestFirst(S) == \* mutant: the order of the first sort is kept
  CHOOSE d \in SetToSeqs(Unprotected(S) \ Kept(S)) : \A i, j \in DOMAIN d : i < j => ~Older(d[i], d[j])
Deletions(S) ==
  CHOOSE d \in SetToSeqs(Unprotected(S) \ Kept(S)) : \A i, j \in DOMAIN d : i < j => ~Older(d[j], d[i])

Select ==
  /\ stage = "ready"
  /\ IF Acceptable(backups)
     THEN deletions' = Deletions(backups) /\ stage' = "deleting"
     ELSE stage' = "refused" /\ UNCHANGED deletions
  /\ former' = backups
  /\ UNCHANGED <<backups, baselineId, latestId, active>>

-----------------------------------------------------------------------------
(* The engine. *)

\* A backup is made for an operation that is active from then on, or as the
\* baseline, unless the engine is killed before it points to it.
MakeBackup ==
  /\ stage = "ready"
  /\ \E b \in Backups :
       /\ b.id \notin {c.id : c \in backups}
       /\ backups' = backups \cup {b}
       /\ IF b.kind = "baseline"
          THEN baselineId = NoBackup /\ baselineId' \in {baselineId, b.id} /\ UNCHANGED active
          ELSE active' = active \cup {b.id} /\ UNCHANGED baselineId
  /\ UNCHANGED <<latestId, deletions, stage, former>>

\* The operation succeeds, and latest moves to its backup, or it fails.
EndOperation ==
  /\ stage = "ready"
  /\ \E i \in active : active' = active \ {i} /\ latestId' \in {latestId, i}
  /\ UNCHANGED <<backups, baselineId, deletions, stage, former>>

DeleteNext ==
  /\ stage = "deleting" /\ deletions # <<>>
  /\ backups' = {b \in backups : b.id # Head(deletions).id}
  /\ deletions' = Tail(deletions)
  /\ UNCHANGED <<baselineId, latestId, active, stage, former>>

\* Everything is deleted, or the engine is killed.
StopDeleting ==
  /\ stage = "deleting"
  /\ stage' = "ready" /\ deletions' = <<>> /\ former' = {}
  /\ UNCHANGED <<backups, baselineId, latestId, active>>

-----------------------------------------------------------------------------

RetentionInit ==
  /\ backups = {} /\ baselineId = NoBackup /\ latestId = NoBackup /\ active = {}
  /\ deletions = <<>> /\ stage = "ready" /\ former = {}

RetentionNext == Select \/ MakeBackup \/ EndOperation \/ DeleteNext \/ StopDeleting

-----------------------------------------------------------------------------
(* Properties. *)

\* Every variable stays in its range, and no baseline is ever selected.
RetentionTypeOK ==
  /\ backups \subseteq Backups /\ former \subseteq Backups
  /\ {baselineId, latestId} \subseteq Ids \cup {NoBackup} /\ active \subseteq Ids
  /\ ToSet(deletions) \subseteq {b \in Backups : b.kind # "baseline"}
  /\ stage \in {"ready", "deleting", "refused"}

\* Nothing that is needed is ever deleted: the baseline, what latest names and
\* the backups of operations under way stay, so that no selection finds a
\* pointer without its backup.
ReferencesHold ==
  /\ stage # "refused"
  /\ Referenced \subseteq {b.id : b \in backups}
  /\ \A b \in former : b.kind = "baseline" => b \in backups

\* Between two deletions, and hence wherever the engine is killed, there is no
\* gap: a backup that is gone and was not needed is older than all those that
\* nobody needs and that are still there.
NoGaps ==
  stage = "deleting" =>
    \A gone \in former \ backups, b \in Unprotected(backups) :
      b.id \notin Referenced => Older(gone, b)

\* As many of the newest as retention says are there whenever a selection has
\* been carried out in part or in full, whatever else is referred to; and no more
\* that nobody needs are left once it has been carried out, even if all of them
\* were made in one second.
NewestSurvive ==
  stage = "deleting" =>
    /\ \A b \in Unprotected(former) :
         Cardinality({c \in Unprotected(former) : Older(b, c)}) < Retention => b \in backups
    /\ deletions = <<>> =>
         Cardinality({b \in Unprotected(backups) : b.id \notin Referenced}) <= Retention

=============================================================================
