----------------------------- MODULE DeployClaims -----------------------------
(***************************************************************************)
(* What the documentation says of apply and rollback and the code does not *)
(* keep.  Each definition is a sentence of docs/configuration.md, cited by *)
(* its line, as a property of Deploy; TLC shows how the code breaks it.    *)
(***************************************************************************)
EXTENDS Deploy

\* configuration.md:222: a retry after a failed apply attempts recovery instead
\* of blindly blocking.  So what a retry picks up has the plan that recovery
\* needs, and cannot go on without.
RetryHasPlan == \A c \in Clients : pc[c] = "state" => txn[job[c].tx].plan # None

\* configuration.md:223: a recovery goes on only when every planned file is as
\* it was or already matches the archive, so that one which succeeds has put
\* every file of the archive in place.
RecoveryDeliversArchive ==
  \A c \in Clients : pc[c] = "mark" /\ job[c].kind = "recover" =>
    \A f \in Shipped(job[c].arch) : root[f] = Payload[job[c].arch][f]

\* configuration.md:229: rollback --release latest restores the latest
\* successful apply, which is therefore in applied status whenever nobody is at
\* work.
LatestApplyIsApplied ==
  applyPtr \in TxnIds /\ (\A c \in Clients : pc[c] = "idle") => txn[applyPtr].rec.status = "applied"

=============================================================================
