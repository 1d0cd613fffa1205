----------------------------- MODULE ScopeClaims -----------------------------
(***************************************************************************)
(* What the documentation says of scopes and the code does not keep, as a  *)
(* property of ScopePlan.                                                  *)
(***************************************************************************)
EXTENDS ScopePlan

\* configuration.md:77: files from the archive are written over matching remote
\* files.  So a file that the archive ships and the server has is planned as a
\* file to replace or to skip, never to create, which the preflight refuses,
\* whichever way the configuration came to ship it.
MatchingFilesAreSeen ==
  stage = "preflight" =>
    \A p \in Shipped : Untouched(p) /\ server[p] # "absent" => plan[p] # "create"

=============================================================================
