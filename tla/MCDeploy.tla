------------------------------- MODULE MCDeploy -------------------------------
(***************************************************************************)
(* Small instances of Deploy for TLC: two paths, two releases.  Archive A  *)
(* ships both paths, archive B the first one; path 1 exists on the server  *)
(* before the tool is used, so that A replaces one file and creates one.   *)
(***************************************************************************)
EXTENDS DeployClaims, DeployUndo

MCReleaseOf == [a \in {"A", "B", "A2"} |-> IF a = "B" THEN "b" ELSE "a"]

\* A2 is another archive of the release of A.
MCPayload ==
  [a \in {"A", "B", "A2"} |->
     CASE a = "A" -> <<"a1", "a2">> [] a = "B" -> <<"b1", "absent">> [] OTHER -> <<"b1", "a2">>]
MCPayloadAB == [a \in {"A", "B"} |-> MCPayload[a]]
MCPayloadA == [a \in {"A"} |-> MCPayload[a]]
MCPayloadAA2 == [a \in {"A", "A2"} |-> MCPayload[a]]

\* Four seconds; in each of them up to four different ids, in an arbitrary order.
MCIdOf ==
  [s \in 1..MaxSeconds |-> [x \in Archives \cup {None} |->
     4 * (s - 1) + CASE x = "A" -> 2 [] x = "B" -> 4 [] x = "A2" -> 1 [] OTHER -> 3]]

MCData == {"old", "a1", "a2", "b1", "manual"}
MCRoot == <<"old", "absent">>

\* The first path is what A ships already: A skips it.
MCRootSkip == <<"a1", "absent">>

=============================================================================
