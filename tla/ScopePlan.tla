----------------------------- MODULE ScopePlan -----------------------------
(***************************************************************************)
(* One deployment after another with one configuration: package a release, *)
(* fetch what the configuration covers of the server, compute the plan     *)
(* (execution_plan.py) and the report (planner.py) from what was fetched,  *)
(* check the plan against the server itself, and write.  Users of the site *)
(* add and change files of the server between two deployments.             *)
(*                                                                         *)
(* Deploy models what can go wrong while a plan is carried out, and takes  *)
(* it for granted that a plan sees every file it is about; this module is  *)
(* about what the plan sees.                                               *)
(***************************************************************************)
EXTENDS Scopes

CONSTANTS
  Configs,    \* deploy configurations
  Trees,      \* working trees, one for each release
  Servers,    \* document roots before the first deployment
  ServerFiles, \* paths that users of the site may write
  MaxReleases, \* bound: deployments
  MaxEdits    \* bound: changes by users

ASSUME ConfigsAssumption == \A config \in Configs : Parses(config)
ASSUME TreesAssumption == Trees \subseteq [Paths -> Contents]
\* What is in a file of the server is not looked at: a pointer is a version like others.
ASSUME ServersAssumption == Servers \subseteq [Paths -> Contents \ {"lfs"}] /\ ServerFiles \subseteq Paths
ASSUME BoundsAssumption == MaxReleases \in Nat /\ MaxEdits \in Nat

VARIABLES
  config,
  server,    \* the document root
  stage,     \* package -> fetch -> plan -> preflight -> write, and again; or failed
  archive,   \* what the archive ships at each path, or "absent"
  snapshot,  \* the files fetched
  plan,      \* the operation for each path of the archive
  edited,    \* history: the files that users wrote since they were fetched
  releases, edits

vars == <<config, server, stage, archive, snapshot, plan, edited, releases, edits>>

Ops == {"create", "replace", "skip"} \* a conflict is a directory: see Deploy
Nothing == [p \in Paths |-> "absent"]
Shipped == {p \in Paths : archive[p] # "absent"}

\* Every variable stays in its range, and the plan is about the archive.
TypeOK ==
  /\ config \in Configs /\ server \in [Paths -> Contents \ {"lfs"}]
  /\ stage \in {"package", "fetch", "plan", "preflight", "write", "failed"}
  /\ archive \in [Paths -> Versions \cup {"absent"}]
  /\ snapshot \in [Paths -> Versions \cup {"absent"}]
  /\ stage \in {"preflight", "write"} => plan \in [Shipped -> Ops]
  /\ edited \subseteq ServerFiles /\ releases \in 0..MaxReleases /\ edits \in 0..MaxEdits

Init ==
  /\ config \in Configs /\ server \in Servers
  /\ stage = "package" /\ archive = Nothing /\ snapshot = Nothing /\ plan = <<>>
  /\ edited = {} /\ releases = 0 /\ edits = 0

-----------------------------------------------------------------------------

\* What a scope of the configuration ships of a working tree.
Inputs(scope, tree) ==
  TrackedInputs(config, scope, tree) \cup
  UNION {GeneratedInputs(config, scope, g, tree) : g \in scope.generated}
Sources(tree, q) ==
  UNION {{p \in Inputs(scope, tree) : TargetOf(scope, p) = q} : scope \in ScopesOf(config)}

\* The working trees that package without an error (Packaging has the rest).
Packable(tree) ==
  /\ \A scope \in ScopesOf(config) : Inputs(scope, tree) # {} /\ GeneratedReady(config, scope, tree)
  /\ \A q \in Paths : Cardinality(Sources(tree, q)) <= 1
  /\ \A q \in Paths : \A p \in Sources(tree, q) : tree[p] \in Versions /\ Last(q) # ManifestName

Package ==
  /\ stage = "package" /\ releases < MaxReleases
  /\ \E tree \in Trees :
       /\ Packable(tree)
       /\ archive' = [q \in Paths |-> IF Sources(tree, q) = {} THEN "absent"
                                      ELSE tree[CHOOSE p \in Sources(tree, q) : TRUE]]
  /\ releases' = releases + 1
  /\ stage' = "fetch"
  /\ UNCHANGED <<config, server, snapshot, plan, edited, edits>>

FetchAll == \* mutant: the types of the members are not looked at
  /\ stage = "fetch" /\ stage' = "plan"
  /\ snapshot' = Snapshot(config, server) /\ edited' = {}
  /\ UNCHANGED <<config, server, archive, plan, releases, edits>>

\* fetch_remote_archive: one symbolic link among the fetched files ends it.
Fetch ==
  /\ stage = "fetch"
  /\ LET s == Snapshot(config, server) IN
     IF \E p \in Paths : s[p] = "link"
     THEN stage' = "failed" /\ UNCHANGED <<snapshot, edited>>
     ELSE stage' = "plan" /\ snapshot' = s /\ edited' = {}
  /\ UNCHANGED <<config, server, archive, plan, releases, edits>>

\* build_execution_plan, then ensure_no_conflicts.
Operation(p) ==
  CASE snapshot[p] = "absent" -> "create"
    [] snapshot[p] = archive[p] -> "skip"
    [] OTHER -> "replace"

BuildPlan ==
  /\ stage = "plan"
  /\ plan' = [p \in Shipped |-> Operation(p)]
  /\ stage' = "preflight"
  /\ UNCHANGED <<config, server, archive, snapshot, edited, releases, edits>>

\* apply_preflight_body looks at the server itself: in a script of its own, and
\* again at the head of the script that writes.
HoldsThroughout(p) == \* mutant: files that are skipped are tested too
  IF plan[p] = "create" THEN server[p] = "absent" ELSE server[p] = snapshot[p]
Holds(p) ==
  CASE plan[p] = "create" -> server[p] = "absent"
    [] plan[p] = "replace" -> server[p] = snapshot[p]
    [] OTHER -> TRUE

Preflight ==
  /\ stage = "preflight"
  /\ stage' = IF \A p \in Shipped : Holds(p) THEN "write" ELSE "failed"
  /\ UNCHANGED <<config, server, archive, snapshot, plan, edited, releases, edits>>

\* The archive's created and replaced files are written.  (What users do to a
\* file between the test at the head of the script and its turn, and what is left
\* of a script that fails, is in Deploy.)
Write ==
  /\ stage = "write"
  /\ IF \A p \in Shipped : Holds(p)
     THEN /\ server' = [p \in Paths |-> IF p \in Shipped /\ plan[p] # "skip" THEN archive[p] ELSE server[p]]
          /\ stage' = "package"
     ELSE stage' = "failed" /\ UNCHANGED server
  /\ UNCHANGED <<config, archive, snapshot, plan, edited, releases, edits>>

\* A user of the site writes or deletes a file.
Edit ==
  /\ edits < MaxEdits /\ stage # "failed"
  /\ edits' = edits + 1
  /\ \E p \in ServerFiles, v \in Contents \ {"lfs"} :
       /\ v # server[p]
       /\ server' = [server EXCEPT ![p] = v]
       /\ edited' = edited \cup {p}
  /\ UNCHANGED <<config, stage, archive, snapshot, plan, releases>>

Next == Package \/ Fetch \/ BuildPlan \/ Preflight \/ Write \/ Edit
Spec == Init /\ [][Next]_vars

-----------------------------------------------------------------------------
(* The report on the same snapshot: compute_scope_plan of each scope. *)

\* list_files and path_matches_scope.
Listed(scope, files) ==
  {p \in Paths : files[p] # "absent" /\ InScope(config, scope, p)
                 /\ Relative(p, scope.target) # <<ManifestName>>}
ChangedFiles(scope) ==
  {p \in Listed(scope, archive) \cap Listed(scope, snapshot) : archive[p] # snapshot[p]}
ArtifactOnly(scope) == Listed(scope, archive) \ Listed(scope, snapshot)
RemoteOnly(scope) == Listed(scope, snapshot) \ Listed(scope, archive)

-----------------------------------------------------------------------------
(* Properties. *)

Untouched(p) == p \notin edited

\* Whether a scope may ship a file to p, of whatever working tree.
MayShip(c, scope, p) ==
  LET rel == Relative(p, scope.target) IN
  /\ IsPrefix(scope.target, p)
  /\ \/ scope.include = {} \/ MatchesAny(rel, scope.include)
     \/ \E g \in scope.generated : IsPrefix(g.path, rel)
  /\ ~MatchesAny(rel, scope.exclude) /\ ~MatchesAny(p, scope.exclude) /\ ~MatchesAny(p, c.exclude)

\* Configurations that package and fetch alike: no include pattern is a glob,
\* generated inputs are below an include pattern, each exclude pattern means to
\* tar what it means to fnmatch, and none hides what another scope ships.
Aligned(c) ==
  /\ \A scope \in ScopesOf(c) :
       /\ \A i \in scope.include : i.form # "glob"
       /\ scope.include = {} \/ \A g \in scope.generated : \E i \in scope.include : IsPrefix(i.at, g.path)
  /\ \A pattern \in RemoteExcludes(c), p \in Paths : TarExcludes(p, pattern) => Match(p, pattern)
  /\ \A s, t \in ScopesOf(c) : s # t =>
       \A e \in s.exclude, p \in Paths : MayShip(c, t, p) => ~Match(p, AtTarget(s, e))

\* The plan says of each file what the server says: whoever wrote it before, a
\* release or a user, a file that is not there is created, one that differs is
\* replaced, and one that is the same is skipped, so that deploying a release
\* again changes nothing.
PlanIsOverlay ==
  stage = "preflight" /\ Aligned(config) =>
    \A p \in Shipped : Untouched(p) =>
      /\ plan[p] = "create" <=> server[p] = "absent"
      /\ plan[p] = "skip" <=> server[p] = archive[p]

\* Whatever the configuration, a deployment is given up for one of three reasons:
\* a symbolic link among the fetched files, a file of the server that is shipped
\* to but not fetched, or a file to write that a user wrote since the fetch.  What
\* users do to files that are not written never stops it.
FailsForAReason ==
  [][stage' = "failed" =>
       \/ \E p \in Paths : Fetched(config, p) /\ server[p] = "link"
       \/ \E p \in Shipped : ~Fetched(config, p) /\ server[p] # "absent"
       \/ \E p \in Shipped \cap edited : plan[p] # "skip"]_vars

\* What is reviewed is what is done: a tracked file that will be replaced is
\* reported as changed, one that will be created as missing on the server, and
\* one that will be skipped as neither, by some scope and by no scope otherwise.
ReportAgreesWithPlan ==
  stage = "preflight" =>
    LET Changed == UNION {ChangedFiles(scope) : scope \in ScopesOf(config)}
        Missing == UNION {ArtifactOnly(scope) : scope \in ScopesOf(config)}
        OfTracked == {p \in Shipped : \E scope \in ScopesOf(config) : InScope(config, scope, p)}
    IN  /\ \A p \in OfTracked : plan[p] = "replace" <=> p \in Changed
        /\ \A p \in OfTracked : plan[p] = "create" <=> p \in Missing
        /\ \A scope \in ScopesOf(config) : RemoteOnly(scope) \cap Shipped = {}
        /\ \A scope \in ScopesOf(config), p \in Tracked :
             Included(config, scope, p) /\ TargetOf(scope, p) \in Shipped
               => TargetOf(scope, p) \in OfTracked

=============================================================================
