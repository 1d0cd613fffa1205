-------------------------- MODULE ScopePlan_proofs --------------------------
(* The plan and the server, for all configurations, trees and servers.       *)
EXTENDS ScopePlan, Scopes_proofs

\* Of a file that nobody wrote since, the server has what was fetched.
SnapshotInv ==
  stage \in {"plan", "preflight", "write"} =>
    \A p \in Paths \ edited : snapshot[p] = Snapshot(config, server)[p]

\* A plan is computed from the snapshot.
PlanInv == stage \in {"preflight", "write"} => plan = [p \in Shipped |-> Operation(p)]

\* The document root has a state for each path and no other.
ServerInv == server = [p \in Paths |-> server[p]]

FullInv == SnapshotInv /\ PlanInv /\ ServerInv

\* Each operation keeps the three parts.
LEMMA InvStep == FullInv /\ [Next]_vars => FullInv'
<1> SUFFICES ASSUME FullInv, [Next]_vars PROVE FullInv'
  OBVIOUS
<1> USE DEF FullInv
<1>1. CASE Package
  BY <1>1 DEF Package, SnapshotInv, PlanInv, ServerInv
<1>2. CASE Fetch
  BY <1>2 DEF Fetch, SnapshotInv, PlanInv, ServerInv, Snapshot
<1>3. CASE BuildPlan
  BY <1>3 DEF BuildPlan, SnapshotInv, PlanInv, ServerInv, Shipped, Operation, Snapshot
<1>4. CASE Preflight
  BY <1>4 DEF Preflight, SnapshotInv, PlanInv, ServerInv, Shipped, Operation, Holds, Snapshot
<1>5. CASE Write
  BY <1>5 DEF Write, SnapshotInv, PlanInv, ServerInv
<1>6. CASE Edit
  BY <1>6 DEF Edit, SnapshotInv, PlanInv, ServerInv, Snapshot, Shipped, Operation
<1>7. CASE UNCHANGED vars
  BY <1>7 DEF vars, SnapshotInv, PlanInv, ServerInv, Snapshot, Shipped, Operation, Holds
<1>8. QED
  BY <1>1, <1>2, <1>3, <1>4, <1>5, <1>6, <1>7 DEF Next

\* The three parts hold before the first deployment.
LEMMA InvInit == Init => FullInv
BY ServersAssumption DEF Init, FullInv, SnapshotInv, PlanInv, ServerInv

\* Whatever the configuration, a deployment is given up for a symbolic link, for
\* a file that the fetch does not show, or for a file to write that a user wrote
\* since.
THEOREM FailsOnlyForAReason == Spec => FailsForAReason
<1> DEFINE Reason == \/ \E p \in Paths : Fetched(config, p) /\ server[p] = "link"
                     \/ \E p \in Shipped : ~Fetched(config, p) /\ server[p] # "absent"
                     \/ \E p \in Shipped \cap edited : plan[p] # "skip"
<1>1. FullInv /\ [Next]_vars => [stage' = "failed" => Reason]_vars
  <2> SUFFICES ASSUME FullInv, [Next]_vars, vars' # vars, stage' = "failed" PROVE Reason
    OBVIOUS
  <2>1. ASSUME stage \in {"preflight", "write"}, NEW p \in Shipped, ~Holds(p) PROVE Reason
    <3>1. plan[p] = Operation(p) /\ p \in Paths /\ archive[p] # "absent"
      BY <2>1 DEF FullInv, PlanInv, Shipped
    <3>2. plan[p] # "skip" /\ server[p] # snapshot[p] /\ (snapshot[p] = "absent" => server[p] # "absent")
      BY <2>1, <3>1 DEF Holds, Operation
    <3>3. CASE p \in edited
      BY <3>2, <3>3
    <3>4. CASE p \notin edited
      <4>1. snapshot[p] = Snapshot(config, server)[p]
        BY <2>1, <3>1, <3>4 DEF FullInv, SnapshotInv
      <4>2. ~Fetched(config, p) /\ snapshot[p] = "absent"
        BY <3>1, <3>2, <4>1 DEF Snapshot
      <4>3. QED
        BY <3>2, <4>2
    <3>5. QED
      BY <3>3, <3>4
  <2>2. CASE Fetch
    BY <2>2 DEF Fetch, Snapshot
  <2>3. CASE Preflight
    BY <2>1, <2>3 DEF Preflight
  <2>4. CASE Write
    BY <2>1, <2>4 DEF Write
  <2>5. QED
    BY <2>2, <2>3, <2>4 DEF Next, Package, BuildPlan, Edit
<1>2. QED
  BY <1>1, InvInit, InvStep, PTL DEF Spec, FailsForAReason

-----------------------------------------------------------------------------
(* Types. *)

LEMMA TypeStep == TypeOK /\ [Next]_vars => TypeOK'
<1> SUFFICES ASSUME TypeOK, [Next]_vars PROVE TypeOK'
  OBVIOUS
<1> USE DEF TypeOK
<1>1. CASE Package
  <2>1. PICK tree \in Trees :
          /\ Packable(tree)
          /\ archive' = [q \in Paths |-> IF Sources(tree, q) = {} THEN "absent"
                                         ELSE tree[CHOOSE p \in Sources(tree, q) : TRUE]]
    BY <1>1 DEF Package
  <2>2. ASSUME NEW q \in Paths, Sources(tree, q) # {}
        PROVE  tree[CHOOSE p \in Sources(tree, q) : TRUE] \in Versions
    <3>1. (CHOOSE p \in Sources(tree, q) : TRUE) \in Sources(tree, q)
      BY <2>2
    <3>2. QED
      BY <2>1, <3>1 DEF Packable
  <2>3. archive' \in [Paths -> Versions \cup {"absent"}]
    BY <2>1, <2>2
  <2>4. releases' \in 0..MaxReleases
    BY <1>1, BoundsAssumption DEF Package
  <2>5. QED
    BY <1>1, <2>3, <2>4 DEF Package
<1>2. CASE Fetch
  <2>1. ASSUME \A p \in Paths : Snapshot(config, server)[p] # "link"
        PROVE  Snapshot(config, server) \in [Paths -> Versions \cup {"absent"}]
    BY <2>1 DEF Snapshot, Contents
  <2>2. QED
    BY <1>2, <2>1 DEF Fetch
<1>3. CASE BuildPlan
  BY <1>3 DEF BuildPlan, Shipped, Operation, Ops
<1>4. CASE Preflight
  BY <1>4 DEF Preflight, Shipped
<1>5. CASE Write
  BY <1>5, VersionsAssumption DEF Write, Shipped, Contents
<1>6. CASE Edit
  BY <1>6, ServersAssumption, BoundsAssumption DEF Edit, Shipped
<1>7. CASE UNCHANGED vars
  BY <1>7 DEF vars, Shipped
<1>8. QED
  BY <1>1, <1>2, <1>3, <1>4, <1>5, <1>6, <1>7 DEF Next

\* Every variable stays in its range: TypeOK.
THEOREM TypeCorrect == Spec => []TypeOK
<1>1. Init => TypeOK
  BY ServersAssumption, BoundsAssumption DEF Init, TypeOK, Nothing
<1>2. QED
  BY <1>1, TypeStep, PTL DEF Spec

-----------------------------------------------------------------------------
(* The report. *)

\* No file is shipped under the name of the manifest.
NamesInv == \A p \in Shipped : Last(p) # ManifestName

LEMMA NamesStep == NamesInv /\ [Next]_vars => NamesInv'
<1> SUFFICES ASSUME NamesInv, [Next]_vars PROVE NamesInv'
  OBVIOUS
<1>1. CASE Package
  <2>1. PICK tree \in Trees :
          /\ Packable(tree)
          /\ archive' = [q \in Paths |-> IF Sources(tree, q) = {} THEN "absent"
                                         ELSE tree[CHOOSE p \in Sources(tree, q) : TRUE]]
    BY <1>1 DEF Package
  <2>2. ASSUME NEW q \in Paths, archive'[q] # "absent"
        PROVE  Last(q) # ManifestName
    BY <2>1, <2>2 DEF Packable
  <2>3. QED
    BY <2>2 DEF NamesInv, Shipped
<1>2. CASE UNCHANGED archive
  BY <1>2 DEF NamesInv, Shipped
<1>3. QED
  BY <1>1, <1>2 DEF Next, Fetch, BuildPlan, Preflight, Write, Edit, vars

\* Scopes and paths are sequences of names.
LEMMA ScopeTypes ==
  ASSUME TypeOK, NEW scope \in ScopesOf(config)
  PROVE  scope.source \in Seq(STRING) /\ scope.target \in Seq(STRING)
BY ConfigsAssumption DEF TypeOK, Parses

\* The scope that a shipped file is within lists it, whichever side it is on.
LEMMA ShippedIsListed ==
  ASSUME TypeOK, NamesInv, NEW scope \in ScopesOf(config), NEW p \in Shipped,
         InScope(config, scope, p)
  PROVE  /\ p \in Listed(scope, archive)
         /\ p \in Listed(scope, snapshot) <=> snapshot[p] # "absent"
<1>1. p \in Seq(STRING) /\ p \in Paths /\ archive[p] # "absent"
  BY PathsAssumption DEF Shipped
<1>2. Relative(p, scope.target) # <<ManifestName>>
  <2> SUFFICES ASSUME Relative(p, scope.target) = <<ManifestName>> PROVE FALSE
    OBVIOUS
  <2>1. IsPrefix(scope.target, p)
    BY DEF InScope
  <2>2. Last(p) = ManifestName
    BY <1>1, <2>1, ScopeTypes, RelativeName
  <2>3. QED
    BY <2>2 DEF NamesInv
<1>3. QED
  BY <1>1, <1>2 DEF Listed

\* A file that is included at its source is in the scope at its target: what the
\* patterns package they also report.
LEMMA IncludedIsInScope ==
  ASSUME TypeOK, NEW scope \in ScopesOf(config), NEW p \in Paths, Included(config, scope, p)
  PROVE  InScope(config, scope, TargetOf(scope, p))
<1>1. PICK r : r = Relative(p, scope.source)
  OBVIOUS
<1>2. PICK t : t = scope.target
  OBVIOUS
<1>3. r \in Seq(STRING)
  BY <1>1, PathsAssumption, ScopeTypes, RelativePath
<1>4. t \in Seq(STRING)
  BY <1>2, ScopeTypes
<1>5. PICK q : q = t \o r
  OBVIOUS
<1>6. IsPrefix(t, q) /\ Relative(q, t) = r
  BY <1>3, <1>4, <1>5, RelativeOfTarget
<1>7. TargetOf(scope, p) = q
  BY <1>1, <1>2, <1>5 DEF TargetOf
<1>8. /\ scope.include = {} \/ MatchesAny(r, scope.include)
      /\ ~MatchesAny(r, scope.exclude) /\ ~MatchesAny(q, scope.exclude) /\ ~MatchesAny(q, config.exclude)
  BY <1>1, <1>7 DEF Included, Excluded
<1>9. QED
  BY <1>2, <1>6, <1>7, <1>8 DEF InScope

\* What is reviewed is what is done: the report calls changed what the plan
\* replaces and missing what it creates, and lists every tracked file that is
\* shipped, for all configurations, trees and servers.
THEOREM ReportTrue == Spec => []ReportAgreesWithPlan
<1>1. TypeOK /\ NamesInv /\ FullInv => ReportAgreesWithPlan
  <2> SUFFICES ASSUME TypeOK, NamesInv, FullInv, stage = "preflight"
               PROVE  ReportAgreesWithPlan
    BY DEF ReportAgreesWithPlan
  <2>1. ASSUME NEW p \in Shipped, NEW scope \in ScopesOf(config), InScope(config, scope, p)
        PROVE  /\ plan[p] = "replace" <=> \E s \in ScopesOf(config) : p \in ChangedFiles(s)
               /\ plan[p] = "create" <=> \E s \in ScopesOf(config) : p \in ArtifactOnly(s)
    <3>1. plan[p] = Operation(p) /\ archive[p] # "absent" /\ p \in Paths
      BY DEF FullInv, PlanInv, Shipped
    <3>2. /\ p \in Listed(scope, archive)
          /\ p \in Listed(scope, snapshot) <=> snapshot[p] # "absent"
      BY <2>1, ShippedIsListed
    <3>3. ASSUME NEW s \in ScopesOf(config), p \in Listed(s, archive)
          PROVE  p \in Listed(s, snapshot) <=> snapshot[p] # "absent"
      BY <3>3 DEF Listed
    <3>4. plan[p] = "replace" <=> \E s \in ScopesOf(config) : p \in ChangedFiles(s)
      BY <3>1, <3>2, <3>3 DEF Operation, ChangedFiles
    <3>5. plan[p] = "create" <=> \E s \in ScopesOf(config) : p \in ArtifactOnly(s)
      BY <3>1, <3>2, <3>3 DEF Operation, ArtifactOnly
    <3>6. QED
      BY <3>4, <3>5
  <2>2. ASSUME NEW scope \in ScopesOf(config)
        PROVE  RemoteOnly(scope) \cap Shipped = {}
    BY DEF RemoteOnly, Listed, Shipped
  <2>3. ASSUME NEW scope \in ScopesOf(config), NEW p \in Tracked, Included(config, scope, p)
        PROVE  InScope(config, scope, TargetOf(scope, p))
    BY <2>3, PathsAssumption, IncludedIsInScope
  <2>4. QED
    BY <2>1, <2>2, <2>3 DEF ReportAgreesWithPlan
<1>2. Init => NamesInv
  BY DEF Init, NamesInv, Shipped, Nothing
<1>3. Init => TypeOK
  BY ServersAssumption, BoundsAssumption DEF Init, TypeOK, Nothing
<1>4. QED
  BY <1>1, <1>2, <1>3, InvInit, InvStep, TypeStep, NamesStep, PTL DEF Spec

-----------------------------------------------------------------------------
(* What a configuration ships it also fetches, if it is aligned. *)

\* A file ships to where its scope may ship.
LEMMA InputMayShip ==
  ASSUME TypeOK, NEW scope \in ScopesOf(config), NEW tree, NEW p \in Inputs(scope, tree)
  PROVE  MayShip(config, scope, TargetOf(scope, p))
<1>1. scope.source \in Seq(STRING) /\ scope.target \in Seq(STRING)
  BY ScopeTypes
<1>2. CASE p \in TrackedInputs(config, scope, tree)
  <2>1. p \in Paths /\ Included(config, scope, p)
    BY <1>2, PathsAssumption DEF TrackedInputs
  <2>2. InScope(config, scope, TargetOf(scope, p))
    BY <2>1, IncludedIsInScope
  <2>3. QED
    BY <2>2 DEF InScope, MayShip
<1>3. ASSUME NEW g \in scope.generated, p \in GeneratedInputs(config, scope, g, tree)
      PROVE  MayShip(config, scope, TargetOf(scope, p))
  <2>1. p \in Paths /\ p \in Seq(STRING) /\ IsPrefix(scope.source \o g.path, p) /\ ~Excluded(config, scope, p)
    BY <1>3, PathsAssumption DEF GeneratedInputs, GeneratedFiles, Place
  <2>2. g.path \in Seq(STRING)
    BY ConfigsAssumption DEF TypeOK, Parses
  <2>3. IsPrefix(scope.source, p)
    <3>1. /\ scope.source \o g.path \in Seq(STRING)
          /\ IsPrefix(scope.source, scope.source \o g.path)
      BY <1>1, <2>2, PrefixBelow
    <3>2. QED
      BY <1>1, <2>1, <3>1, PrefixOrder
  <2>4. PICK rel : rel = Relative(p, scope.source)
    OBVIOUS
  <2>5. rel \in Seq(STRING) /\ IsPrefix(g.path, rel)
    BY <1>1, <2>1, <2>2, <2>3, <2>4, Moved
  <2>6. PICK q : q = scope.target \o rel
    OBVIOUS
  <2>7. q = TargetOf(scope, p)
    BY <2>4, <2>6 DEF TargetOf
  <2>8. IsPrefix(scope.target, q) /\ Relative(q, scope.target) = rel
    BY <1>1, <2>5, <2>6, RelativeOfTarget
  <2>9. ~MatchesAny(rel, scope.exclude) /\ ~MatchesAny(q, scope.exclude) /\ ~MatchesAny(q, config.exclude)
    BY <2>1, <2>4, <2>7 DEF Excluded
  <2>10. MayShip(config, scope, q)
    BY <2>5, <2>8, <2>9 DEF MayShip
  <2>11. QED
    BY <2>7, <2>10
<1>4. QED
  BY <1>2, <1>3 DEF Inputs

\* A pattern that is put below a target matches what it matched relative to it.
LEMMA MatchBelow ==
  ASSUME NEW t \in Seq(STRING), NEW p \in Seq(STRING), IsPrefix(t, p),
         NEW e, IsPattern(e), Match(p, [e EXCEPT !.at = t \o @])
  PROVE  Match(Relative(p, t), e)
<1>1. PICK r : r = Relative(p, t)
  OBVIOUS
<1>2. r \in Seq(STRING) /\ p = t \o r
  BY <1>1, RootAndRelative
<1>3. PICK a : a = e.at
  OBVIOUS
<1>4. a \in Seq(STRING) /\ e.form \in Forms /\ (e.form # "subtree" => a # <<>>)
  BY <1>3 DEF IsPattern
<1>5. PICK f : f = [e EXCEPT !.at = t \o @]
  OBVIOUS
<1>6. f.form = e.form /\ f.at = t \o a
  BY <1>3, <1>5 DEF IsPattern
<1>7. Match(p, f)
  BY <1>5
<1>8. CASE e.form = "path"
  <2>1. t \o r = t \o a
    BY <1>2, <1>6, <1>7, <1>8 DEF Match
  <2>2. r = a
    BY <1>2, <1>4, <2>1, DifferentBelow
  <2>3. QED
    BY <1>1, <1>3, <1>8, <2>2 DEF Match
<1>9. CASE e.form = "subtree"
  <2>1. IsPrefix(t \o a, t \o r) /\ t \o a # t \o r
    BY <1>2, <1>6, <1>7, <1>9 DEF Match, IsStrictPrefix
  <2>2. IsPrefix(a, r) /\ a # r
    BY <1>2, <1>4, <2>1, PrefixBelow
  <2>3. QED
    BY <1>1, <1>3, <1>9, <2>2 DEF Match, IsStrictPrefix
<1>10. CASE e.form = "glob"
  <2>1. /\ IsPrefix(Front(t \o a), p) /\ Len(p) >= Len(t \o a) /\ Last(p) = Last(t \o a)
    BY <1>6, <1>7, <1>10 DEF Match
  <2>2. a # <<>>
    BY <1>4, <1>10
  <2>3. /\ Front(a) \in Seq(STRING) /\ Front(t \o a) = t \o Front(a)
        /\ Last(t \o a) = Last(a) /\ Len(t \o a) = Len(t) + Len(a) /\ Len(a) >= 1
    BY <1>4, <2>2, LastBelow
  <2>4. IsPrefix(Front(a), r)
    BY <1>2, <2>1, <2>3, PrefixBelow
  <2>5. Len(p) = Len(t) + Len(r) /\ Len(r) >= Len(a) /\ Last(p) = Last(r)
    <3>1. Len(t \o r) = Len(t) + Len(r)
      BY <1>2, ConcatProperties
    <3>2. Len(r) >= Len(a)
      BY <1>2, <1>4, <2>1, <2>3, <3>1
    <3>3. r # <<>>
      BY <1>2, <2>3, <3>2
    <3>4. QED
      BY <1>2, <3>1, <3>2, <3>3, LastBelow
  <2>6. QED
    BY <1>1, <1>3, <1>10, <2>1, <2>3, <2>4, <2>5 DEF Match
<1>11. QED
  BY <1>4, <1>8, <1>9, <1>10 DEF Forms

\* What an aligned configuration may ship is fetched.
LEMMA MayShipIsFetched ==
  ASSUME TypeOK, Aligned(config), NEW scope \in ScopesOf(config), NEW p \in Paths,
         MayShip(config, scope, p)
  PROVE  Fetched(config, p)
<1>1. scope.target \in Seq(STRING) /\ p \in Seq(STRING) /\ IsPrefix(scope.target, p)
  BY ScopeTypes, PathsAssumption DEF MayShip
<1>2. PICK rel : rel = Relative(p, scope.target)
  OBVIOUS
<1>3. rel \in Seq(STRING) /\ p = scope.target \o rel
  BY <1>1, <1>2, RootAndRelative
<1>4. /\ \A e \in config.exclude : IsPattern(e)
      /\ \A s \in ScopesOf(config) : \A e \in s.include \cup s.exclude : IsPattern(e)
      /\ \A g \in scope.generated : g.path \in Seq(STRING)
  BY ConfigsAssumption DEF TypeOK, Parses
<1>5. \E root \in IncludeRoots(config) : IsPrefix(root, p)
  <2>1. CASE scope.include = {}
    <3>1. scope.target \in IncludeRoots(config)
      BY <2>1 DEF IncludeRoots
    <3>2. QED
      BY <1>1, <3>1
  <2>2. ASSUME NEW i \in scope.include, IsPrefix(i.at, rel)
        PROVE  \E root \in IncludeRoots(config) : IsPrefix(root, p)
    <3>1. i.form # "glob"
      BY DEF Aligned
    <3>2. scope.target \o i.at \in IncludeRoots(config)
      <4>1. scope.target \o i.at \in {scope.target \o j.at : j \in {k \in scope.include : k.form # "glob"}}
        BY <3>1
      <4>2. scope.include # {}
        OBVIOUS
      <4>3. QED
        BY <4>1, <4>2 DEF IncludeRoots
    <3>3. i.at \in Seq(STRING)
      BY <1>4 DEF IsPattern
    <3>4. IsPrefix(scope.target \o i.at, p)
      BY <1>1, <1>3, <2>2, <3>3, PrefixBelow
    <3>5. QED
      BY <3>2, <3>4
  <2>3. ASSUME NEW i \in scope.include, Match(rel, i) PROVE IsPrefix(i.at, rel)
    <3>1. i.form \in {"path", "subtree"} /\ i.at \in Seq(STRING)
      BY <1>4 DEF Aligned, IsPattern, Forms
    <3>2. i.at = rel \/ IsPrefix(i.at, rel)
      BY <2>3, <3>1 DEF Match, IsStrictPrefix
    <3>3. QED
      BY <1>3, <3>2, PrefixOrder
  <2>4. ASSUME scope.include # {}, NEW g \in scope.generated, IsPrefix(g.path, rel)
        PROVE  \E i \in scope.include : IsPrefix(i.at, rel)
    <3>1. PICK i \in scope.include : IsPrefix(i.at, g.path)
      BY <2>4 DEF Aligned
    <3>2. i.at \in Seq(STRING)
      BY <1>4 DEF IsPattern
    <3>3. IsPrefix(i.at, rel)
      BY <1>3, <1>4, <2>4, <3>1, <3>2, PrefixOrder
    <3>4. QED
      BY <3>3
  <2>5. \/ scope.include = {} \/ \E i \in scope.include : Match(rel, i)
        \/ \E g \in scope.generated : IsPrefix(g.path, rel)
    BY <1>2 DEF MayShip, MatchesAny
  <2>6. QED
    BY <2>1, <2>2, <2>3, <2>4, <2>5
<1>6. ASSUME NEW pattern \in RemoteExcludes(config), TarExcludes(p, pattern) PROVE FALSE
  <2>1. Match(p, pattern)
    BY <1>6 DEF Aligned
  <2>2. CASE pattern \in config.exclude
    BY <2>1, <2>2 DEF MayShip, MatchesAny
  <2>3. ASSUME NEW s \in ScopesOf(config), NEW e \in s.exclude, pattern = AtTarget(s, e)
        PROVE  FALSE
    <3>1. CASE s = scope
      <4>1. Match(p, [e EXCEPT !.at = scope.target \o @])
        BY <2>1, <2>3, <3>1 DEF AtTarget
      <4>2. IsPattern(e)
        BY <1>4
      <4>3. Match(rel, e)
        BY <1>1, <1>2, <4>1, <4>2, MatchBelow
      <4>4. QED
        BY <1>2, <3>1, <4>3 DEF MayShip, MatchesAny
    <3>2. CASE s # scope
      BY <2>1, <2>3, <3>2 DEF Aligned
    <3>3. QED
      BY <3>1, <3>2
  <2>4. QED
    BY <2>2, <2>3 DEF RemoteExcludes
<1>7. QED
  BY <1>5, <1>6 DEF Fetched

\* What is shipped some scope may ship.
ShippedInv == \A q \in Shipped : \E scope \in ScopesOf(config) : MayShip(config, scope, q)

LEMMA ShippedStep == TypeOK /\ ShippedInv /\ [Next]_vars => ShippedInv'
<1> SUFFICES ASSUME TypeOK, ShippedInv, [Next]_vars PROVE ShippedInv'
  OBVIOUS
<1>1. CASE Package
  <2>1. PICK tree \in Trees :
          archive' = [q \in Paths |-> IF Sources(tree, q) = {} THEN "absent"
                                       ELSE tree[CHOOSE p \in Sources(tree, q) : TRUE]]
    BY <1>1 DEF Package
  <2>2. ASSUME NEW q \in Paths, archive'[q] # "absent"
        PROVE  \E scope \in ScopesOf(config) : MayShip(config, scope, q)
    <3>1. Sources(tree, q) # {}
      BY <2>1, <2>2
    <3>2. PICK scope \in ScopesOf(config) : \E p \in Inputs(scope, tree) : TargetOf(scope, p) = q
      BY <3>1 DEF Sources
    <3>3. PICK p \in Inputs(scope, tree) : TargetOf(scope, p) = q
      BY <3>2
    <3>4. MayShip(config, scope, TargetOf(scope, p))
      BY <3>3, InputMayShip
    <3>5. QED
      BY <3>3, <3>4
  <2>3. config' = config
    BY <1>1 DEF Package
  <2>4. QED
    BY <2>2, <2>3 DEF ShippedInv, Shipped
<1>2. CASE UNCHANGED <<archive, config>>
  BY <1>2 DEF ShippedInv, Shipped
<1>3. QED
  BY <1>1, <1>2 DEF Next, Fetch, BuildPlan, Preflight, Write, Edit, vars

\* With a configuration that is aligned a plan is the true difference of the
\* archive and the server: apply_preflight never refuses it unless somebody has
\* written one of its files since.
THEOREM PlanIsTheDifference == Spec => []PlanIsOverlay
<1>1. TypeOK /\ ShippedInv /\ FullInv => PlanIsOverlay
  <2> SUFFICES ASSUME TypeOK, ShippedInv, FullInv, Aligned(config), stage = "preflight",
                      NEW p \in Shipped, Untouched(p)
               PROVE  /\ plan[p] = "create" <=> server[p] = "absent"
                      /\ plan[p] = "skip" <=> server[p] = archive[p]
    BY DEF PlanIsOverlay
  <2>1. Fetched(config, p)
    <3>1. PICK scope \in ScopesOf(config) : MayShip(config, scope, p)
      BY DEF ShippedInv
    <3>2. p \in Paths
      BY DEF Shipped
    <3>3. QED
      BY <3>1, <3>2, MayShipIsFetched
  <2>2. snapshot[p] = server[p]
    BY <2>1 DEF FullInv, SnapshotInv, Snapshot, Shipped, Untouched
  <2>3. plan[p] = Operation(p) /\ archive[p] # "absent"
    BY DEF FullInv, PlanInv, Shipped
  <2>4. QED
    BY <2>2, <2>3 DEF Operation
<1>2. Init => TypeOK /\ ShippedInv
  BY ServersAssumption, BoundsAssumption DEF Init, TypeOK, Nothing, ShippedInv, Shipped
<1>3. QED
  BY <1>1, <1>2, InvInit, InvStep, TypeStep, ShippedStep, PTL DEF Spec

=============================================================================
