------------------------------- MODULE Scopes -------------------------------
(***************************************************************************)
(* What a deploy configuration says of a path (config.py, archive.py,      *)
(* planner.py, report.py): which files of the working tree are packaged,   *)
(* where they go on the server, which of the server's files are fetched.   *)
(*                                                                         *)
(* A path is the sequence of its components and the empty sequence is ".". *)
(* Patterns have the three forms that the code tells apart: a plain path,  *)
(* a/b, a subtree, a/b/**, and a glob, a/*.c, whose star crosses slashes:  *)
(* the last component then stands for the suffix .c.                       *)
(***************************************************************************)
EXTENDS Naturals, Sequences, FiniteSets, SequencesExt

CONSTANTS
  Paths,      \* paths of regular files, below the repository or remote.root
  Tracked,    \* the paths that Git tracks
  Versions,   \* contents of files
  ManifestName  \* DEPLOYMENT_MANIFEST.json

ASSUME PathsAssumption ==
  /\ IsFiniteSet(Paths) /\ Paths \subseteq Seq(STRING) /\ Tracked \subseteq Paths
  /\ \A p, q \in Paths : p # <<>> /\ ~IsStrictPrefix(p, q)
ASSUME VersionsAssumption == Versions \cap {"absent", "link", "lfs"} = {}

\* "link" is a symbolic link, "lfs" the text of an unresolved Git LFS pointer.
Contents == Versions \cup {"absent", "link", "lfs"}

Forms == {"path", "subtree", "glob"}

-----------------------------------------------------------------------------
(* Patterns and places. *)

\* match, match_pattern: fnmatch on the whole path.
Match(p, pattern) ==
  CASE pattern.form = "path" -> p = pattern.at
    [] pattern.form = "subtree" -> IsStrictPrefix(pattern.at, p)
    [] OTHER -> /\ IsPrefix(Front(pattern.at), p) /\ Len(p) >= Len(pattern.at)
                /\ Last(p) = Last(pattern.at)
MatchesAny(p, patterns) == \E pattern \in patterns : Match(p, pattern)

Relative(p, root) == SubSeq(p, Len(root) + 1, Len(p))
TargetOf(scope, p) == scope.target \o Relative(p, scope.source)

\* is_excluded_source_file, include_source_file.
Excluded(config, scope, p) ==
  \/ MatchesAny(Relative(p, scope.source), scope.exclude)
  \/ MatchesAny(TargetOf(scope, p), scope.exclude)
  \/ MatchesAny(TargetOf(scope, p), config.exclude)
Included(config, scope, p) ==
  /\ scope.include = {} \/ MatchesAny(Relative(p, scope.source), scope.include)
  /\ ~Excluded(config, scope, p)

\* path_matches_scope, on a path of the archive or of the server below the
\* target of the scope.
InScopeOfSource(config, scope, p) == \* mutant: the patterns are held against the whole path
  /\ IsPrefix(scope.target, p)
  /\ scope.include = {} \/ MatchesAny(p, scope.include)
  /\ ~MatchesAny(p, scope.exclude) /\ ~MatchesAny(p, config.exclude)
InScope(config, scope, p) ==
  /\ IsPrefix(scope.target, p)
  /\ scope.include = {} \/ MatchesAny(Relative(p, scope.target), scope.include)
  /\ ~MatchesAny(Relative(p, scope.target), scope.exclude)
  /\ ~MatchesAny(p, scope.exclude) /\ ~MatchesAny(p, config.exclude)

Overlap(p, q) == IsPrefix(p, q) \/ IsPrefix(q, p)

ScopesOf(config) == {config.scopes[i] : i \in DOMAIN config.scopes}

IsPattern(pattern) ==
  /\ pattern = [form |-> pattern.form, at |-> pattern.at]
  /\ pattern.form \in Forms /\ pattern.at \in Seq(STRING)
  /\ pattern.form # "subtree" => pattern.at # <<>>

\* parse_config: names are unique, and the generated inputs of a scope are apart.
Parses(config) ==
  /\ config.scopes # <<>> /\ config.scopes \in Seq(ScopesOf(config))
  /\ \A pattern \in config.exclude : IsPattern(pattern)
  /\ \A scope \in ScopesOf(config) :
       /\ \A pattern \in scope.include \cup scope.exclude : IsPattern(pattern)
       /\ scope.source \in Seq(STRING) /\ scope.target \in Seq(STRING)
       /\ scope.generated \subseteq [path : Seq(STRING), required : SUBSET Seq(STRING)]
  /\ \A i, j \in DOMAIN config.scopes : config.scopes[i].name = config.scopes[j].name => i = j
  /\ \A scope \in ScopesOf(config) : \A g, h \in scope.generated : Overlap(g.path, h.path) => g = h

-----------------------------------------------------------------------------
(* The files that a scope contributes, in a working tree. *)

\* git ls-files below the source; a file that is gone is passed over.
TrackedInputs(config, scope, tree) ==
  {p \in Tracked : IsPrefix(scope.source, p) /\ Included(config, scope, p) /\ tree[p] # "absent"}

Place(scope, g) == scope.source \o g.path
GeneratedFiles(scope, g, tree) == {p \in Paths : IsPrefix(Place(scope, g), p) /\ tree[p] # "absent"}
GeneratedInputs(config, scope, g, tree) ==
  {p \in GeneratedFiles(scope, g, tree) : ~Excluded(config, scope, p)}

\* validate_required_generated_paths: each contributes a file that is packaged.
RequiredPresent(config, scope, g, tree) ==
  \A r \in g.required :
    \E p \in GeneratedInputs(config, scope, g, tree) : IsPrefix(Place(scope, g) \o r, p)

\* validate_generated_input_not_tracked, collect_generated_input_files.
GeneratedReady(config, scope, tree) ==
  \A g \in scope.generated :
    /\ \A p \in Tracked : ~Overlap(Place(scope, g), p)
    /\ \A p \in GeneratedFiles(scope, g, tree) : tree[p] # "link"
    /\ GeneratedInputs(config, scope, g, tree) # {}
    /\ RequiredPresent(config, scope, g, tree)

-----------------------------------------------------------------------------
(* What report and apply fetch of the server (report.py). *)

\* remote_include_paths: a glob names no root, and generated inputs none either.
IncludePlain(config) == \* mutant: a subtree is taken for a glob
  UNION {IF scope.include = {} THEN {scope.target}
         ELSE {scope.target \o pattern.at : pattern \in {i \in scope.include : i.form = "path"}}
         : scope \in ScopesOf(config)}
IncludeRoots(config) ==
  UNION {IF scope.include = {} THEN {scope.target}
         ELSE {scope.target \o pattern.at : pattern \in {i \in scope.include : i.form # "glob"}}
         : scope \in ScopesOf(config)}

\* remote_exclude_patterns.
AtTarget(scope, pattern) == [pattern EXCEPT !.at = scope.target \o @]
RemoteExcludes(config) ==
  config.exclude \cup
  UNION {{AtTarget(scope, pattern) : pattern \in scope.exclude} : scope \in ScopesOf(config)}

\* GNU tar --exclude: the pattern may match from any slash on, and what it
\* matches is left out with everything below.
TarExcludes(p, pattern) == \E i \in 1..Len(p) : \E j \in i..Len(p) : Match(SubSeq(p, i, j), pattern)

\* remote_tar_script, run by fetch_remote_archive, and what it brings here.
Fetched(config, p) ==
  /\ \E r \in IncludeRoots(config) : IsPrefix(r, p)
  /\ \A pattern \in RemoteExcludes(config) : ~TarExcludes(p, pattern)
Snapshot(config, server) == [p \in Paths |-> IF Fetched(config, p) THEN server[p] ELSE "absent"]

=============================================================================
