----------------------------- MODULE Packaging -----------------------------
(***************************************************************************)
(* package and validate (archive.py): the files of each scope are copied,  *)
(* one scope after the other, out of a working tree that somebody may be   *)
(* changing meanwhile; the manifest and the archive are written; and the   *)
(* archive is validated against the configuration before it is delivered.  *)
(***************************************************************************)
EXTENDS Scopes

CONSTANTS
  Configs,   \* deploy configurations
  Trees,     \* working trees
  MaxChanges, \* bound: changes of the working tree while it is packaged
  ControlNames,  \* names with a control character
  BackslashNames \* names with a backslash

ASSUME ConfigsAssumption == \A config \in Configs : Parses(config)
ASSUME TreesAssumption == Trees \subseteq [Paths -> Contents] /\ MaxChanges \in Nat

VARIABLES
  config, tree,
  stage,    \* select -> copy for each scope, check -> write -> validate -> built;
            \* or refused
  selected, \* the files found of each generated input of the scope
  copied,   \* the copies in the package directory, with their scopes and origins
  declared, \* the scopes of the manifest
  members,  \* the regular files of the archive
  changes,
  gone      \* history: a file that was selected has not been there to copy

vars == <<config, tree, stage, selected, copied, declared, members, changes, gone>>

Files == [path : Paths \cup {TargetOf(s, p) : s \in UNION {ScopesOf(c) : c \in Configs}, p \in Paths},
          scope : {s.name : s \in UNION {ScopesOf(c) : c \in Configs}},
          content : Contents, from : Paths]

\* The next scope.
Scope == config.scopes[Len(declared) + 1]

\* Every variable stays in its range, and the manifest has the scopes in order.
TypeOK ==
  /\ config \in Configs /\ tree \in [Paths -> Contents]
  /\ stage \in {"select", "copy", "check", "write", "validate", "built", "refused"}
  /\ stage = "copy" => selected \in [Scope.generated -> SUBSET Paths]
  /\ gone \in BOOLEAN
  /\ copied \subseteq Files /\ changes \in 0..MaxChanges
  /\ Len(declared) <= Len(config.scopes)
  /\ \A i \in DOMAIN declared : declared[i].name = config.scopes[i].name
  /\ members \subseteq [path : {f.path : f \in copied}, content : Contents]

Init ==
  /\ config \in Configs /\ tree \in Trees
  /\ stage = "select" /\ selected = <<>> /\ copied = {} /\ declared = <<>> /\ members = {}
  /\ changes = 0 /\ gone = FALSE

-----------------------------------------------------------------------------
(* Names. *)

\* validate_line_safe_path, and what validate_manifest_relative_path and
\* validate_archive_member ask for besides.
LineSafe(p) == \A i \in DOMAIN p : p[i] \notin ControlNames
NoBackslash(p) == \A i \in DOMAIN p : p[i] \notin BackslashNames
Portable(p) == LineSafe(p) /\ NoBackslash(p)

-----------------------------------------------------------------------------
(* collect_files. *)

\* The generated inputs are searched and tested ...
Select ==
  /\ stage = "select"
  /\ IF GeneratedReady(config, Scope, tree)
     THEN /\ selected' = [g \in Scope.generated |-> GeneratedInputs(config, Scope, g, tree)]
          /\ stage' = "copy"
     ELSE stage' = "refused" /\ UNCHANGED selected
  /\ UNCHANGED <<config, tree, copied, declared, members, changes, gone>>

\* ... and then copied: a file that is gone by then is passed over.
Contribution(g) == {p \in selected[g] : tree[p] # "absent"}
Inputs(scope) ==
  TrackedInputs(config, scope, tree) \cup UNION {Contribution(g) : g \in scope.generated}

\* What package_source_file is called with.
Selection(scope) ==
  {p \in Tracked : IsPrefix(scope.source, p) /\ Included(config, scope, p)}
  \cup UNION {selected[g] : g \in scope.generated}

\* package_source_file: the size and the digest are those of the copy.
CopiesInPlace(scope) == \* mutant: the paths are not mapped to the target
  {[path |-> Relative(p, scope.source), scope |-> scope.name, content |-> tree[p], from |-> p] :
     p \in Inputs(scope)}
Copies(scope) ==
  {[path |-> TargetOf(scope, p), scope |-> scope.name, content |-> tree[p], from |-> p] :
     p \in Inputs(scope)}

\* The entry of the scope in the manifest.
DeclareByPrefix(scope) == \* mutant: the generated files are listed by their source
  [name |-> scope.name, source |-> scope.source, target |-> scope.target,
   files |-> {TargetOf(scope, p) : p \in Inputs(scope)},
   generated |-> {[path |-> g.path, required |-> g.required,
                   files |-> Contribution(g)] : g \in scope.generated}]
Declare(scope) ==
  [name |-> scope.name, source |-> scope.source, target |-> scope.target,
   files |-> {TargetOf(scope, p) : p \in Inputs(scope)},
   generated |-> {[path |-> g.path, required |-> g.required,
                   files |-> {TargetOf(scope, p) : p \in Contribution(g)}]
                  : g \in scope.generated}]

\* No control character, not even in the name of a file that is gone, no symbolic
\* link, no target written twice or both a file and a directory, something to
\* package.
Ready(scope) == Inputs(scope) # {} \* mutant: no seen_targets
Packable(scope) ==
  /\ Inputs(scope) # {}
  /\ \A p \in Selection(scope) : LineSafe(p)
  /\ \A p \in Inputs(scope) : LineSafe(TargetOf(scope, p))
  /\ \A p \in Inputs(scope) : tree[p] # "link"
  /\ \A p \in Inputs(scope), f \in copied : ~Overlap(TargetOf(scope, p), f.path)

Copy ==
  /\ stage = "copy"
  /\ \/ /\ Packable(Scope)
        /\ copied' = copied \cup Copies(Scope)
        /\ declared' = Append(declared, Declare(Scope))
        /\ gone' = (gone \/ \E g \in Scope.generated : Contribution(g) # selected[g])
        /\ stage' = IF Len(declared) + 1 = Len(config.scopes) THEN "check" ELSE "select"
     \/ /\ ~Packable(Scope)
        /\ stage' = "refused" /\ UNCHANGED <<copied, declared, gone>>
  /\ UNCHANGED <<config, tree, selected, members, changes>>

-----------------------------------------------------------------------------
(* The rest of build_archive. *)

\* reject_git_lfs_pointers reads the copies.
Pointers == {f \in copied : f.content = "lfs"}

CheckPointers ==
  /\ stage = "check"
  /\ stage' = IF Pointers = {} THEN "write" ELSE "refused"
  /\ UNCHANGED <<config, tree, selected, copied, declared, members, changes, gone>>

\* write_archive passes over every file that has the name of the manifest; the
\* manifest itself comes first.
WriteArchive ==
  /\ stage = "write"
  /\ members' = {[path |-> f.path, content |-> f.content] : f \in {g \in copied : Last(g.path) # ManifestName}}
  /\ stage' = "validate"
  /\ UNCHANGED <<config, tree, selected, copied, declared, changes, gone>>

-----------------------------------------------------------------------------
(* validate_archive, with a configuration. *)

\* parse_manifest_scope, parse_manifest_generated_input: the names in an entry.
WellNamed(scope) ==
  /\ Portable(scope.source) /\ Portable(scope.target)
  /\ \A p \in scope.files : Portable(p)
  /\ \A g \in scope.generated : Portable(g.path) /\ \A r \in g.required : Portable(r)

\* validate_manifest_generated_inputs.
GeneratedAccepted(scope) ==
  /\ \A g, h \in scope.generated : Overlap(g.path, h.path) => g = h
  /\ \A g \in scope.generated :
       /\ g.files # {}
       /\ g.files = {p \in scope.files : IsPrefix(scope.target \o g.path, p)}
       /\ \A r \in g.required : \E p \in g.files : IsPrefix(scope.target \o g.path \o r, p)

\* validate_manifest_scope_config.
Configured(c, scope) ==
  \E s \in ScopesOf(c) :
    /\ s.name = scope.name /\ s.source = scope.source /\ s.target = scope.target
    /\ s.generated = {[path |-> g.path, required |-> g.required] : g \in scope.generated}

\* validate_archive_file_contents, manifest_file_records and the comparison of
\* the two lists of files.
SameFiles ==
  /\ \A f, g \in copied : f.path = g.path => f = g
  /\ members = {[path |-> f.path, content |-> f.content] : f \in copied}
  /\ \A m \in members : m.content # "lfs"

Accepts(c) ==
  /\ SameFiles
  /\ \A m \in members : Portable(m.path)
  /\ \A i \in DOMAIN declared :
       /\ WellNamed(declared[i])
       /\ GeneratedAccepted(declared[i]) /\ Configured(c, declared[i])
       /\ \A p \in declared[i].files : IsPrefix(declared[i].target, p)
       /\ \A j \in DOMAIN declared : i # j => declared[i].files \cap declared[j].files = {}
  /\ UNION {{<<p, declared[i].name>> : p \in declared[i].files} : i \in DOMAIN declared}
       = {<<f.path, f.scope>> : f \in copied}
  /\ {declared[i].name : i \in DOMAIN declared} = {s.name : s \in ScopesOf(c)}

Validate ==
  /\ stage = "validate"
  /\ stage' = IF Accepts(config) THEN "built" ELSE "refused"
  /\ UNCHANGED <<config, tree, selected, copied, declared, members, changes, gone>>

-----------------------------------------------------------------------------

\* A file of the working tree is written, removed or replaced meanwhile.
Change ==
  /\ changes < MaxChanges /\ stage \in {"select", "copy", "check"}
  /\ changes' = changes + 1
  /\ \E p \in Paths, v \in Contents : v # tree[p] /\ tree' = [tree EXCEPT ![p] = v]
  /\ UNCHANGED <<config, stage, selected, copied, declared, members, gone>>

Next == Select \/ Copy \/ CheckPointers \/ WriteArchive \/ Validate \/ Change
Spec == Init /\ [][Next]_vars

-----------------------------------------------------------------------------
(* Properties. *)

\* What build writes, validate accepts: the archive passes the validation with
\* the configuration that it was built with, whatever the scopes select and
\* whatever changes between and during the steps.  The exceptions are these, and
\* the first three are refused every time: a packaged file that has the reserved
\* name of the manifest, a packaged path with a backslash, a scope with a
\* backslash in its source, and a generated file that vanishes between its
\* selection and its copy.  A control character is refused before that.
BuildPassesValidation ==
  stage = "validate" /\ ~gone =>
    (Accepts(config) <=>
       /\ \A f \in copied : Last(f.path) # ManifestName /\ NoBackslash(f.path)
       /\ \A s \in ScopesOf(config) : NoBackslash(s.source))

\* A file of the archive has one origin: neither two scopes nor a tracked and a
\* generated input have written it.
OneOrigin ==
  \A f, g \in copied : f.path = g.path => f.from = g.from /\ f.scope = g.scope

=============================================================================
