--------------------------- MODULE MCCompleteBackup ---------------------------
(***************************************************************************)
(* Snapshots of two scopes, and bundles that were put together by others:  *)
(* every manifest of two or three entries over a few paths, with scopes    *)
(* that are right, nested, out of order or missing; and archives that are  *)
(* as the manifest says, or are not in each of the ways that matter.       *)
(***************************************************************************)
EXTENDS CompleteBackup, TLC

\* Five names in their order, with and without a slash: AB is a-b, which is
\* before a/.
Refused == 0
A == 2
AB == 3
B == 6
C == 8
MCNames == {Refused, A, AB, B, C}
MCSlash == [n \in MCNames |-> IF n = A THEN 5 ELSE n + 1]

Scope(name, target) == [name |-> name, target |-> target]
Dir(path, scope) == [path |-> path, scope |-> scope, type |-> "directory", mode |-> "rwx", data |-> "-"]
File(path, scope, data) == [path |-> path, scope |-> scope, type |-> "file", mode |-> "rw", data |-> data]
Manifest(id, scopes, entries) == [id |-> id, scopes |-> scopes, entries |-> entries, canonical |-> TRUE]

TwoScopes == <<Scope(1, <<A>>), Scope(2, <<B, A>>)>>
MCSnapshots == {
  Manifest("b1", TwoScopes, <<Dir(<<A>>, 1), File(<<A, A>>, 1, "x"), Dir(<<B, A>>, 2)>>),
  Manifest("b1", TwoScopes, <<Dir(<<A>>, 1), File(<<A, A>>, 1, "y"), Dir(<<B, A>>, 2)>>),
  \* Refused: a file without its directory.
  Manifest("b1", TwoScopes, <<File(<<A, A>>, 1, "x")>>)}

AllScopes == {
  TwoScopes, <<Scope(1, <<>>)>>, <<Scope(1, <<A>>), Scope(2, <<A, A>>)>>,
  <<Scope(1, <<A, A>>), Scope(2, <<A>>)>>, <<Scope(2, <<B>>), Scope(1, <<A>>)>>,
  <<Scope(1, <<A>>), Scope(1, <<B>>)>>, <<Scope(1, <<Refused>>)>>, <<>>}
Some == {Dir(<<A>>, 1), Dir(<<A, A>>, 1), File(<<A>>, 1, "x"), File(<<A, A>>, 1, "x"),
         File(<<A, A, A>>, 1, "x"), Dir(<<B, A>>, 2), Dir(<<B, A>>, 1), File(<<Refused>>, 1, "x")}
Few == {Dir(<<A>>, 1), Dir(<<A, A>>, 1), File(<<A, A, A>>, 1, "x"), File(<<A, A>>, 1, "x"),
        File(<<AB>>, 1, "x")}
Sequences == {<<>>} \cup [1..1 -> Some] \cup [1..2 -> Some] \cup [1..3 -> Few]

Bundle(manifest, archive) == [manifest |-> manifest, archive |-> archive, metadata |-> Describe(manifest, archive)]
Good == {m \in MCSnapshots : Len(m.entries) = 3}
Spoilt(b) == {
  [b EXCEPT !.archive = Torn], [b EXCEPT !.metadata = Torn], [b EXCEPT !.manifest = Torn],
  [b EXCEPT !.archive = Torn, !.metadata.archive = Torn],
  [b EXCEPT !.archive = Absent],
  [b EXCEPT !.metadata.id = "b2"],
  [b EXCEPT !.metadata.kind = "pre_apply"],
  [b EXCEPT !.metadata.source = TRUE],
  [b EXCEPT !.metadata.canonical = FALSE],
  Bundle([b.manifest EXCEPT !.canonical = FALSE], b.archive),
  [b EXCEPT !.manifest.entries[2].data = "z"],
  [b EXCEPT !.archive[2].data = "z"],
  Bundle(b.manifest, [b.archive EXCEPT ![2].data = "z"]),
  Bundle(b.manifest, [b.archive EXCEPT ![2].mode = "rwx"]),
  Bundle(b.manifest, [b.archive EXCEPT ![2].type = "special"]),
  Bundle(b.manifest, [b.archive EXCEPT ![3].type = "file"]),
  Bundle(b.manifest, Append(b.archive, b.archive[1])),
  Bundle(b.manifest, Append(b.archive, [b.archive[1] EXCEPT !.path = <<C>>])),
  Bundle(b.manifest, Tail(b.archive)),
  Bundle(b.manifest, <<b.archive[3], b.archive[1], b.archive[2]>>),
  [Bundle(b.manifest, b.archive) EXCEPT !.metadata.kind = "pre_rollback", !.metadata.protected = FALSE,
                                        !.metadata.source = TRUE]}
MCForeign ==
  UNION {Spoilt(Bundle(m, Members(m))) : m \in Good}
    \cup {Bundle(Manifest("b1", s, e), Members(Manifest("b1", s, e))) : s \in AllScopes, e \in Sequences}

==============================================================================
