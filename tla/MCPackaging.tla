----------------------------- MODULE MCPackaging -----------------------------
(***************************************************************************)
(* A repository with two tracked files in a/, one in b/, files with odd    *)
(* names in d/ and below e\, and the build products in a/gen; and          *)
(* configurations that use every feature: nested and overlapping scopes,   *)
(* patterns of each form, generated inputs.                                *)
(***************************************************************************)
EXTENDS Packaging, TLC

MCTracked == {<<"a", "x">>, <<"a", "y">>, <<"b", "x">>,
              <<"d", "n\\">>, <<"d", "c\t">>, <<"e\\", "x">>}
MCGenerated == {<<"a", "gen", "u">>, <<"a", "gen", "M">>}
MCControlNames == {"c\t"}
MCBackslashNames == {"n\\", "e\\"}
MCPaths == MCTracked \cup MCGenerated

Plain(p) == [form |-> "path", at |-> p]
Subtree(p) == [form |-> "subtree", at |-> p]
Glob(p) == [form |-> "glob", at |-> p]
Everything(name, source, target) ==
  [name |-> name, source |-> source, target |-> target, include |-> {}, exclude |-> {}, generated |-> {}]
Generated == {[path |-> <<"gen">>, required |-> {<<"u">>}]}

MCConfigs == {
  \* Two scopes, the target of one below the target of the other.
  [scopes |-> <<Everything("s1", <<"a">>, <<"w">>), Everything("s2", <<"b">>, <<"w", "b">>)>>, exclude |-> {}],
  \* Two scopes that write the same target.
  [scopes |-> <<Everything("s1", <<"a">>, <<"w">>), Everything("s2", <<"b">>, <<"w">>)>>, exclude |-> {}],
  \* Generated inputs outside the include patterns, in a mapped scope.
  [scopes |-> <<[Everything("s1", <<"a">>, <<"w">>) EXCEPT !.include = {Plain(<<"x">>)}, !.generated = Generated],
                Everything("s2", <<"b">>, <<"b">>)>>, exclude |-> {Glob(<<"w", "M">>)}],
  \* The same with the repository as a source.
  [scopes |-> <<[Everything("s1", <<>>, <<>>) EXCEPT !.exclude = {Subtree(<<"b">>)},
                   !.generated = {[path |-> <<"a", "gen">>, required |-> {}]}]>>,
   exclude |-> {Plain(<<"a", "y">>)}],
  \* Names with a backslash: of a file, or of the source of a scope.
  [scopes |-> <<Everything("s1", <<"a">>, <<"w">>), Everything("s2", <<"d">>, <<"d">>)>>,
   exclude |-> {Plain(<<"d", "c\t">>)}],
  [scopes |-> <<Everything("s1", <<"e\\">>, <<"w">>)>>, exclude |-> {}],
  \* Control characters: in the name of a file, or in a target.
  [scopes |-> <<Everything("s1", <<"d">>, <<"d">>)>>, exclude |-> {Plain(<<"d", "n\\">>)}],
  [scopes |-> <<Everything("s1", <<"b">>, <<"c\t">>)>>, exclude |-> {}]}

MCTrees == {
  [p \in MCPaths |-> IF p = <<"a", "gen", "M">> THEN "absent" ELSE "v1"],
  [p \in MCPaths |-> "v1"],
  [p \in MCPaths |-> IF p = <<"b", "x">> THEN "lfs" ELSE "v1"],
  [p \in MCPaths |-> IF p = <<"a", "y">> THEN "link" ELSE "v1"],
  [p \in MCPaths |-> IF p \in MCGenerated \cup {<<"d", "n\\">>} THEN "absent" ELSE "v1"]}

==============================================================================
