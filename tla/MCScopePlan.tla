---------------------------- MODULE MCScopePlan ----------------------------
(***************************************************************************)
(* A tree s with a page, assets, a cache and a build product, deployed to  *)
(* w or to its own path; users write next to and over what is deployed.    *)
(***************************************************************************)
EXTENDS ScopeClaims, TLC

Tree(top) == {<<top, "i">>, <<top, "a", "x">>, <<top, "a", "c", "y">>, <<top, "a", "g", "u">>}
MCTracked == (Tree("s") \ {<<"s", "a", "g", "u">>}) \cup {<<"s", "a", "M">>}
Named(top) == <<top, "a", "M">>
MCPaths == Tree("s") \cup Tree("w") \cup {<<"w", "a", "z">>, Named("s"), Named("w")}
MCUsers == {<<"w", "i">>, <<"w", "a", "g", "u">>, <<"s", "i">>}

Plain(p) == [form |-> "path", at |-> p]
Subtree(p) == [form |-> "subtree", at |-> p]
Glob(p) == [form |-> "glob", at |-> p]
Everything(name, source, target) ==
  [name |-> name, source |-> source, target |-> target, include |-> {}, exclude |-> {}, generated |-> {}]
Build == {[path |-> <<"a", "g">>, required |-> {<<"u">>}]}
Only(scope, exclude) == [scopes |-> <<scope>>, exclude |-> exclude]

\* Configurations whose include patterns name the directories of all that is
\* shipped, and whose excludes match no other path from a later slash on.
MCConfigs == {
  Only([Everything("s", <<"s">>, <<"w">>) EXCEPT !.include = {Plain(<<"i">>), Subtree(<<"a">>)},
          !.exclude = {Subtree(<<"a", "c">>)}, !.generated = Build], {}),
  Only([Everything("s", <<"s">>, <<"w">>) EXCEPT !.generated = Build], {Subtree(<<"w", "a", "c">>)}),
  Only([Everything("s", <<>>, <<>>) EXCEPT !.include = {Subtree(<<"s">>)}], {Glob(<<"y">>)}),
  [scopes |-> <<[Everything("t", <<"s">>, <<"w">>) EXCEPT !.include = {Plain(<<"i">>)}],
                [Everything("a", <<"s", "a">>, <<"w", "a">>) EXCEPT !.exclude = {Subtree(<<"c">>)}]>>,
   exclude |-> {}]}

\* Configurations that ship files which are not fetched: generated inputs outside
\* the include patterns, a glob, an exclude that tar matches from a later slash
\* on, and an exclude that hides the target of another scope.
MCGeneratedConfigs ==
  {Only([Everything("s", <<"s">>, <<"w">>) EXCEPT !.include = {Plain(<<"i">>)}, !.generated = Build], {})}
MCGlobConfigs == {Only([Everything("s", <<"s">>, <<"w">>) EXCEPT !.include = {Glob(<<"i">>)}], {})}
MCExcludeConfigs == {Only(Everything("s", <<"s">>, <<"w">>), {Plain(<<"i">>)})}
MCNestedConfigs == {
  [scopes |-> <<[Everything("t", <<"s">>, <<"w">>) EXCEPT !.exclude = {Subtree(<<"a">>)}],
                Everything("a", <<"s", "a">>, <<"w", "a">>)>>, exclude |-> {}]}

MCAllConfigs == MCConfigs \cup MCGeneratedConfigs \cup MCGlobConfigs \cup MCExcludeConfigs \cup MCNestedConfigs

\* The cache is tracked but only in one of the trees, and the build product
\* is rebuilt; a third one has a file with the name of the manifest.
MCTrees == {
  [p \in MCPaths |-> IF p \in Tree("s") \cup {Named("s")} THEN "v2" ELSE "absent"],
  [p \in MCPaths |-> IF p \in Tree("s") THEN "v1" ELSE "absent"],
  [p \in MCPaths |-> IF p \in Tree("s") \ {<<"s", "a", "c", "y">>} THEN "v2" ELSE "absent"]}
MCServers == {
  [p \in MCPaths |-> "absent"],
  [p \in MCPaths |-> IF p \in {<<"w", "i">>, <<"s", "i">>, <<"w", "a", "z">>} THEN "v0" ELSE "absent"]}

=============================================================================
