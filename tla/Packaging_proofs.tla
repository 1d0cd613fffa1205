-------------------------- MODULE Packaging_proofs --------------------------
(* What is packaged passes the validation, and has one origin: for all       *)
(* configurations and working trees, and whatever changes meanwhile.         *)
EXTENDS Packaging, Scopes_proofs

-----------------------------------------------------------------------------
(* The inductive invariant. *)

Scopes == UNION {ScopesOf(c) : c \in Configs}
Targets == {TargetOf(s, p) : s \in Scopes, p \in Paths}
Entries ==
  [name : {s.name : s \in Scopes}, source : Seq(STRING), target : Seq(STRING), files : SUBSET Targets,
   generated : SUBSET [path : Seq(STRING), required : SUBSET Seq(STRING), files : SUBSET Targets]]

\* As long as there is something to copy there is a next scope.
ProgressInv ==
  /\ declared \in Seq(Entries)
  /\ stage \in {"select", "copy"} => Len(declared) < Len(config.scopes)
  /\ stage \in {"check", "write", "validate", "built"} => Len(declared) = Len(config.scopes)

\* What Select found is below its place, is not excluded and has all that is
\* required; nothing that Git tracks is there.
SelectedInv ==
  stage = "copy" =>
    \A g \in Scope.generated :
      /\ \A p \in selected[g] : p \in Paths /\ IsPrefix(Place(Scope, g), p)
      /\ selected[g] # {}
      /\ \A r \in g.required : \E p \in selected[g] : IsPrefix(Place(Scope, g) \o r, p)
      /\ \A p \in Tracked : ~Overlap(Place(Scope, g), p)

\* An entry of the manifest is of its scope, lists a file, and has no control
\* character in its names; what is generated is where the entry says, unless a
\* file has vanished.
Faithful(scope, entry) ==
  /\ entry.name = scope.name /\ entry.source = scope.source /\ entry.target = scope.target
  /\ scope.generated = {[path |-> g.path, required |-> g.required] : g \in entry.generated}
  /\ entry.files # {} /\ LineSafe(entry.source)
  /\ \A p \in entry.files : p \in Seq(STRING) /\ IsPrefix(entry.target, p) /\ LineSafe(p)
  /\ ~gone => GeneratedAccepted(entry)
DeclaredInv == \A i \in DOMAIN declared : Faithful(config.scopes[i], declared[i])

\* A path has one copy, and one entry lists it.
CopiedInv ==
  /\ \A f, g \in copied : f.path = g.path => f = g
  /\ \A f \in copied : \E i \in DOMAIN declared : f.path \in declared[i].files /\ f.scope = declared[i].name
  /\ \A i \in DOMAIN declared : \A p \in declared[i].files :
       \E f \in copied : f.path = p /\ f.scope = declared[i].name
  /\ \A i, j \in DOMAIN declared : i # j => declared[i].files \cap declared[j].files = {}

\* No pointer comes past the check, and the archive has the copies but those
\* that have the name of the manifest.
WrittenInv ==
  /\ stage \in {"write", "validate", "built"} => Pointers = {}
  /\ stage \in {"validate", "built"} =>
       members = {[path |-> f.path, content |-> f.content] : f \in {g \in copied : Last(g.path) # ManifestName}}

PackInv == TypeOK /\ ProgressInv /\ SelectedInv /\ DeclaredInv /\ CopiedInv /\ WrittenInv

-----------------------------------------------------------------------------
(* Names. *)

\* Names of a path are names of what lies below it.
LEMMA NamesBelow ==
  ASSUME NEW s \in Seq(STRING), NEW a \in Seq(STRING), NEW p \in Seq(STRING), IsPrefix(s \o a, p)
  PROVE  /\ LineSafe(p) => LineSafe(s) /\ LineSafe(a)
         /\ Portable(p) => Portable(s) /\ Portable(a)
<1>1. PICK q \in Seq(STRING) :
        /\ q = s \o a
        /\ Len(q) = Len(s) + Len(a)
        /\ \A i \in 1..Len(s) : q[i] = s[i]
        /\ \A i \in 1..Len(a) : q[Len(s) + i] = a[i]
  BY BelowPlaces, Zenon
<1>2. Len(q) <= Len(p) /\ \A i \in 1..Len(q) : p[i] = q[i]
  BY <1>1, PrefixPlaces
<1>3. /\ Len(s) \in Nat /\ Len(a) \in Nat /\ Len(p) \in Nat
      /\ DOMAIN s = 1..Len(s) /\ DOMAIN a = 1..Len(a) /\ DOMAIN p = 1..Len(p)
  OBVIOUS
<1>4. \A i \in DOMAIN s : i \in DOMAIN p /\ p[i] = s[i]
  BY <1>1, <1>2, <1>3
<1>5. \A i \in DOMAIN a : Len(s) + i \in DOMAIN p /\ p[Len(s) + i] = a[i]
  <2> SUFFICES ASSUME NEW i \in DOMAIN a PROVE Len(s) + i \in DOMAIN p /\ p[Len(s) + i] = a[i]
    OBVIOUS
  <2>1. Len(s) + i \in 1..Len(q)
    BY <1>1, <1>3
  <2>2. QED
    BY <1>1, <1>2, <1>3, <2>1
<1>6. LineSafe(p) => LineSafe(s) /\ LineSafe(a)
  BY <1>4, <1>5 DEF LineSafe
<1>7. NoBackslash(p) => NoBackslash(s) /\ NoBackslash(a)
  BY <1>4, <1>5 DEF NoBackslash
<1>8. QED
  BY <1>6, <1>7 DEF Portable

\* A path is above itself, with nothing in between.
LEMMA NamesAbove ==
  ASSUME NEW s \in Seq(STRING), NEW p \in Seq(STRING), IsPrefix(s, p)
  PROVE  /\ LineSafe(p) => LineSafe(s)
         /\ Portable(p) => Portable(s)
<1>1. s \o <<>> = s /\ <<>> \in Seq(STRING)
  OBVIOUS
<1>2. QED
  BY <1>1, NamesBelow

-----------------------------------------------------------------------------
(* The next scope. *)

\* There is one while there is something to copy.
LEMMA NextScope ==
  ASSUME TypeOK, ProgressInv, stage \in {"select", "copy"}
  PROVE  /\ Len(declared) + 1 \in DOMAIN config.scopes
         /\ Scope \in ScopesOf(config) /\ Scope \in Scopes
         /\ Scope.source \in Seq(STRING) /\ Scope.target \in Seq(STRING)
         /\ \A g \in Scope.generated :
              g.path \in Seq(STRING) /\ g.required \in SUBSET Seq(STRING)
              /\ g = [path |-> g.path, required |-> g.required]
         /\ \A g, h \in Scope.generated : Overlap(g.path, h.path) => g = h
<1>1. Parses(config) /\ config \in Configs
  BY ConfigsAssumption DEF TypeOK
<1>2. Len(declared) + 1 \in DOMAIN config.scopes
  <2>1. Len(declared) \in Nat /\ Len(declared) < Len(config.scopes)
    BY DEF ProgressInv
  <2>2. config.scopes \in Seq(ScopesOf(config))
    BY <1>1 DEF Parses
  <2>3. DOMAIN config.scopes = 1..Len(config.scopes) /\ Len(config.scopes) \in Nat
    BY <2>2
  <2>4. QED
    BY <2>1, <2>3
<1>3. Scope \in ScopesOf(config)
  BY <1>2 DEF Scope, ScopesOf
<1>4. Scope \in Scopes
  BY <1>1, <1>3 DEF Scopes
<1>5. /\ Scope.source \in Seq(STRING) /\ Scope.target \in Seq(STRING)
      /\ Scope.generated \subseteq [path : Seq(STRING), required : SUBSET Seq(STRING)]
      /\ \A g, h \in Scope.generated : Overlap(g.path, h.path) => g = h
  BY <1>1, <1>3, Zenon DEF Parses
<1>6. ASSUME NEW g \in Scope.generated
      PROVE  g.path \in Seq(STRING) /\ g.required \in SUBSET Seq(STRING)
             /\ g = [path |-> g.path, required |-> g.required]
  <2>1. g \in [path : Seq(STRING), required : SUBSET Seq(STRING)]
    BY <1>5
  <2>2. QED
    BY <2>1
<1>7. QED
  BY <1>2, <1>3, <1>4, <1>5, <1>6

\* All that a scope contributes is below its source.
LEMMA InputsBelow ==
  ASSUME TypeOK, ProgressInv, SelectedInv, stage = "copy", NEW p \in Inputs(Scope)
  PROVE  /\ p \in Paths /\ p \in Seq(STRING)
         /\ IsPrefix(Scope.source, p)
         /\ \/ p \in Tracked
            \/ \E g \in Scope.generated : p \in Contribution(g) /\ IsPrefix(Place(Scope, g), p)
<1>1. CASE p \in TrackedInputs(config, Scope, tree)
  BY <1>1, PathsAssumption DEF TrackedInputs
<1>2. ASSUME NEW g \in Scope.generated, p \in Contribution(g)
      PROVE  p \in Paths /\ p \in Seq(STRING) /\ IsPrefix(Scope.source, p) /\ IsPrefix(Place(Scope, g), p)
  <2>1. p \in Paths /\ IsPrefix(Place(Scope, g), p)
    BY <1>2 DEF SelectedInv, Contribution
  <2>2. p \in Seq(STRING) /\ Scope.source \in Seq(STRING) /\ g.path \in Seq(STRING)
    BY <2>1, PathsAssumption, NextScope
  <2>3. Place(Scope, g) \in Seq(STRING) /\ IsPrefix(Scope.source, Place(Scope, g))
    BY <2>2, BelowBelow, PrefixBelow, Zenon DEF Place
  <2>4. IsPrefix(Scope.source, p)
    BY <2>1, <2>2, <2>3, PrefixOrder, Zenon
  <2>5. QED
    BY <2>1, <2>2, <2>4
<1>3. p \in TrackedInputs(config, Scope, tree) \/ \E g \in Scope.generated : p \in Contribution(g)
  BY DEF Inputs
<1>4. QED
  BY <1>1, <1>2, <1>3

\* The targets of what a scope contributes are paths of the archive below its
\* target, one for each file.
LEMMA InputTargets ==
  ASSUME TypeOK, ProgressInv, SelectedInv, stage = "copy"
  PROVE  /\ \A p \in Inputs(Scope) : /\ TargetOf(Scope, p) \in Targets /\ TargetOf(Scope, p) \in Seq(STRING)
                                     /\ IsPrefix(Scope.target, TargetOf(Scope, p))
         /\ \A p, q \in Inputs(Scope) : TargetOf(Scope, p) = TargetOf(Scope, q) => p = q
<1>1. Scope \in Scopes /\ Scope.source \in Seq(STRING) /\ Scope.target \in Seq(STRING)
  BY NextScope
<1>2. ASSUME NEW p \in Inputs(Scope)
      PROVE  /\ TargetOf(Scope, p) \in Targets /\ TargetOf(Scope, p) \in Seq(STRING)
             /\ IsPrefix(Scope.target, TargetOf(Scope, p))
  <2>1. p \in Paths /\ p \in Seq(STRING) /\ IsPrefix(Scope.source, p)
    BY InputsBelow
  <2>2. TargetOf(Scope, p) \in Targets
    BY <1>1, <2>1 DEF Targets
  <2>3. QED
    BY <1>1, <2>1, <2>2, Moved, Zenon
<1>3. ASSUME NEW p \in Inputs(Scope), NEW q \in Inputs(Scope), TargetOf(Scope, p) = TargetOf(Scope, q)
      PROVE  p = q
  <2>1. p \in Seq(STRING) /\ IsPrefix(Scope.source, p) /\ q \in Seq(STRING) /\ IsPrefix(Scope.source, q)
    BY InputsBelow
  <2>2. QED
    BY <1>1, <1>3, <2>1, MovedApart, Zenon
<1>4. QED
  BY <1>2, <1>3

\* What a generated input contributes is what the scope ships below its target.
LEMMA ContributionIsBelow ==
  ASSUME TypeOK, ProgressInv, SelectedInv, stage = "copy",
         NEW g \in Scope.generated, NEW p \in Inputs(Scope)
  PROVE  p \in Contribution(g) <=> IsPrefix(Scope.target \o g.path, TargetOf(Scope, p))
<1>1. /\ Scope.source \in Seq(STRING) /\ Scope.target \in Seq(STRING)
      /\ \A h \in Scope.generated : h.path \in Seq(STRING)
      /\ \A h, k \in Scope.generated : Overlap(h.path, k.path) => h = k
  BY NextScope
<1>2. p \in Seq(STRING) /\ IsPrefix(Scope.source, p)
  BY InputsBelow
<1>3. Relative(p, Scope.source) \in Seq(STRING)
  BY <1>1, <1>2, Moved, Zenon
<1>4. \A h \in Scope.generated :
        /\ IsPrefix(Place(Scope, h), p) <=> IsPrefix(h.path, Relative(p, Scope.source))
        /\ IsPrefix(Scope.target \o h.path, TargetOf(Scope, p)) <=> IsPrefix(h.path, Relative(p, Scope.source))
  BY <1>1, <1>2, Moved, Zenon DEF Place
<1>5. ASSUME p \in Contribution(g) PROVE IsPrefix(Place(Scope, g), p)
  BY <1>5 DEF SelectedInv, Contribution
<1>6. ASSUME IsPrefix(Place(Scope, g), p) PROVE p \in Contribution(g)
  <2>1. p \notin Tracked
    BY <1>6 DEF SelectedInv, Overlap
  <2>2. PICK h \in Scope.generated : p \in Contribution(h) /\ IsPrefix(Place(Scope, h), p)
    BY <2>1, InputsBelow
  <2>3. IsPrefix(g.path, Relative(p, Scope.source)) /\ IsPrefix(h.path, Relative(p, Scope.source))
    BY <1>4, <1>6, <2>2
  <2>4. Overlap(g.path, h.path)
    BY <1>1, <1>3, <2>3, PrefixesOfOne, Zenon
  <2>5. QED
    BY <1>1, <2>2, <2>4
<1>7. QED
  BY <1>4, <1>5, <1>6

\* The entry of the scope in the manifest.
LEMMA DeclareType ==
  ASSUME TypeOK, ProgressInv, SelectedInv, stage = "copy"
  PROVE  Declare(Scope) \in Entries
<1>1. /\ Scope \in Scopes /\ Scope.source \in Seq(STRING) /\ Scope.target \in Seq(STRING)
      /\ \A g \in Scope.generated : g.path \in Seq(STRING) /\ g.required \in SUBSET Seq(STRING)
  BY NextScope
<1>2. \A p \in Inputs(Scope) : TargetOf(Scope, p) \in Targets
  BY InputTargets
<1>3. \A g \in Scope.generated : Contribution(g) \subseteq Inputs(Scope)
  BY DEF Inputs
<1>4. {TargetOf(Scope, p) : p \in Inputs(Scope)} \in SUBSET Targets
  BY <1>2
<1>5. ASSUME NEW g \in Scope.generated
      PROVE  [path |-> g.path, required |-> g.required, files |-> {TargetOf(Scope, p) : p \in Contribution(g)}]
               \in [path : Seq(STRING), required : SUBSET Seq(STRING), files : SUBSET Targets]
  <2>1. {TargetOf(Scope, p) : p \in Contribution(g)} \in SUBSET Targets
    BY <1>2, <1>3
  <2>2. QED
    BY <1>1, <2>1
<1>6. Scope.name \in {s.name : s \in Scopes}
  BY <1>1
<1>7. PICK G : G = {[path |-> g.path, required |-> g.required, files |-> {TargetOf(Scope, p) : p \in Contribution(g)}]
                     : g \in Scope.generated}
  OBVIOUS
<1>8. G \in SUBSET [path : Seq(STRING), required : SUBSET Seq(STRING), files : SUBSET Targets]
  BY <1>5, <1>7
<1>9. PICK F : F = {TargetOf(Scope, p) : p \in Inputs(Scope)}
  OBVIOUS
<1>10. Declare(Scope) = [name |-> Scope.name, source |-> Scope.source, target |-> Scope.target,
                         files |-> F, generated |-> G]
  BY <1>7, <1>9 DEF Declare
<1>11. QED
  BY <1>1, <1>4, <1>6, <1>8, <1>9, <1>10 DEF Entries

\* It is of the scope, and what it says of the generated inputs is true unless
\* one of their files has vanished since they were selected.
LEMMA DeclareFaithful ==
  ASSUME TypeOK, ProgressInv, SelectedInv, stage = "copy"
  PROVE  /\ Declare(Scope).name = Scope.name
         /\ Declare(Scope).source = Scope.source /\ Declare(Scope).target = Scope.target
         /\ Declare(Scope).files = {TargetOf(Scope, p) : p \in Inputs(Scope)}
         /\ Scope.generated = {[path |-> e.path, required |-> e.required] : e \in Declare(Scope).generated}
         /\ (\A g \in Scope.generated : Contribution(g) = selected[g]) => GeneratedAccepted(Declare(Scope))
<1> DEFINE E(g) == [path |-> g.path, required |-> g.required,
                    files |-> {TargetOf(Scope, p) : p \in Contribution(g)}]
<1>1. PICK D : D = Declare(Scope)
  OBVIOUS
<1>2. /\ D.name = Scope.name /\ D.source = Scope.source /\ D.target = Scope.target
      /\ D.files = {TargetOf(Scope, p) : p \in Inputs(Scope)}
      /\ D.generated = {E(g) : g \in Scope.generated}
  BY <1>1 DEF Declare
<1>3. \A g \in Scope.generated :
        /\ E(g).path = g.path /\ E(g).required = g.required
        /\ E(g).files = {TargetOf(Scope, p) : p \in Contribution(g)}
  OBVIOUS
<1> HIDE DEF E
<1>4. /\ Scope.source \in Seq(STRING) /\ Scope.target \in Seq(STRING)
      /\ \A g \in Scope.generated :
           g.path \in Seq(STRING) /\ g.required \in SUBSET Seq(STRING)
           /\ g = [path |-> g.path, required |-> g.required]
      /\ \A g, h \in Scope.generated : Overlap(g.path, h.path) => g = h
  BY NextScope
<1>5. Scope.generated = {[path |-> e.path, required |-> e.required] : e \in D.generated}
  <2>1. ASSUME NEW g \in Scope.generated PROVE g \in {[path |-> e.path, required |-> e.required] : e \in D.generated}
    BY <1>2, <1>3, <1>4
  <2>2. ASSUME NEW e \in D.generated PROVE [path |-> e.path, required |-> e.required] \in Scope.generated
    BY <1>2, <1>3, <1>4
  <2>3. QED
    BY <2>1, <2>2
<1>6. ASSUME \A g \in Scope.generated : Contribution(g) = selected[g]
      PROVE  GeneratedAccepted(D)
  <2>1. \A e, f \in D.generated : Overlap(e.path, f.path) => e = f
    BY <1>2, <1>3, <1>4
  <2>2. ASSUME NEW g \in Scope.generated
        PROVE  /\ E(g).files # {}
               /\ E(g).files = {p \in D.files : IsPrefix(D.target \o E(g).path, p)}
               /\ \A r \in E(g).required : \E p \in E(g).files : IsPrefix(D.target \o E(g).path \o r, p)
    <3>1. Contribution(g) # {} /\ Contribution(g) \subseteq Inputs(Scope)
      BY <1>6 DEF SelectedInv, Inputs
    <3>2. E(g).files # {}
      BY <1>3, <3>1
    <3>3. \A p \in Inputs(Scope) : p \in Contribution(g) <=> IsPrefix(Scope.target \o g.path, TargetOf(Scope, p))
      BY ContributionIsBelow
    <3>4. E(g).files = {p \in D.files : IsPrefix(D.target \o E(g).path, p)}
      <4>1. PICK T : T = D.target \o E(g).path
        OBVIOUS
      <4>2. T = Scope.target \o g.path
        BY <1>2, <1>3, <4>1
      <4>3. \A p \in Inputs(Scope) : p \in Contribution(g) <=> IsPrefix(T, TargetOf(Scope, p))
        BY <3>3, <4>2
      <4>4. E(g).files = {p \in D.files : IsPrefix(T, p)}
        BY <1>2, <1>3, <3>1, <4>3
      <4>5. QED
        BY <4>1, <4>4
    <3>5. ASSUME NEW r \in g.required
          PROVE  \E p \in E(g).files : IsPrefix(Scope.target \o g.path \o r, p)
      <4>1. PICK p \in Contribution(g) : IsPrefix(Place(Scope, g) \o r, p)
        BY <1>6 DEF SelectedInv
      <4>2. p \in Seq(STRING) /\ IsPrefix(Scope.source, p)
        BY <3>1, <4>1, InputsBelow
      <4>3. g.path \in Seq(STRING) /\ r \in Seq(STRING)
        BY <1>4
      <4>4. PICK a : a = g.path \o r
        OBVIOUS
      <4>5. /\ a \in Seq(STRING) /\ Scope.source \o a = Place(Scope, g) \o r
            /\ Scope.target \o a = Scope.target \o g.path \o r
        BY <1>4, <4>3, <4>4, BelowBelow, ZenonT(30) DEF Place
      <4>6. IsPrefix(Scope.target \o a, TargetOf(Scope, p))
        BY <1>4, <4>1, <4>2, <4>5, Moved, Zenon
      <4>7. TargetOf(Scope, p) \in E(g).files
        BY <1>3, <4>1
      <4>8. QED
        BY <4>5, <4>6, <4>7, Zenon
    <3>6. QED
      BY <1>2, <1>3, <3>2, <3>4, <3>5, ZenonT(30)
  <2>3. ASSUME NEW e \in D.generated
        PROVE  /\ e.files # {}
               /\ e.files = {p \in D.files : IsPrefix(D.target \o e.path, p)}
               /\ \A r \in e.required : \E p \in e.files : IsPrefix(D.target \o e.path \o r, p)
    <3>1. PICK g \in Scope.generated : e = E(g)
      BY <1>2, Zenon
    <3>2. QED
      BY <2>2, <3>1, Zenon
  <2>4. QED
    BY <2>1, <2>3, Zenon DEF GeneratedAccepted
<1>7. QED
  BY <1>1, <1>2, <1>5, <1>6

-----------------------------------------------------------------------------
(* The invariant, step by step. *)

\* The manifest grows by one entry.
LEMMA Appended ==
  ASSUME ProgressInv, NEW entry \in Entries
  PROVE  /\ Append(declared, entry) \in Seq(Entries)
         /\ Len(Append(declared, entry)) = Len(declared) + 1
         /\ DOMAIN Append(declared, entry) = 1..(Len(declared) + 1)
         /\ \A i \in 1..Len(declared) : Append(declared, entry)[i] = declared[i]
         /\ Append(declared, entry)[Len(declared) + 1] = entry
         /\ DOMAIN declared = 1..Len(declared) /\ Len(declared) \in Nat
BY DEF ProgressInv

\* A scope is selected or refused.
LEMMA SelectKeeps == PackInv /\ Select => PackInv'
<1> SUFFICES ASSUME PackInv, Select PROVE PackInv'
  OBVIOUS
<1> USE DEF PackInv
<1>1. Scope' = Scope /\ UNCHANGED <<config, tree, copied, declared, members, changes, gone>> /\ stage = "select"
  BY DEF Select, Scope
<1>2. CASE GeneratedReady(config, Scope, tree)
  <2>1. selected' = [g \in Scope.generated |-> GeneratedInputs(config, Scope, g, tree)] /\ stage' = "copy"
    BY <1>2 DEF Select
  <2>2. TypeOK'
    <3>1. \A g \in Scope.generated : GeneratedInputs(config, Scope, g, tree) \in SUBSET Paths
      BY DEF GeneratedInputs, GeneratedFiles
    <3>2. selected' \in [Scope'.generated -> SUBSET Paths]
      BY <1>1, <2>1, <3>1
    <3>3. QED
      BY <1>1, <2>1, <3>2 DEF TypeOK
  <2>3. SelectedInv'
    <3>1. ASSUME NEW g \in Scope.generated
          PROVE  LET F == GeneratedInputs(config, Scope, g, tree)
                 IN  /\ \A p \in F : p \in Paths /\ IsPrefix(Place(Scope, g), p)
                     /\ F # {}
                     /\ \A r \in g.required : \E p \in F : IsPrefix(Place(Scope, g) \o r, p)
                     /\ \A p \in Tracked : ~Overlap(Place(Scope, g), p)
      BY <1>2 DEF GeneratedReady, RequiredPresent, GeneratedInputs, GeneratedFiles
    <3>2. \A g \in Scope.generated : selected'[g] = GeneratedInputs(config, Scope, g, tree)
      BY <2>1
    <3>3. QED
      BY <1>1, <3>1, <3>2, Zenon DEF SelectedInv
  <2>4. ProgressInv' /\ WrittenInv'
    BY <1>1, <2>1 DEF ProgressInv, WrittenInv, Pointers
  <2>5. DeclaredInv' /\ CopiedInv'
    BY <1>1 DEF DeclaredInv, CopiedInv, Faithful, LineSafe
  <2>6. QED
    BY <2>2, <2>3, <2>4, <2>5
<1>3. CASE ~GeneratedReady(config, Scope, tree)
  <2>1. UNCHANGED selected /\ stage' = "refused"
    BY <1>3 DEF Select
  <2>2. TypeOK'
    BY <1>1, <2>1 DEF TypeOK
  <2>3. SelectedInv' /\ ProgressInv' /\ WrittenInv'
    BY <1>1, <2>1 DEF SelectedInv, ProgressInv, WrittenInv
  <2>4. DeclaredInv' /\ CopiedInv'
    BY <1>1 DEF DeclaredInv, CopiedInv, Faithful, LineSafe
  <2>5. QED
    BY <2>2, <2>3, <2>4
<1>4. QED
  BY <1>2, <1>3

\* A scope is copied and declared.
LEMMA CopyKeeps == PackInv /\ Copy => PackInv'
<1> SUFFICES ASSUME PackInv, Copy PROVE PackInv'
  OBVIOUS
<1>0. /\ TypeOK /\ ProgressInv /\ SelectedInv /\ DeclaredInv /\ CopiedInv /\ WrittenInv
      /\ stage = "copy" /\ UNCHANGED <<config, tree, selected, members, changes>>
  BY DEF PackInv, Copy
<1>1. CASE ~Packable(Scope)
  <2>1. stage' = "refused" /\ UNCHANGED <<copied, declared, gone>>
    BY <1>1 DEF Copy
  <2>2. TypeOK'
    BY <1>0, <2>1 DEF TypeOK
  <2>3. SelectedInv' /\ ProgressInv' /\ WrittenInv'
    BY <1>0, <2>1 DEF SelectedInv, ProgressInv, WrittenInv
  <2>4. DeclaredInv' /\ CopiedInv'
    BY <1>0, <2>1 DEF DeclaredInv, CopiedInv, Faithful, LineSafe
  <2>5. QED
    BY <2>2, <2>3, <2>4 DEF PackInv
<1>2. CASE Packable(Scope)
  <2>1. /\ copied' = copied \cup Copies(Scope)
        /\ declared' = Append(declared, Declare(Scope))
        /\ gone' = (gone \/ \E g \in Scope.generated : Contribution(g) # selected[g])
        /\ stage' = IF Len(declared) + 1 = Len(config.scopes) THEN "check" ELSE "select"
    BY <1>2 DEF Copy
  <2>2. PICK D : D = Declare(Scope)
    OBVIOUS
  <2>3. D \in Entries
    BY <1>0, <2>2, DeclareType
  <2>4. PICK n : n = Len(declared)
    OBVIOUS
  <2>5. /\ declared' \in Seq(Entries) /\ Len(declared') = n + 1 /\ DOMAIN declared' = 1..(n + 1)
        /\ \A i \in 1..n : declared'[i] = declared[i]
        /\ declared'[n + 1] = D
        /\ DOMAIN declared = 1..n /\ n \in Nat
    <3>1. declared' = Append(declared, D)
      BY <2>1, <2>2
    <3>2. QED
      BY <1>0, <2>3, <2>4, <3>1, Appended, Zenon
  <2>6. /\ D.name = Scope.name /\ D.source = Scope.source /\ D.target = Scope.target
        /\ D.files = {TargetOf(Scope, p) : p \in Inputs(Scope)}
        /\ Scope.generated = {[path |-> e.path, required |-> e.required] : e \in D.generated}
        /\ (\A g \in Scope.generated : Contribution(g) = selected[g]) => GeneratedAccepted(D)
    BY <1>0, <2>2, DeclareFaithful, Zenon
  <2>7. /\ n + 1 \in DOMAIN config.scopes /\ Scope = config.scopes[n + 1] /\ Scope \in Scopes
    <3>1. n + 1 \in DOMAIN config.scopes /\ Scope \in Scopes
      BY <1>0, <2>4, NextScope
    <3>2. QED
      BY <2>4, <3>1 DEF Scope
  <2>8. \A p \in Inputs(Scope) :
          /\ p \in Paths /\ tree[p] \in Contents
          /\ TargetOf(Scope, p) \in Targets /\ TargetOf(Scope, p) \in Seq(STRING)
          /\ IsPrefix(Scope.target, TargetOf(Scope, p))
    <3>1. \A p \in Inputs(Scope) : p \in Paths
      BY <1>0, InputsBelow
    <3>2. tree \in [Paths -> Contents]
      BY <1>0 DEF TypeOK
    <3>3. QED
      BY <1>0, <3>1, <3>2, InputTargets
  <2>9. \A f \in Copies(Scope) : \E p \in Inputs(Scope) :
          f = [path |-> TargetOf(Scope, p), scope |-> Scope.name, content |-> tree[p], from |-> p]
    BY DEF Copies
  <2>10. \A p \in Inputs(Scope) :
           [path |-> TargetOf(Scope, p), scope |-> Scope.name, content |-> tree[p], from |-> p] \in Copies(Scope)
    BY DEF Copies
  <2>11. \A p \in Inputs(Scope), f \in copied : TargetOf(Scope, p) # f.path
    <3> SUFFICES ASSUME NEW p \in Inputs(Scope), NEW f \in copied, TargetOf(Scope, p) = f.path PROVE FALSE
      OBVIOUS
    <3>1. ~Overlap(TargetOf(Scope, p), TargetOf(Scope, p))
      BY <1>2 DEF Packable
    <3>2. IsPrefix(TargetOf(Scope, p), TargetOf(Scope, p))
      BY <2>8, PrefixOrder
    <3>3. QED
      BY <3>1, <3>2 DEF Overlap
  <2>12. TypeOK'
    <3>1. copied' \subseteq Files
      <4>1. ASSUME NEW p \in Inputs(Scope)
            PROVE  [path |-> TargetOf(Scope, p), scope |-> Scope.name, content |-> tree[p], from |-> p] \in Files
        BY <2>7, <2>8 DEF Files, Targets, Scopes
      <4>2. copied \subseteq Files
        BY <1>0 DEF TypeOK
      <4>3. QED
        BY <2>1, <2>9, <4>1, <4>2
    <3>2. /\ config' \in Configs /\ tree' \in [Paths -> Contents] /\ changes' \in 0..MaxChanges
          /\ stage' \in {"check", "select"} /\ gone' \in BOOLEAN
      BY <1>0, <2>1 DEF TypeOK
    <3>3. Len(declared') <= Len(config'.scopes)
      <4>1. n < Len(config.scopes) /\ config' = config
        BY <1>0, <2>4 DEF ProgressInv
      <4>2. Len(config.scopes) \in Nat
        BY <1>0, ConfigsAssumption DEF TypeOK, Parses
      <4>3. QED
        BY <2>5, <4>1, <4>2
    <3>4. \A i \in DOMAIN declared' : declared'[i].name = config'.scopes[i].name
      <4>1. \A i \in 1..n : declared[i].name = config.scopes[i].name
        BY <1>0, <2>5 DEF TypeOK
      <4>2. \A i \in 1..(n + 1) : i \in 1..n \/ i = n + 1
        BY <2>5
      <4>3. QED
        BY <1>0, <2>5, <2>6, <2>7, <4>1, <4>2
    <3>5. members' \subseteq [path : {f.path : f \in copied'}, content : Contents]
      <4>1. {f.path : f \in copied} \subseteq {f.path : f \in copied'}
        BY <2>1
      <4>2. QED
        BY <1>0, <4>1 DEF TypeOK
    <3>6. QED
      BY <3>1, <3>2, <3>3, <3>4, <3>5 DEF TypeOK
  <2>13. ProgressInv'
    <3>1. n < Len(config.scopes) /\ Len(config.scopes) \in Nat
      BY <1>0, <2>4, ConfigsAssumption DEF ProgressInv, TypeOK, Parses
    <3>2. QED
      BY <1>0, <2>1, <2>4, <2>5, <3>1 DEF ProgressInv
  <2>14. SelectedInv' /\ WrittenInv'
    BY <2>1 DEF SelectedInv, WrittenInv
  <2>15. /\ D.files # {} /\ LineSafe(D.source)
         /\ \A p \in D.files : p \in Seq(STRING) /\ LineSafe(p)
    <3>1. PICK p \in Inputs(Scope) : TRUE
      BY <1>2 DEF Packable
    <3>2. IsPrefix(Scope.source, p) /\ p \in Paths
      BY <1>0, InputsBelow
    <3>3. LineSafe(p)
      <4>1. p \in Selection(Scope)
        BY <3>1 DEF Inputs, TrackedInputs, Contribution, Selection
      <4>2. QED
        BY <1>2, <4>1 DEF Packable
    <3>4. Scope.source \in Seq(STRING) /\ p \in Seq(STRING)
      BY <1>0, <2>7, <3>2, PathsAssumption, ConfigsAssumption DEF TypeOK, Parses, ScopesOf
    <3>5. LineSafe(D.source)
      BY <2>6, <3>2, <3>3, <3>4, NamesAbove
    <3>6. \A q \in Inputs(Scope) : LineSafe(TargetOf(Scope, q))
      BY <1>2 DEF Packable
    <3>7. QED
      BY <2>6, <2>8, <3>1, <3>5, <3>6
  <2>16. DeclaredInv'
    <3>1. ASSUME NEW i \in 1..n PROVE Faithful(config.scopes[i], declared[i])'
      <4>1. Faithful(config.scopes[i], declared[i])
        BY <1>0, <2>5 DEF DeclaredInv
      <4>2. config'.scopes[i] = config.scopes[i] /\ declared'[i] = declared[i] /\ (~gone' => ~gone)
        BY <1>0, <2>1, <2>5
      <4>3. QED
        BY <4>1, <4>2 DEF Faithful, LineSafe
    <3>2. Faithful(config.scopes[n + 1], D)'
      <4>1. \A p \in D.files : IsPrefix(D.target, p)
        BY <2>6, <2>8
      <4>2. ~gone' => GeneratedAccepted(D)
        BY <2>1, <2>6
      <4>3. config'.scopes[n + 1] = Scope
        BY <1>0, <2>7
      <4>4. QED
        BY <2>6, <2>15, <4>1, <4>2, <4>3 DEF Faithful, LineSafe
    <3>3. \A i \in 1..(n + 1) : i \in 1..n \/ i = n + 1
      BY <2>5
    <3>4. QED
      BY <2>5, <3>1, <3>2, <3>3 DEF DeclaredInv
  <2>17. CopiedInv'
    <3>1. \A f, g \in copied' : f.path = g.path => f = g
      <4> SUFFICES ASSUME NEW f \in copied', NEW g \in copied', f.path = g.path PROVE f = g
        OBVIOUS
      <4>1. CASE f \in copied /\ g \in copied
        BY <1>0, <4>1 DEF CopiedInv
      <4>2. CASE f \in Copies(Scope) /\ g \in Copies(Scope)
        <5>1. PICK p \in Inputs(Scope) :
                f = [path |-> TargetOf(Scope, p), scope |-> Scope.name, content |-> tree[p], from |-> p]
          BY <2>9, <4>2
        <5>2. PICK q \in Inputs(Scope) :
                g = [path |-> TargetOf(Scope, q), scope |-> Scope.name, content |-> tree[q], from |-> q]
          BY <2>9, <4>2
        <5>3. TargetOf(Scope, p) = TargetOf(Scope, q)
          BY <5>1, <5>2
        <5>4. p = q
          BY <1>0, <5>3, InputTargets
        <5>5. QED
          BY <5>1, <5>2, <5>4
      <4>3. \A h \in Copies(Scope), k \in copied : h.path # k.path
        BY <2>9, <2>11
      <4>4. QED
        BY <2>1, <4>1, <4>2, <4>3
    <3>2. \A f \in copied' : \E i \in DOMAIN declared' : f.path \in declared'[i].files /\ f.scope = declared'[i].name
      <4>1. ASSUME NEW f \in copied
            PROVE  \E i \in DOMAIN declared' : f.path \in declared'[i].files /\ f.scope = declared'[i].name
        <5>1. PICK i \in 1..n : f.path \in declared[i].files /\ f.scope = declared[i].name
          BY <1>0, <2>5 DEF CopiedInv
        <5>2. i \in DOMAIN declared'
          BY <2>5
        <5>3. QED
          BY <2>5, <5>1, <5>2
      <4>2. ASSUME NEW f \in Copies(Scope)
            PROVE  \E i \in DOMAIN declared' : f.path \in declared'[i].files /\ f.scope = declared'[i].name
        <5>1. f.path \in D.files /\ f.scope = D.name
          BY <2>6, <2>9
        <5>2. n + 1 \in DOMAIN declared'
          BY <2>5
        <5>3. QED
          BY <2>5, <5>1, <5>2
      <4>3. QED
        BY <2>1, <4>1, <4>2
    <3>3. \A i \in DOMAIN declared' : \A p \in declared'[i].files :
            \E f \in copied' : f.path = p /\ f.scope = declared'[i].name
      <4>1. ASSUME NEW i \in 1..n, NEW p \in declared'[i].files
            PROVE  \E f \in copied' : f.path = p /\ f.scope = declared'[i].name
        BY <1>0, <2>1, <2>5 DEF CopiedInv
      <4>2. ASSUME NEW p \in D.files
            PROVE  \E f \in copied' : f.path = p /\ f.scope = D.name
        <5>1. PICK q \in Inputs(Scope) : p = TargetOf(Scope, q)
          BY <2>6
        <5>2. PICK f \in Copies(Scope) :
                f = [path |-> TargetOf(Scope, q), scope |-> Scope.name, content |-> tree[q], from |-> q]
          BY <2>10
        <5>3. f \in copied' /\ f.path = p /\ f.scope = D.name
          BY <2>1, <2>6, <5>1, <5>2
        <5>4. QED
          BY <5>3
      <4>3. \A i \in 1..(n + 1) : i \in 1..n \/ i = n + 1
        BY <2>5
      <4>4. QED
        BY <2>5, <4>1, <4>2, <4>3
    <3>4. \A i, j \in DOMAIN declared' : i # j => declared'[i].files \cap declared'[j].files = {}
      <4>1. ASSUME NEW i \in 1..n PROVE declared[i].files \cap D.files = {}
        <5> SUFFICES ASSUME NEW p \in declared[i].files, p \in D.files PROVE FALSE
          OBVIOUS
        <5>1. PICK f \in copied : f.path = p
          BY <1>0, <2>5 DEF CopiedInv
        <5>2. PICK q \in Inputs(Scope) : p = TargetOf(Scope, q)
          BY <2>6
        <5>3. QED
          BY <2>11, <5>1, <5>2
      <4>2. \A i, j \in 1..n : i # j => declared[i].files \cap declared[j].files = {}
        BY <1>0, <2>5 DEF CopiedInv
      <4>3. \A i \in 1..(n + 1) : i \in 1..n \/ i = n + 1
        BY <2>5
      <4>4. QED
        BY <2>5, <4>1, <4>2, <4>3
    <3>5. QED
      BY <3>1, <3>2, <3>3, <3>4 DEF CopiedInv
  <2>18. QED
    BY <2>12, <2>13, <2>14, <2>16, <2>17 DEF PackInv
<1>3. QED
  BY <1>1, <1>2

\* The rest of build_archive, a change of the working tree, or nothing.
LEMMA OthersKeep ==
  PackInv /\ (CheckPointers \/ WriteArchive \/ Validate \/ Change \/ UNCHANGED vars) => PackInv'
<1> SUFFICES ASSUME PackInv, CheckPointers \/ WriteArchive \/ Validate \/ Change \/ UNCHANGED vars
             PROVE  PackInv'
  OBVIOUS
<1>1. TypeOK /\ ProgressInv /\ SelectedInv /\ DeclaredInv /\ CopiedInv /\ WrittenInv
  BY DEF PackInv
<1>2. UNCHANGED <<config, selected, copied, declared, gone>> /\ (stage' = "copy" => stage = "copy")
  BY DEF CheckPointers, WriteArchive, Validate, Change, vars
<1>3. Scope' = Scope
  BY <1>2 DEF Scope
<1>4. DeclaredInv' /\ CopiedInv'
  BY <1>1, <1>2 DEF DeclaredInv, CopiedInv, Faithful, LineSafe
<1>5. SelectedInv'
  BY <1>1, <1>2, <1>3 DEF SelectedInv
<1>6. ProgressInv' /\ WrittenInv'
  <2>1. CASE CheckPointers
    BY <1>1, <1>2, <2>1 DEF CheckPointers, ProgressInv, WrittenInv, Pointers
  <2>2. CASE WriteArchive
    BY <1>1, <1>2, <2>2 DEF WriteArchive, ProgressInv, WrittenInv, Pointers
  <2>3. CASE Validate
    BY <1>1, <1>2, <2>3 DEF Validate, ProgressInv, WrittenInv, Pointers
  <2>4. CASE Change
    BY <1>1, <1>2, <2>4 DEF Change, ProgressInv, WrittenInv, Pointers
  <2>5. CASE UNCHANGED vars
    BY <1>1, <1>2, <2>5 DEF vars, ProgressInv, WrittenInv, Pointers
  <2>6. QED
    BY <2>1, <2>2, <2>3, <2>4, <2>5
<1>7. TypeOK'
  <2>1. CASE WriteArchive
    <3>1. members' \subseteq [path : {f.path : f \in copied}, content : Contents]
      <4>1. copied \subseteq Files
        BY <1>1 DEF TypeOK
      <4>2. \A f \in copied : f.content \in Contents
        BY <4>1 DEF Files
      <4>3. members' = {[path |-> f.path, content |-> f.content] :
                          f \in {g \in copied : Last(g.path) # ManifestName}}
        BY <2>1 DEF WriteArchive
      <4>4. QED
        BY <4>2, <4>3
    <3>2. QED
      BY <1>1, <1>2, <1>3, <2>1, <3>1 DEF TypeOK, WriteArchive
  <2>2. CASE CheckPointers \/ Validate \/ UNCHANGED vars
    <3>1. UNCHANGED <<tree, members, changes>>
      BY <2>2 DEF CheckPointers, Validate, vars
    <3>2. stage' \in {"write", "built", "refused", stage}
      BY <2>2 DEF CheckPointers, Validate, vars
    <3>3. QED
      BY <1>1, <1>2, <1>3, <3>1, <3>2 DEF TypeOK
  <2>3. CASE Change
    <3>1. changes' \in 0..MaxChanges
      BY <1>1, <2>3, TreesAssumption DEF TypeOK, Change
    <3>2. tree' \in [Paths -> Contents]
      BY <1>1, <2>3 DEF TypeOK, Change
    <3>3. UNCHANGED <<stage, members>>
      BY <2>3 DEF Change
    <3>4. QED
      BY <1>1, <1>2, <1>3, <3>1, <3>2, <3>3 DEF TypeOK
  <2>4. QED
    BY <2>1, <2>2, <2>3
<1>8. QED
  BY <1>4, <1>5, <1>6, <1>7 DEF PackInv

\* Nothing is packaged at first.
LEMMA PackInit == Init => PackInv
<1> SUFFICES ASSUME Init PROVE PackInv
  OBVIOUS
<1>1. Parses(config)
  BY ConfigsAssumption DEF Init
<1>2. Len(config.scopes) \in Nat /\ Len(config.scopes) # 0
  BY <1>1 DEF Parses
<1>3. declared = <<>> /\ Len(declared) = 0 /\ DOMAIN declared = {} /\ declared \in Seq(Entries)
  BY DEF Init
<1>4. TypeOK
  <2>1. config \in Configs /\ tree \in [Paths -> Contents] /\ changes \in 0..MaxChanges /\ gone \in BOOLEAN
    <3>1. MaxChanges \in Nat /\ Trees \subseteq [Paths -> Contents]
      BY TreesAssumption
    <3>2. changes = 0 /\ gone = FALSE /\ tree \in Trees /\ config \in Configs
      BY DEF Init
    <3>3. changes \in 0..MaxChanges
      BY <3>1, <3>2
    <3>4. tree \in [Paths -> Contents]
      BY <3>1, <3>2
    <3>5. QED
      BY <3>2, <3>3, <3>4
  <2>2. stage = "select" /\ copied = {} /\ members = {}
    BY DEF Init
  <2>3. Len(declared) <= Len(config.scopes) /\ \A i \in DOMAIN declared : declared[i].name = config.scopes[i].name
    BY <1>2, <1>3
  <2>4. QED
    BY <2>1, <2>2, <2>3 DEF TypeOK
<1>5. ProgressInv
  BY <1>2, <1>3 DEF Init, ProgressInv
<1>6. SelectedInv /\ WrittenInv
  BY DEF Init, SelectedInv, WrittenInv
<1>7. DeclaredInv /\ CopiedInv
  BY <1>3 DEF Init, DeclaredInv, CopiedInv
<1>8. QED
  BY <1>4, <1>5, <1>6, <1>7 DEF PackInv

LEMMA PackInvHolds == Spec => []PackInv
<1>1. PackInv /\ [Next]_vars => PackInv'
  BY SelectKeeps, CopyKeeps, OthersKeep DEF Next
<1>2. QED
  BY <1>1, PackInit, PTL DEF Spec

-----------------------------------------------------------------------------
(* What it shows. *)

\* Every variable stays in its range: TypeOK.
THEOREM TypeCorrect == Spec => []TypeOK
<1>1. PackInv => TypeOK
  BY DEF PackInv
<1>2. QED
  BY <1>1, PackInvHolds, PTL

\* No file of the archive is written by two scopes, or by a tracked and a
\* generated input: collect_files refuses it, for all configurations.
THEOREM CopiedOnce == Spec => []OneOrigin
<1>1. PackInv => OneOrigin
  BY DEF PackInv, CopiedInv, OneOrigin
<1>2. QED
  BY <1>1, PackInvHolds, PTL

\* validate_archive accepts what build_archive has written exactly when no file
\* has the name of the manifest and no packaged path and no source of a scope has
\* a backslash, for all configurations, working trees and changes, unless a
\* generated file vanished meanwhile.
THEOREM BuiltIsValid == Spec => []BuildPassesValidation
<1> DEFINE Named == /\ \A f \in copied : Last(f.path) # ManifestName /\ NoBackslash(f.path)
                   /\ \A s \in ScopesOf(config) : NoBackslash(s.source)
<1>1. ASSUME PackInv, stage = "validate", ~gone, Named PROVE Accepts(config)
  <2>1. TypeOK /\ ProgressInv /\ DeclaredInv /\ CopiedInv /\ WrittenInv
    BY <1>1 DEF PackInv
  <2>2. SameFiles
    <3>1. copied = {g \in copied : Last(g.path) # ManifestName}
      BY <1>1
    <3>2. members = {[path |-> f.path, content |-> f.content] : f \in copied}
      BY <1>1, <2>1, <3>1 DEF WrittenInv
    <3>3. \A f \in copied : f.content # "lfs"
      BY <1>1, <2>1 DEF WrittenInv, Pointers
    <3>4. \A m \in members : m.content # "lfs"
      BY <3>2, <3>3
    <3>5. QED
      BY <2>1, <3>2, <3>4 DEF SameFiles, CopiedInv
  <2>3. DOMAIN declared = DOMAIN config.scopes
    <3>1. Len(declared) = Len(config.scopes)
      BY <1>1, <2>1 DEF ProgressInv
    <3>2. DOMAIN declared = 1..Len(declared)
      BY <2>1 DEF ProgressInv
    <3>3. DOMAIN config.scopes = 1..Len(config.scopes)
      <4>1. config.scopes \in Seq(ScopesOf(config))
        BY <2>1, ConfigsAssumption DEF TypeOK, Parses
      <4>2. QED
        BY <4>1
    <3>4. QED
      BY <3>1, <3>2, <3>3
  <2>4. ASSUME NEW i \in DOMAIN declared
        PROVE  /\ GeneratedAccepted(declared[i]) /\ Configured(config, declared[i])
               /\ WellNamed(declared[i])
               /\ \A p \in declared[i].files : IsPrefix(declared[i].target, p)
    <3>1. Faithful(config.scopes[i], declared[i])
      BY <2>1 DEF DeclaredInv
    <3>2. config.scopes[i] \in ScopesOf(config)
      BY <2>3 DEF ScopesOf
    <3>3. Configured(config, declared[i])
      BY <3>1, <3>2 DEF Faithful, Configured
    <3>4. GeneratedAccepted(declared[i])
      BY <1>1, <3>1 DEF Faithful
    <3>5. declared[i] \in Entries
      BY <2>1 DEF ProgressInv
    <3>6. \A p \in declared[i].files : p \in Seq(STRING) /\ Portable(p)
      <4> SUFFICES ASSUME NEW p \in declared[i].files PROVE p \in Seq(STRING) /\ Portable(p)
        OBVIOUS
      <4>1. PICK f \in copied : f.path = p
        BY <2>1 DEF CopiedInv
      <4>2. QED
        BY <1>1, <3>1, <4>1 DEF Faithful, Portable
    <3>7. Portable(declared[i].source)
      BY <1>1, <3>1, <3>2 DEF Faithful, Portable
    <3>8. declared[i].target \in Seq(STRING)
      BY <3>5 DEF Entries
    <3>9. Portable(declared[i].target)
      <4>1. PICK p \in declared[i].files : IsPrefix(declared[i].target, p)
        BY <3>1 DEF Faithful
      <4>2. QED
        BY <3>6, <3>8, <4>1, NamesAbove
    <3>10. ASSUME NEW g \in declared[i].generated
           PROVE  Portable(g.path) /\ \A r \in g.required : Portable(r)
      <4>1. g.path \in Seq(STRING) /\ g.required \in SUBSET Seq(STRING)
        BY <3>5 DEF Entries
      <4>2. /\ g.files # {} /\ \A p \in g.files : p \in declared[i].files /\ IsPrefix(declared[i].target \o g.path, p)
            /\ \A r \in g.required : \E p \in g.files : IsPrefix(declared[i].target \o g.path \o r, p)
        BY <3>4 DEF GeneratedAccepted
      <4>3. Portable(g.path)
        <5>1. PICK p \in g.files : TRUE
          BY <4>2
        <5>2. QED
          BY <3>6, <3>8, <4>1, <4>2, <5>1, NamesBelow
      <4>4. ASSUME NEW r \in g.required PROVE Portable(r)
        <5>1. PICK p \in g.files : IsPrefix(declared[i].target \o g.path \o r, p)
          BY <4>2
        <5>2. declared[i].target \o g.path \in Seq(STRING) /\ r \in Seq(STRING)
          BY <3>8, <4>1
        <5>3. p \in Seq(STRING) /\ Portable(p)
          BY <3>6, <4>2
        <5>4. QED
          BY <5>1, <5>2, <5>3, NamesBelow
      <4>5. QED
        BY <4>3, <4>4
    <3>11. WellNamed(declared[i])
      BY <3>6, <3>7, <3>9, <3>10 DEF WellNamed
    <3>12. QED
      BY <3>1, <3>3, <3>4, <3>11 DEF Faithful
  <2>5. UNION {{<<p, declared[i].name>> : p \in declared[i].files} : i \in DOMAIN declared}
          = {<<f.path, f.scope>> : f \in copied}
    <3>1. ASSUME NEW f \in copied
          PROVE  \E i \in DOMAIN declared : \E p \in declared[i].files : <<f.path, f.scope>> = <<p, declared[i].name>>
      BY <2>1 DEF CopiedInv
    <3>2. ASSUME NEW i \in DOMAIN declared, NEW p \in declared[i].files
          PROVE  \E f \in copied : <<p, declared[i].name>> = <<f.path, f.scope>>
      <4>1. PICK f \in copied : f.path = p /\ f.scope = declared[i].name
        BY <2>1 DEF CopiedInv
      <4>2. QED
        BY <4>1, Zenon
    <3>3. QED
      BY <3>1, <3>2
  <2>6. {declared[i].name : i \in DOMAIN declared} = {s.name : s \in ScopesOf(config)}
    <3>1. \A i \in DOMAIN declared : declared[i].name = config.scopes[i].name
      BY <2>1 DEF TypeOK
    <3>2. QED
      BY <2>3, <3>1 DEF ScopesOf
  <2>7. \A i, j \in DOMAIN declared : i # j => declared[i].files \cap declared[j].files = {}
    BY <2>1 DEF CopiedInv
  <2>8. \A m \in members : Portable(m.path)
    <3>1. members = {[path |-> f.path, content |-> f.content] : f \in copied}
      BY <2>2 DEF SameFiles
    <3>2. ASSUME NEW f \in copied PROVE Portable(f.path)
      <4>1. PICK i \in DOMAIN declared : f.path \in declared[i].files
        BY <2>1 DEF CopiedInv
      <4>2. QED
        BY <2>4, <4>1 DEF WellNamed
    <3>3. QED
      BY <3>1, <3>2
  <2>9. QED
    BY <2>2, <2>4, <2>5, <2>6, <2>7, <2>8 DEF Accepts
<1>2. ASSUME PackInv, stage = "validate", Accepts(config) PROVE Named
  <2>1. /\ members = {[path |-> f.path, content |-> f.content] : f \in {g \in copied : Last(g.path) # ManifestName}}
        /\ members = {[path |-> f.path, content |-> f.content] : f \in copied}
        /\ \A m \in members : Portable(m.path)
    BY <1>2 DEF PackInv, WrittenInv, Accepts, SameFiles
  <2>2. ASSUME NEW f \in copied PROVE Last(f.path) # ManifestName /\ NoBackslash(f.path)
    <3>1. PICK m \in members : m = [path |-> f.path, content |-> f.content]
      BY <2>1
    <3>2. PICK g \in {g \in copied : Last(g.path) # ManifestName} : m = [path |-> g.path, content |-> g.content]
      BY <2>1
    <3>3. m.path = f.path /\ m.path = g.path
      BY <3>1, <3>2
    <3>4. Portable(m.path)
      BY <2>1
    <3>5. QED
      BY <3>2, <3>3, <3>4 DEF Portable
  <2>3. ASSUME NEW s \in ScopesOf(config) PROVE NoBackslash(s.source)
    <3>1. PICK i \in DOMAIN config.scopes : s = config.scopes[i]
      BY DEF ScopesOf
    <3>2. i \in DOMAIN declared
      <4>1. config.scopes \in Seq(ScopesOf(config))
        BY <1>2, ConfigsAssumption DEF PackInv, TypeOK, Parses
      <4>2. Len(declared) = Len(config.scopes) /\ DOMAIN declared = 1..Len(declared)
        BY <1>2 DEF PackInv, ProgressInv
      <4>3. QED
        BY <4>1, <4>2
    <3>3. declared[i].source = s.source
      BY <1>2, <3>1, <3>2 DEF PackInv, DeclaredInv, Faithful
    <3>4. QED
      BY <1>2, <3>2, <3>3 DEF Accepts, WellNamed, Portable
  <2>4. QED
    BY <2>2, <2>3
<1>3. PackInv => BuildPassesValidation
  BY <1>1, <1>2 DEF BuildPassesValidation
<1>4. QED
  BY <1>3, PackInvHolds, PTL
=============================================================================
