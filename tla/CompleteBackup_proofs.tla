------------------------ MODULE CompleteBackup_proofs ------------------------
(* Retention, for every number of backups, all timestamps and every          *)
(* retention; and the bundle, for all manifests, archives and metadata.      *)
EXTENDS CompleteBackup, SequenceTheorems, FiniteSetTheorems, TLAPS

-----------------------------------------------------------------------------
(* Age. *)

\* Ages can be compared.
LEMMA AgeType ==
  \A b \in Backups : b.id \in Int /\ b.created \in Int /\ b.id # NoBackup
<1>1. \A i \in Ids : i \in Int /\ i # NoBackup
  BY RetentionAssumption DEF NoBackup
<1>2. \A t \in Times : t \in Int
  BY RetentionAssumption
<1>3. \A b \in Backups : b.id \in Ids /\ b.created \in Times
  BY DEF Backups
<1>4. QED
  BY <1>1, <1>2, <1>3

\* Backups with different identifiers have different ages, and age is an order.
LEMMA OlderTotal ==
  ASSUME NEW a \in Backups, NEW b \in Backups, a.id # b.id
  PROVE  Older(a, b) \/ Older(b, a)
BY AgeType DEF Older

LEMMA OlderStrict ==
  ASSUME NEW a \in Backups, NEW b \in Backups, Older(a, b)
  PROVE  ~Older(b, a) /\ a # b
BY AgeType DEF Older

LEMMA OlderTransitive ==
  ASSUME NEW a \in Backups, NEW b \in Backups, NEW c \in Backups, Older(a, b), Older(b, c)
  PROVE  Older(a, c)
BY AgeType DEF Older

\* No two of a set of backups have one identifier.
Distinct(S) == S \subseteq Backups /\ \A a, b \in S : a.id = b.id => a = b

\* Among the parts of a finite set there is one that contains no other of them.
LEMMA SmallestSubset ==
  ASSUME NEW S, IsFiniteSet(S), NEW T, T \subseteq SUBSET S, T # {}
  PROVE  \E X \in T : \A Y \in T : Y \subseteq X => Y = X
<1>1. IsWellFoundedOn(StrictSubsetOrdering(S), SUBSET S)
  BY FS_StrictSubsetOrderingWellFounded, FS_FiniteSubsetsOfFinite
<1>2. PICK X \in T : \A Y \in T : <<Y, X>> \notin StrictSubsetOrdering(S)
  BY <1>1, WFMin
<1>3. \A Y \in T : Y \subseteq X => Y = X
  BY <1>2 DEF StrictSubsetOrdering
<1>4. QED
  BY <1>3

\* There is a youngest and an oldest backup.
LEMMA Youngest ==
  ASSUME NEW S, Distinct(S), IsFiniteSet(S), S # {}
  PROVE  \E y \in S : \A b \in S : b # y => Older(b, y)
<1> DEFINE Bad == {X \in SUBSET S : X # {} /\ ~\E y \in X : \A b \in X : b # y => Older(b, y)}
<1> SUFFICES ASSUME Bad # {} PROVE FALSE
  OBVIOUS
<1>a. Bad \subseteq SUBSET S
  OBVIOUS
<1>1. PICK X \in Bad : \A Y \in Bad : Y \subseteq X => Y = X
  <2> HIDE DEF Bad
  <2>1. QED
    BY <1>a, SmallestSubset
<1>2. PICK x \in X : TRUE
  OBVIOUS
<1>3. X \ {x} # {}
  OBVIOUS
<1>4. PICK y \in X \ {x} : \A b \in X \ {x} : b # y => Older(b, y)
  <2>1. X \ {x} \notin Bad /\ X \ {x} \in SUBSET S
    BY <1>1, <1>2
  <2>2. QED
    BY <1>3, <2>1
<1>5. x \in Backups /\ y \in Backups /\ X \subseteq Backups /\ x.id # y.id
  BY DEF Distinct
<1>6. CASE Older(x, y)
  BY <1>4, <1>6
<1>7. CASE Older(y, x)
  <2>1. \A b \in X : b # x => Older(b, x)
    BY <1>4, <1>5, <1>7, OlderTransitive
  <2>2. QED
    BY <2>1
<1>8. QED
  BY <1>5, <1>6, <1>7, OlderTotal


LEMMA Oldest ==
  ASSUME NEW S, Distinct(S), IsFiniteSet(S), S # {}
  PROVE  \E y \in S : \A b \in S : b # y => Older(y, b)
<1> DEFINE Bad == {X \in SUBSET S : X # {} /\ ~\E y \in X : \A b \in X : b # y => Older(y, b)}
<1> SUFFICES ASSUME Bad # {} PROVE FALSE
  OBVIOUS
<1>a. Bad \subseteq SUBSET S
  OBVIOUS
<1>1. PICK X \in Bad : \A Y \in Bad : Y \subseteq X => Y = X
  <2> HIDE DEF Bad
  <2>1. QED
    BY <1>a, SmallestSubset
<1>2. PICK x \in X : TRUE
  OBVIOUS
<1>3. X \ {x} # {}
  OBVIOUS
<1>4. PICK y \in X \ {x} : \A b \in X \ {x} : b # y => Older(y, b)
  <2>1. X \ {x} \notin Bad /\ X \ {x} \in SUBSET S
    BY <1>1, <1>2
  <2>2. QED
    BY <1>3, <2>1
<1>5. x \in Backups /\ y \in Backups /\ X \subseteq Backups /\ x.id # y.id
  BY DEF Distinct
<1>6. CASE Older(y, x)
  BY <1>4, <1>6
<1>7. CASE Older(x, y)
  <2>1. \A b \in X : b # x => Older(x, b)
    BY <1>4, <1>5, <1>7, OlderTransitive
  <2>2. QED
    BY <2>1
<1>8. QED
  BY <1>5, <1>6, <1>7, OlderTotal

-----------------------------------------------------------------------------
(* The order of the deletions. *)

\* The selection as the code sorts it.
InOrder(d) == \A i, j \in DOMAIN d : i < j => ~Older(d[j], d[i])

\* Every set of backups can be sorted.
LEMMA SortExists ==
  ASSUME NEW S, Distinct(S), IsFiniteSet(S)
  PROVE  \E d \in SetToSeqs(S) : InOrder(d)
<1> DEFINE Bad == {X \in SUBSET S : ~\E d \in SetToSeqs(X) : InOrder(d)}
<1> SUFFICES ASSUME Bad # {} PROVE FALSE
  OBVIOUS
<1>a. Bad \subseteq SUBSET S
  OBVIOUS
<1>1. PICK X \in Bad : \A Y \in Bad : Y \subseteq X => Y = X
  <2> HIDE DEF Bad
  <2>1. QED
    BY <1>a, SmallestSubset
<1>2. X \in SUBSET S /\ IsFiniteSet(X) /\ Distinct(X) /\ ~\E d \in SetToSeqs(X) : InOrder(d)
  BY FS_Subset DEF Distinct
<1>3. CASE X = {}
  <2>1. Cardinality(X) = 0
    BY <1>3, FS_EmptySet
  <2>2. [i \in 1..0 |-> i] \in SetToSeqs(X) /\ InOrder([i \in 1..0 |-> i])
    BY <1>3, <2>1 DEF SetToSeqs, InOrder
  <2>3. QED
    BY <1>2, <2>2
<1>4. CASE X # {}
  <2>1. PICK y \in X : \A b \in X : b # y => Older(b, y)
    BY <1>2, <1>4, Youngest
  <2>2. X \ {y} \notin Bad /\ X \ {y} \in SUBSET S
    BY <1>1, <2>1
  <2>3. PICK d \in SetToSeqs(X \ {y}) : InOrder(d)
    BY <2>2
  <2>4. Cardinality(X) \in Nat \ {0} /\ Cardinality(X \ {y}) = Cardinality(X) - 1
    BY <1>2, <2>1, FS_RemoveElement, FS_CardinalityType, FS_EmptySet
  <2> DEFINE n == Cardinality(X)
             e == [i \in 1..n |-> IF i = n THEN y ELSE d[i]]
  <2>5. d \in [1..(n - 1) -> X \ {y}] /\ \A i, j \in 1..(n - 1) : i # j => d[i] # d[j]
    BY <2>4 DEF SetToSeqs
  <2>6. n \in Nat \ {0}
    BY <2>4
  <2> HIDE DEF n
  <2>7. \A i \in 1..n : i # n => i \in 1..(n - 1)
    BY <2>6
  <2>8. e \in [1..n -> X] /\ \A i, j \in 1..n : i # j => e[i] # e[j]
    BY <2>5, <2>6, <2>7
  <2>9. e \in SetToSeqs(X)
    BY <2>8 DEF SetToSeqs, n
  <2>10. InOrder(e)
    <3> SUFFICES ASSUME NEW i \in 1..n, NEW j \in 1..n, i < j PROVE ~Older(e[j], e[i])
      BY <2>8 DEF InOrder
    <3>1. i \in 1..(n - 1) /\ e[i] = d[i] /\ d[i] \in X \ {y} /\ X \subseteq Backups
      BY <1>2, <2>5, <2>6, <2>7 DEF Distinct
    <3>2. CASE j = n
      <4>1. Older(d[i], y) /\ e[j] = y
        BY <2>1, <3>1, <3>2
      <4>2. QED
        BY <3>1, <4>1, OlderStrict
    <3>3. CASE j # n
      <4>1. j \in 1..(n - 1) /\ e[j] = d[j]
        BY <2>7, <3>3
      <4>2. QED
        BY <2>3, <2>5, <3>1, <4>1 DEF InOrder
    <3>4. QED
      BY <3>2, <3>3
  <2>11. QED
    BY <1>2, <2>9, <2>10
<1>5. QED
  BY <1>3, <1>4

\* What is selected, from the oldest to the youngest.
Selected(S) == Unprotected(S) \ Kept(S)
OldestFirst(d) == \A i, j \in DOMAIN d : i < j => Older(d[i], d[j])

LEMMA DeletionsInOrder ==
  ASSUME NEW S, Distinct(S), IsFiniteSet(S)
  PROVE  /\ Deletions(S) \in Seq(Selected(S))
         /\ ToSet(Deletions(S)) = Selected(S)
         /\ OldestFirst(Deletions(S))
<1> DEFINE D == Selected(S)
           d == Deletions(S)
<1>1. D \subseteq S /\ IsFiniteSet(D) /\ Distinct(D)
  <2>1. D \subseteq S
    BY DEF Selected, Unprotected
  <2>2. QED
    BY <2>1, FS_Subset DEF Distinct
<1>2. d \in SetToSeqs(D) /\ InOrder(d)
  <2>1. d = CHOOSE x \in SetToSeqs(D) : InOrder(x)
    BY DEF Deletions, InOrder, Selected
  <2>2. QED
    <3> HIDE DEF d, D
    <3>1. QED
      BY <1>1, <2>1, SortExists
<1> HIDE DEF d, D
<1>3. /\ Cardinality(D) \in Nat /\ d \in [1..Cardinality(D) -> D]
      /\ \A i, j \in 1..Cardinality(D) : i # j => d[i] # d[j]
  BY <1>1, <1>2, FS_CardinalityType DEF SetToSeqs
<1>4. d \in Seq(D)
  BY <1>3
<1>5. ToSet(d) = D
  <2> DEFINE I == 1..Cardinality(D)
  <2>1. IsFiniteSet(I) /\ Cardinality(I) = Cardinality(D)
    BY <1>3, FS_Interval
  <2>2. d \in Injection(I, D)
    BY <1>3 DEF Injection, IsInjective
  <2>3. d \in Surjection(I, D)
    BY <1>1, <2>1, <2>2, FS_Injection
  <2>4. QED
    BY <1>3, <2>3 DEF Surjection, ToSet
<1>6. OldestFirst(d)
  <2> SUFFICES ASSUME NEW i \in DOMAIN d, NEW j \in DOMAIN d, i < j PROVE Older(d[i], d[j])
    BY DEF OldestFirst
  <2>1. d[i] \in D /\ d[j] \in D /\ d[i] # d[j]
    BY <1>3
  <2>2. d[i].id # d[j].id /\ d[i] \in Backups /\ d[j] \in Backups
    BY <1>1, <2>1 DEF Distinct
  <2>3. QED
    BY <1>2, <2>2, OlderTotal DEF InOrder
<1>7. QED
  BY <1>4, <1>5, <1>6 DEF d, D

-----------------------------------------------------------------------------
(* What the engine and the selection keep. *)

Identified(S) == {b.id : b \in S}

\* Every pointer has its backup, and baseline points to a baseline.
PointersInv ==
  /\ stage # "refused"
  /\ Referenced \subseteq Identified(backups)
  /\ \A b \in backups : b.id = baselineId => b.kind = "baseline"

\* There are finitely many backups, each with an identifier of its own.
StoreInv == Distinct(backups) /\ IsFiniteSet(backups) /\ Distinct(former) /\ IsFiniteSet(former)

\* What has been deleted was selected, in the order of the selection: the rest of
\* it is what is still there, and younger.
ProgressInv ==
  IF stage = "deleting"
  THEN /\ backups \subseteq former /\ former \ backups \subseteq Selected(former)
       /\ deletions \in Seq(Selected(former)) /\ OldestFirst(deletions)
       /\ ToSet(deletions) = Selected(former) \cap backups
       /\ \A gone \in former \ backups, b \in Selected(former) \cap backups : Older(gone, b)
  ELSE former = {} /\ deletions = <<>>

RetentionInv == RetentionTypeOK /\ PointersInv /\ StoreInv /\ ProgressInv

LEMMA RetentionInvInit == RetentionInit => RetentionInv
<1> SUFFICES ASSUME RetentionInit PROVE RetentionInv
  OBVIOUS
<1>1. IsFiniteSet({})
  BY FS_EmptySet
<1>2. QED
  BY <1>1 DEF RetentionInit, RetentionInv, RetentionTypeOK, PointersInv, StoreInv, ProgressInv,
              Distinct, Referenced, Identified, ToSet

\* While the pointers stand still, so does what a selection would name.
LEMMA SelectedStable ==
  ASSUME UNCHANGED <<baselineId, latestId, active>>, NEW S
  PROVE  Selected(S)' = Selected(S) /\ Referenced' = Referenced
BY DEF Selected, Unprotected, Protected, Kept, Referenced

\* Nothing that is referred to and no baseline is selected.
LEMMA SelectedUnneeded ==
  ASSUME NEW S, NEW b \in Selected(S)
  PROVE  b \in S /\ b.kind # "baseline" /\ b.id \notin Referenced
BY DEF Selected, Unprotected, Protected, Kept

\* A selection succeeds.
LEMMA SelectKeeps == RetentionInv /\ Select => RetentionInv'
<1> SUFFICES ASSUME RetentionInv, Select PROVE RetentionInv'
  OBVIOUS
<1>1. Acceptable(backups)
  BY DEF RetentionInv, PointersInv, Acceptable, Identified
<1>2. /\ stage' = "deleting" /\ deletions' = Deletions(backups) /\ former' = backups
      /\ UNCHANGED <<backups, baselineId, latestId, active>>
  BY <1>1 DEF Select
<1>3. /\ Deletions(backups) \in Seq(Selected(backups))
      /\ ToSet(Deletions(backups)) = Selected(backups)
      /\ OldestFirst(Deletions(backups))
  BY DeletionsInOrder DEF RetentionInv, StoreInv
<1>4. Selected(former)' = Selected(backups) /\ Referenced' = Referenced
  BY <1>2 DEF Selected, Unprotected, Protected, Kept, Referenced
<1>5. RetentionTypeOK'
  <2>1. \A b \in Selected(backups) : b \in Backups /\ b.kind # "baseline"
    BY SelectedUnneeded DEF RetentionInv, RetentionTypeOK
  <2>2. QED
    BY <1>2, <1>3, <2>1 DEF RetentionInv, RetentionTypeOK
<1>6. PointersInv'
  BY <1>2, <1>4 DEF RetentionInv, PointersInv, Identified
<1>7. StoreInv'
  BY <1>2 DEF RetentionInv, StoreInv, Distinct
<1>8. ProgressInv'
  <2>1. Selected(backups) \cap backups = Selected(backups)
    BY SelectedUnneeded
  <2>2. OldestFirst(deletions)' /\ ToSet(deletions)' = Selected(backups)
    BY <1>2, <1>3 DEF OldestFirst, Older, ToSet
  <2>3. QED
    BY <1>2, <1>3, <1>4, <2>1, <2>2 DEF ProgressInv
<1>9. QED
  BY <1>5, <1>6, <1>7, <1>8 DEF RetentionInv

\* A backup is made.
LEMMA MakeKeeps == RetentionInv /\ MakeBackup => RetentionInv'
<1> SUFFICES ASSUME RetentionInv, MakeBackup PROVE RetentionInv'
  OBVIOUS
<1>1. PICK b \in Backups :
       /\ b.id \notin {c.id : c \in backups}
       /\ backups' = backups \cup {b}
       /\ IF b.kind = "baseline"
          THEN baselineId = NoBackup /\ baselineId' \in {baselineId, b.id} /\ UNCHANGED active
          ELSE active' = active \cup {b.id} /\ UNCHANGED baselineId
  BY DEF MakeBackup
<1>2. stage = "ready" /\ UNCHANGED <<latestId, deletions, stage, former>>
  BY DEF MakeBackup
<1>3. b.id \in Ids /\ b.id # NoBackup
  BY AgeType DEF Backups
<1>4. RetentionTypeOK'
  <2>1. {baselineId, latestId}' \subseteq Ids \cup {NoBackup} /\ (active \subseteq Ids)'
    BY <1>1, <1>2, <1>3 DEF RetentionInv, RetentionTypeOK
  <2>2. (ToSet(deletions) \subseteq {x \in Backups : x.kind # "baseline"})'
    BY <1>2 DEF RetentionInv, RetentionTypeOK
  <2>3. QED
    BY <1>1, <1>2, <2>1, <2>2 DEF RetentionInv, RetentionTypeOK
<1>5. PointersInv'
  <2>1. Identified(backups)' = Identified(backups) \cup {b.id}
    BY <1>1 DEF Identified
  <2>2. Referenced' \subseteq Referenced \cup {b.id}
    BY <1>1, <1>2 DEF Referenced
  <2>3. baselineId # b.id
    BY <1>1, <1>3 DEF RetentionInv, PointersInv, Referenced, Identified
  <2>4. \A x \in backups' : x.id = baselineId' => x.kind = "baseline"
    <3>1. CASE b.kind = "baseline"
      BY <1>1, <3>1 DEF RetentionInv, PointersInv
    <3>2. CASE b.kind # "baseline"
      BY <1>1, <2>3, <3>2 DEF RetentionInv, PointersInv
    <3>3. QED
      BY <3>1, <3>2
  <2>5. QED
    BY <1>2, <2>1, <2>2, <2>4 DEF RetentionInv, PointersInv
<1>6. StoreInv'
  <2>1. IsFiniteSet(backups')
    BY <1>1, FS_AddElement DEF RetentionInv, StoreInv
  <2>2. QED
    BY <1>1, <1>2, <2>1 DEF RetentionInv, StoreInv, Distinct
<1>7. ProgressInv'
  BY <1>2 DEF RetentionInv, ProgressInv
<1>8. QED
  BY <1>4, <1>5, <1>6, <1>7 DEF RetentionInv

\* An operation ends.
LEMMA EndKeeps == RetentionInv /\ EndOperation => RetentionInv'
<1> SUFFICES ASSUME RetentionInv, EndOperation PROVE RetentionInv'
  OBVIOUS
<1>1. PICK i \in active : active' = active \ {i} /\ latestId' \in {latestId, i}
  BY DEF EndOperation
<1>2. stage = "ready" /\ UNCHANGED <<backups, baselineId, deletions, stage, former>>
  BY DEF EndOperation
<1>3. Referenced' \subseteq Referenced
  <2>1. i \in Ids /\ i # NoBackup
    BY RetentionAssumption DEF RetentionInv, RetentionTypeOK, NoBackup
  <2>2. QED
    BY <1>1, <1>2, <2>1 DEF Referenced
<1>4. RetentionTypeOK'
  <2>1. {baselineId, latestId}' \subseteq Ids \cup {NoBackup} /\ (active \subseteq Ids)'
    BY <1>1, <1>2 DEF RetentionInv, RetentionTypeOK
  <2>2. QED
    BY <1>2, <2>1 DEF RetentionInv, RetentionTypeOK
<1>5. PointersInv'
  BY <1>2, <1>3 DEF RetentionInv, PointersInv, Identified
<1>6. StoreInv'
  BY <1>2 DEF RetentionInv, StoreInv, Distinct
<1>7. ProgressInv'
  BY <1>2 DEF RetentionInv, ProgressInv
<1>8. QED
  BY <1>4, <1>5, <1>6, <1>7 DEF RetentionInv

\* The next of the selected backups is deleted.
LEMMA DeleteKeeps == RetentionInv /\ DeleteNext => RetentionInv'
<1> SUFFICES ASSUME RetentionInv, DeleteNext PROVE RetentionInv'
  OBVIOUS
<1> DEFINE D == Selected(former)
           d == deletions
<1>1. /\ stage = "deleting" /\ d # <<>>
      /\ backups' = {b \in backups : b.id # Head(d).id} /\ d' = Tail(d)
      /\ UNCHANGED <<baselineId, latestId, active, stage, former>>
  BY DEF DeleteNext
<1>2. /\ backups \subseteq former /\ former \ backups \subseteq D
      /\ d \in Seq(D) /\ OldestFirst(d) /\ ToSet(d) = D \cap backups
      /\ \A gone \in former \ backups, b \in D \cap backups : Older(gone, b)
  BY <1>1 DEF RetentionInv, ProgressInv
<1>3. Selected(former)' = D /\ Referenced' = Referenced
  <2>1. Selected(former)' = Selected(former') /\ former' = former
    BY <1>1 DEF Selected, Unprotected, Protected, Kept, Referenced
  <2>2. QED
    BY <1>1, <2>1 DEF Referenced
<1>4. D \subseteq former /\ former \subseteq Backups
  BY SelectedUnneeded DEF RetentionInv, RetentionTypeOK
<1> HIDE DEF D
<1>5. Len(d) \in Nat /\ Len(d) >= 1 /\ d \in [1..Len(d) -> D] /\ Head(d) = d[1]
  BY <1>1, <1>2
<1> DEFINE first == d[1]
<1>6. first \in D \cap backups /\ first \in Backups
  BY <1>2, <1>4, <1>5 DEF ToSet
<1>7. backups' = backups \ {first}
  BY <1>1, <1>5, <1>6 DEF RetentionInv, StoreInv, Distinct
<1>8. /\ Tail(d) \in Seq(D) /\ DOMAIN Tail(d) = 1..(Len(d) - 1)
      /\ \A i \in 1..(Len(d) - 1) : Tail(d)[i] = d[i + 1] /\ i + 1 \in 1..Len(d)
  BY <1>1, <1>2, <1>5
<1>9. \A i \in 2..Len(d) : Older(first, d[i]) /\ d[i] # first
  <2> TAKE i \in 2..Len(d)
  <2>1. i \in DOMAIN d /\ 1 \in DOMAIN d /\ 1 < i
    BY <1>5
  <2>2. Older(first, d[i]) /\ d[i] \in Backups
    BY <1>2, <1>4, <1>5, <2>1 DEF OldestFirst
  <2>3. QED
    BY <1>6, <2>2, OlderStrict
<1>10. OldestFirst(Tail(d))
  <2> SUFFICES ASSUME NEW i \in 1..(Len(d) - 1), NEW j \in 1..(Len(d) - 1), i < j
               PROVE  Older(Tail(d)[i], Tail(d)[j])
    BY <1>8 DEF OldestFirst
  <2>1. i + 1 \in DOMAIN d /\ j + 1 \in DOMAIN d /\ i + 1 < j + 1
    BY <1>5, <1>8
  <2>2. QED
    BY <1>2, <1>8, <2>1 DEF OldestFirst
<1>11. ToSet(Tail(d)) = D \cap backups'
  <2>1. \A b \in ToSet(Tail(d)) : b \in ToSet(d) /\ b # first
    <3> SUFFICES ASSUME NEW i \in 1..(Len(d) - 1) PROVE Tail(d)[i] \in ToSet(d) /\ Tail(d)[i] # first
      BY <1>8 DEF ToSet
    <3>1. i + 1 \in 2..Len(d) /\ i + 1 \in DOMAIN d
      BY <1>5, <1>8
    <3>2. QED
      BY <1>8, <1>9, <3>1 DEF ToSet
  <2>2. \A b \in ToSet(d) : b # first => b \in ToSet(Tail(d))
    <3> SUFFICES ASSUME NEW i \in 1..Len(d), d[i] # first PROVE d[i] \in ToSet(Tail(d))
      BY <1>5 DEF ToSet
    <3>1. i - 1 \in 1..(Len(d) - 1) /\ (i - 1) + 1 = i
      BY <1>5
    <3>2. d[i] = Tail(d)[i - 1]
      BY <1>8, <3>1
    <3>3. QED
      BY <1>8, <3>1, <3>2 DEF ToSet
  <2>3. QED
    BY <1>2, <1>7, <2>1, <2>2
<1>12. RetentionTypeOK'
  <2>1. \A b \in D : b \in Backups /\ b.kind # "baseline"
    BY <1>4, SelectedUnneeded DEF D
  <2>2. (ToSet(deletions) \subseteq {b \in Backups : b.kind # "baseline"})'
    BY <1>1, <1>11, <2>1
  <2>3. (backups \subseteq Backups)'
    BY <1>7 DEF RetentionInv, RetentionTypeOK
  <2>4. QED
    BY <1>1, <2>2, <2>3 DEF RetentionInv, RetentionTypeOK
<1>13. PointersInv'
  <2>1. first.id \notin Referenced
    BY <1>6, SelectedUnneeded DEF D
  <2>2. Referenced' \subseteq Identified(backups)'
    BY <1>3, <1>7, <2>1 DEF RetentionInv, PointersInv, Identified
  <2>3. QED
    BY <1>1, <1>7, <2>2 DEF RetentionInv, PointersInv
<1>14. StoreInv'
  <2>1. IsFiniteSet(backups')
    BY <1>7, FS_RemoveElement DEF RetentionInv, StoreInv
  <2>2. QED
    BY <1>1, <1>7, <2>1 DEF RetentionInv, StoreInv, Distinct
<1>15. ProgressInv'
  <2>1. former \ backups' = (former \ backups) \cup {first}
    BY <1>4, <1>6, <1>7
  <2>2. \A gone \in former \ backups', b \in D \cap backups' : Older(gone, b)
    <3> TAKE gone \in former \ backups', b \in D \cap backups'
    <3>1. b \in ToSet(Tail(d))
      BY <1>11
    <3>2. PICK i \in 1..(Len(d) - 1) : b = d[i + 1] /\ i + 1 \in 2..Len(d)
      BY <1>5, <1>8, <3>1 DEF ToSet
    <3>3. Older(first, b)
      BY <1>9, <3>2
    <3>4. QED
      BY <1>2, <1>7, <2>1, <3>3
  <2>3. (former \ backups)' \subseteq D /\ (backups \subseteq former)'
    BY <1>1, <1>2, <1>6, <1>7, <2>1
  <2>4. deletions' \in Seq(D) /\ ToSet(deletions)' = D \cap backups' /\ OldestFirst(deletions)'
    BY <1>1, <1>8, <1>10, <1>11 DEF OldestFirst, ToSet, Older
  <2>5. \A gone \in former' \ backups', b \in D \cap backups' : Older(gone, b)'
    BY <1>1, <2>2 DEF Older
  <2>6. QED
    BY <1>1, <1>3, <2>3, <2>4, <2>5 DEF ProgressInv
<1>16. QED
  BY <1>12, <1>13, <1>14, <1>15 DEF RetentionInv

\* The engine is done, or is killed.
LEMMA StopKeeps == RetentionInv /\ StopDeleting => RetentionInv'
<1> SUFFICES ASSUME RetentionInv, StopDeleting PROVE RetentionInv'
  OBVIOUS
<1>1. /\ stage' = "ready" /\ deletions' = <<>> /\ former' = {}
      /\ UNCHANGED <<backups, baselineId, latestId, active>>
  BY DEF StopDeleting
<1>2. RetentionTypeOK' /\ ProgressInv'
  BY <1>1 DEF RetentionInv, RetentionTypeOK, ProgressInv, ToSet
<1>3. PointersInv'
  BY <1>1 DEF RetentionInv, PointersInv, Identified, Referenced
<1>4. StoreInv'
  BY <1>1, FS_EmptySet DEF RetentionInv, StoreInv, Distinct
<1>5. QED
  BY <1>2, <1>3, <1>4 DEF RetentionInv

\* A step that does not concern retention.
LEMMA AsideKeeps == RetentionInv /\ UNCHANGED retentionVars => RetentionInv'
<1> SUFFICES ASSUME RetentionInv, UNCHANGED retentionVars PROVE RetentionInv'
  OBVIOUS
<1>1. UNCHANGED <<backups, baselineId, latestId, active, deletions, stage, former>>
  BY DEF retentionVars
<1>2. RetentionTypeOK' /\ PointersInv' /\ StoreInv'
  BY <1>1 DEF RetentionInv, RetentionTypeOK, PointersInv, StoreInv, Distinct, Identified, Referenced
<1>3. ProgressInv'
  <2>1. Selected(former)' = Selected(former)
    BY <1>1 DEF Selected, Unprotected, Protected, Kept, Referenced
  <2>2. QED
    BY <1>1, <2>1 DEF RetentionInv, ProgressInv, OldestFirst, Older, ToSet
<1>4. QED
  BY <1>2, <1>3 DEF RetentionInv

LEMMA RetentionInvHolds == Spec => []RetentionInv
<1>1. Init => RetentionInv
  BY RetentionInvInit DEF Init
<1>2. RetentionInv /\ [Next]_vars => RetentionInv'
  <2> SUFFICES ASSUME RetentionInv, [Next]_vars PROVE RetentionInv'
    OBVIOUS
  <2>1. CASE RetentionNext
    BY <2>1, SelectKeeps, MakeKeeps, EndKeeps, DeleteKeeps, StopKeeps DEF RetentionNext
  <2>2. CASE UNCHANGED retentionVars
    BY <2>2, AsideKeeps
  <2>3. QED
    BY <2>1, <2>2 DEF Next, vars
<1>3. QED
  BY <1>1, <1>2, PTL DEF Spec

-----------------------------------------------------------------------------
(* What the selection promises. *)

\* Among the newest: fewer than retention are younger.
Younger(b, S) == {c \in Unprotected(S) : Older(b, c)}
Newest(S) == {b \in Unprotected(S) : Cardinality(Younger(b, S)) < Retention}

LEMMA KeptNewest ==
  ASSUME NEW S, NEW b \in Unprotected(S)
  PROVE  b \in Selected(S) <=> b.id \notin Referenced /\ b \notin Newest(S)
<1>1. b \in S
  BY DEF Unprotected
<1>2. QED
  BY <1>1 DEF Selected, Kept, Newest, Younger

LEMMA YoungerFinite ==
  ASSUME NEW S, IsFiniteSet(S), NEW b
  PROVE  IsFiniteSet(Younger(b, S)) /\ Cardinality(Younger(b, S)) \in Nat
<1>1. Younger(b, S) \in SUBSET S
  BY DEF Younger, Unprotected
<1>2. QED
  BY <1>1, FS_Subset, FS_CardinalityType

\* Whoever is not among the newest is older than each of them.
LEMMA NewestYounger ==
  ASSUME NEW S, Distinct(S), IsFiniteSet(S), NEW b \in Newest(S),
         NEW a \in Unprotected(S), a \notin Newest(S)
  PROVE  Older(a, b)
<1> SUFFICES ASSUME ~Older(a, b) PROVE FALSE
  OBVIOUS
<1>1. a \in S /\ b \in S /\ a \in Backups /\ b \in Backups /\ a # b /\ b \in Unprotected(S)
  BY DEF Newest, Unprotected, Distinct
<1>2. Older(b, a)
  BY <1>1, OlderTotal DEF Distinct
<1>3. Younger(a, S) \in SUBSET Younger(b, S)
  <2>1. \A c \in Unprotected(S) : c \in Backups
    BY DEF Unprotected, Distinct
  <2>2. QED
    BY <1>1, <1>2, <2>1, OlderTransitive DEF Younger
<1>4. Cardinality(Younger(a, S)) <= Cardinality(Younger(b, S))
  BY <1>3, YoungerFinite, FS_Subset
<1>5. Cardinality(Younger(b, S)) < Retention /\ ~(Cardinality(Younger(a, S)) < Retention)
  BY DEF Newest
<1>6. Cardinality(Younger(a, S)) \in Nat /\ Cardinality(Younger(b, S)) \in Nat /\ Retention \in Nat
  BY YoungerFinite, RetentionAssumption
<1>7. QED
  BY <1>4, <1>5, <1>6

\* There are no more of the newest than retention says: all but the oldest of
\* them are younger than that one.
LEMMA NewestFew ==
  ASSUME NEW S, Distinct(S), IsFiniteSet(S)
  PROVE  IsFiniteSet(Newest(S)) /\ Cardinality(Newest(S)) <= Retention
<1> DEFINE N == Newest(S)
<1>1. N \in SUBSET S /\ N \subseteq Unprotected(S)
  BY DEF Newest, Unprotected
<1>2. IsFiniteSet(N) /\ Distinct(N) /\ Cardinality(N) \in Nat /\ Retention \in Nat \ {0}
  BY <1>1, FS_Subset, FS_CardinalityType, RetentionAssumption DEF Distinct
<1>3. CASE N = {}
  BY <1>2, <1>3, FS_EmptySet
<1>4. CASE N # {}
  <2>1. PICK a \in N : \A b \in N : b # a => Older(a, b)
    <3> HIDE DEF N
    <3>1. QED
      BY <1>2, <1>4, Oldest
  <2>2. N \ {a} \in SUBSET Younger(a, S)
    BY <1>1, <2>1 DEF Younger
  <2>3. Cardinality(N \ {a}) <= Cardinality(Younger(a, S)) /\ Cardinality(Younger(a, S)) \in Nat
    BY <2>2, YoungerFinite, FS_Subset
  <2>4. Cardinality(N \ {a}) = Cardinality(N) - 1
    BY <1>2, FS_RemoveElement
  <2>5. Cardinality(Younger(a, S)) < Retention
    BY DEF Newest
  <2>6. Cardinality(N) <= Retention
    <3> HIDE DEF N
    <3>1. QED
      BY <1>2, <2>3, <2>4, <2>5
  <2>7. QED
    BY <1>2, <2>6
<1>5. QED
  BY <1>3, <1>4

\* Of the backups of a selection, those that are still there and that nobody
\* refers to are to be deleted or among the newest.
LEMMA Remaining ==
  ASSUME RetentionInv, stage = "deleting", NEW b \in Unprotected(backups), b.id \notin Referenced
  PROVE  b \in Unprotected(former) /\ (b \in ToSet(deletions) \/ b \in Newest(former))
<1>1. b \in backups /\ b \in Unprotected(former)
  BY DEF RetentionInv, ProgressInv, Unprotected
<1>2. QED
  BY <1>1, KeptNewest DEF RetentionInv, ProgressInv

\* A selection never fails, and never is anything deleted that a pointer or an
\* operation under way names, or the baseline.
THEOREM NeededStays == Spec => []ReferencesHold
<1>1. RetentionInv => ReferencesHold
  <2> SUFFICES ASSUME RetentionInv PROVE ReferencesHold
    OBVIOUS
  <2>1. \A b \in former : b.kind = "baseline" => b \in backups
    BY SelectedUnneeded DEF RetentionInv, ProgressInv
  <2>2. QED
    BY <2>1 DEF RetentionInv, PointersInv, ReferencesHold, Identified
<1>2. QED
  BY <1>1, RetentionInvHolds, PTL

\* Wherever the deletions are cut off, what is gone is older than whatever is
\* left that nobody needs.
THEOREM DeletedFromTheEnd == Spec => []NoGaps
<1>1. RetentionInv => NoGaps
  <2> SUFFICES ASSUME RetentionInv, stage = "deleting", NEW gone \in former \ backups,
                      NEW b \in Unprotected(backups), b.id \notin Referenced
               PROVE  Older(gone, b)
    BY DEF NoGaps
  <2>1. gone \in Selected(former) /\ Distinct(former) /\ IsFiniteSet(former)
    BY DEF RetentionInv, ProgressInv, StoreInv
  <2>2. b \in Unprotected(former)
    BY Remaining
  <2>3. CASE b \in ToSet(deletions)
    BY <2>3 DEF RetentionInv, ProgressInv
  <2>4. CASE b \in Newest(former)
    <3>1. gone \in Unprotected(former)
      BY <2>1 DEF Selected
    <3>2. gone \notin Newest(former)
      BY <2>1, <3>1, KeptNewest
    <3>3. QED
      BY <2>1, <2>4, <3>1, <3>2, NewestYounger
  <2>5. QED
    BY <2>3, <2>4, Remaining
<1>2. QED
  BY <1>1, RetentionInvHolds, PTL

\* As many of the newest as retention says survive every part of a selection that
\* is carried out, and of those that nobody needs no more than that remain.
THEOREM RetentionKept == Spec => []NewestSurvive
<1>1. RetentionInv => NewestSurvive
  <2> SUFFICES ASSUME RetentionInv, stage = "deleting" PROVE NewestSurvive
    BY DEF NewestSurvive
  <2>1. Distinct(former) /\ IsFiniteSet(former) /\ former \ backups \subseteq Selected(former)
    BY DEF RetentionInv, ProgressInv, StoreInv
  <2>2. \A b \in Unprotected(former) : b \in Newest(former) => b \in backups
    <3> SUFFICES ASSUME NEW b \in Unprotected(former), b \in Newest(former) PROVE b \in backups
      OBVIOUS
    <3>1. b \in former /\ b \notin Selected(former)
      BY KeptNewest DEF Unprotected
    <3>2. QED
      BY <2>1, <3>1
  <2>3. ASSUME deletions = <<>>
        PROVE  Cardinality({b \in Unprotected(backups) : b.id \notin Referenced}) <= Retention
    <3> DEFINE R == {b \in Unprotected(backups) : b.id \notin Referenced}
    <3>1. ToSet(deletions) = {}
      BY <2>3 DEF ToSet
    <3>2. R \in SUBSET Newest(former)
      BY <3>1, Remaining
    <3>3. IsFiniteSet(Newest(former)) /\ Cardinality(Newest(former)) <= Retention
      BY <2>1, NewestFew
    <3>4. IsFiniteSet(R) /\ Cardinality(R) <= Cardinality(Newest(former))
      BY <3>2, <3>3, FS_Subset
    <3>5. Cardinality(R) \in Nat /\ Cardinality(Newest(former)) \in Nat /\ Retention \in Nat
      BY <3>3, <3>4, FS_CardinalityType, RetentionAssumption
    <3>6. QED
      BY <3>3, <3>4, <3>5
  <2>4. QED
    BY <2>2, <2>3 DEF NewestSurvive, Newest, Younger
<1>2. QED
  BY <1>1, RetentionInvHolds, PTL

-----------------------------------------------------------------------------
(* The bundle: the inductive invariant. *)

\* A directory comes from others, who leave it alone, or it is written by runs
\* of the generator, whose metadata describe what the same run has written.
Written == {Describe(m, Members(m)) : m \in Snapshots}
OriginInv ==
  \/ bundle \in Foreign /\ generator = "idle" /\ runs = MaxRuns /\ ~meddled
  \/ /\ bundle.manifest \in Snapshots \cup {Absent, Torn}
     /\ bundle.archive \in {Members(m) : m \in Snapshots} \cup {Absent, Torn}
     /\ bundle.metadata \in Written \cup {Absent, Torn}
     /\ generator # "idle" => snapshot \in Snapshots
     /\ generator = "metadata" => bundle.archive = Members(snapshot)
     /\ reader \in {"manifest", "digest", "members", "valid"} => read.metadata \in Written \cup {Torn}
     /\ reader \in {"digest", "members", "valid"} => read.manifest \in Snapshots

\* What has been read has passed the tests that were made of it.
ReadInv ==
  /\ reader \notin {"idle", "invalid"} => Absent \notin {bundle[f] : f \in Files}
  /\ reader \in {"digest", "members", "valid"} =>
       read.metadata # Torn /\ read.manifest # Torn /\ DocumentsValid(read.metadata, read.manifest)
  /\ reader \in {"members", "valid"} => read.archive = read.metadata.archive

\* While nobody writes, what has been read is what is there, and the verdict is
\* about it.
SteadyInv ==
  ~meddled /\ reader # "idle" =>
    /\ generator = "idle"
    /\ reader \in {"manifest", "digest", "members", "valid"} => read.metadata = bundle.metadata
    /\ reader \in {"digest", "members", "valid"} => read.manifest = bundle.manifest
    /\ reader \in {"members", "valid"} => read.archive = bundle.archive
    /\ reader = "valid" => ArchiveValid(bundle.archive, bundle.manifest)
    /\ reader = "invalid" => ~Sound(bundle)

BundleInv == BundleTypeOK /\ OriginInv /\ ReadInv /\ SteadyInv

-----------------------------------------------------------------------------
(* Numbers and paths. *)

\* A least and a greatest one.
LEMMA Least ==
  ASSUME NEW n \in Nat, NEW T, T \subseteq 1..n, T # {}
  PROVE  \E k \in T : \A j \in T : k <= j
<1>1. PICK S : S = 1..n
  OBVIOUS
<1>2. IsFiniteSet(S)
  BY <1>1, FS_Interval
<1>3. PICK Ups : Ups = {1..k : k \in T}
  OBVIOUS
<1>4. \A k \in T : k \in 1..n /\ 1..k \subseteq S
  BY <1>1
<1>5. Ups \subseteq SUBSET S /\ Ups # {}
  BY <1>3, <1>4
<1>6. PICK X \in Ups : \A Y \in Ups : Y \subseteq X => Y = X
  BY <1>2, <1>5, SmallestSubset
<1>7. PICK k \in T : X = 1..k
  BY <1>3, <1>6
<1>8. ASSUME NEW j \in T, j < k PROVE FALSE
  <2>1. j \in Nat /\ k \in Nat
    BY <1>4
  <2>2. 1..j \in Ups
    BY <1>3
  <2>3. 1..j \subseteq X
    BY <1>7, <1>8, <2>1
  <2>4. 1..j = 1..k
    BY <1>6, <1>7, <2>2, <2>3
  <2>5. k \in 1..k /\ k \notin 1..j
    BY <1>4, <1>8, <2>1
  <2>6. QED
    BY <2>4, <2>5
<1>9. \A j \in T : k <= j
  BY <1>4, <1>8
<1>10. QED
  BY <1>9

LEMMA Greatest ==
  ASSUME NEW n \in Nat, NEW T, T \subseteq 1..n, T # {}
  PROVE  \E k \in T : \A j \in T : j <= k
<1>1. PICK U : U = {n + 1 - k : k \in T}
  OBVIOUS
<1>2. \A k \in T : k \in 1..n /\ n + 1 - k \in 1..n /\ n + 1 - k \in U
  BY <1>1
<1>3. U \subseteq 1..n /\ U # {}
  BY <1>1, <1>2
<1>4. PICK u \in U : \A v \in U : u <= v
  BY <1>3, Least
<1>5. PICK k \in T : u = n + 1 - k
  BY <1>1, <1>4
<1>6. ASSUME NEW j \in T PROVE j <= k
  <2>1. n + 1 - k <= n + 1 - j
    BY <1>2, <1>4, <1>5
  <2>2. QED
    BY <1>2, <2>1
<1>7. QED
  BY <1>6

\* The first part of a path.
LEMMA Cut ==
  ASSUME NEW p \in Seq(Names), NEW n \in 0..Len(p)
  PROVE  /\ SubSeq(p, 1, n) \in Seq(Names)
         /\ Len(SubSeq(p, 1, n)) = n
         /\ \A i \in 1..n : SubSeq(p, 1, n)[i] = p[i]
<1>1. \A i \in 1..n : p[i] \in Names
  OBVIOUS
<1>2. /\ SubSeq(p, 1, n) \in Seq(Names)
      /\ Len(SubSeq(p, 1, n)) = IF 1 <= n THEN n - 1 + 1 ELSE 0
      /\ \A i \in 1..(n - 1 + 1) : SubSeq(p, 1, n)[i] = p[1 + i - 1]
  BY <1>1, SubSeqProperties
<1>3. QED
  BY <1>2

\* Two parts are the same when their places are.
LEMMA SameCut ==
  ASSUME NEW p \in Seq(Names), NEW q \in Seq(Names), NEW n \in Nat, n <= Len(p), n <= Len(q)
  PROVE  SubSeq(p, 1, n) = SubSeq(q, 1, n) <=> \A i \in 1..n : p[i] = q[i]
<1>1. PICK a : a = SubSeq(p, 1, n)
  OBVIOUS
<1>2. PICK b : b = SubSeq(q, 1, n)
  OBVIOUS
<1>3. n \in 0..Len(p) /\ n \in 0..Len(q)
  OBVIOUS
<1>4. a \in Seq(Names) /\ Len(a) = n /\ \A i \in 1..n : a[i] = p[i]
  BY <1>1, <1>3, Cut
<1>5. b \in Seq(Names) /\ Len(b) = n /\ \A i \in 1..n : b[i] = q[i]
  BY <1>2, <1>3, Cut
<1>6. ASSUME a = b PROVE \A i \in 1..n : p[i] = q[i]
  BY <1>4, <1>5, <1>6
<1>7. ASSUME \A i \in 1..n : p[i] = q[i] PROVE a = b
  BY <1>4, <1>5, <1>7, SeqEqual
<1>8. QED
  BY <1>1, <1>2, <1>6, <1>7

LEMMA PrefixPlaces ==
  ASSUME NEW p \in Seq(Names), NEW t \in Seq(Names)
  PROVE  InTarget(p, t) <=> Len(t) <= Len(p) /\ \A i \in 1..Len(t) : p[i] = t[i]
<1>1. Len(t) \in Nat /\ Len(p) \in Nat /\ Len(t) <= Len(t)
  OBVIOUS
<1>2. InTarget(p, t) <=> Len(t) <= Len(p) /\ SubSeq(t, 1, Len(t)) = SubSeq(p, 1, Len(t))
  BY DEF InTarget, IsPrefix
<1>3. Len(t) <= Len(p) =>
        (SubSeq(t, 1, Len(t)) = SubSeq(p, 1, Len(t)) <=> \A i \in 1..Len(t) : t[i] = p[i])
  BY <1>1, SameCut
<1>4. QED
  BY <1>2, <1>3

\* A path as it is compared.
LEMMA TextPlaces ==
  ASSUME NEW p \in Seq(Names)
  PROVE  /\ DOMAIN p = 1..Len(p) /\ Len(p) \in Nat
         /\ \A i \in 1..Len(p) :
              /\ p[i] \in Nat /\ Slash[p[i]] \in Nat /\ p[i] < Slash[p[i]]
              /\ Text(p)[i] = IF i = Len(p) THEN p[i] ELSE Slash[p[i]]
              /\ Text(p)[i] \in Nat
<1>1. DOMAIN p = 1..Len(p) /\ Len(p) \in Nat /\ \A i \in 1..Len(p) : p[i] \in Names
  OBVIOUS
<1>2. \A n \in Names : n \in Nat /\ Slash[n] \in Nat /\ n < Slash[n]
  BY NamesAssumption
<1>3. \A i \in 1..Len(p) : Text(p)[i] = IF i = Len(p) THEN p[i] ELSE Slash[p[i]]
  BY <1>1 DEF Text
<1>4. QED
  BY <1>1, <1>2, <1>3

LEMMA BeforeTransitive ==
  ASSUME NEW p \in Seq(Names), NEW q \in Seq(Names), NEW r \in Seq(Names), Before(p, q), Before(q, r)
  PROVE  Before(p, r)
<1>1. /\ DOMAIN p = 1..Len(p) /\ DOMAIN q = 1..Len(q) /\ DOMAIN r = 1..Len(r)
      /\ Len(p) \in Nat /\ Len(q) \in Nat /\ Len(r) \in Nat
      /\ \A k \in 1..Len(p) : Text(p)[k] \in Nat
      /\ \A k \in 1..Len(q) : Text(q)[k] \in Nat
      /\ \A k \in 1..Len(r) : Text(r)[k] \in Nat
  BY TextPlaces
<1>2. PICK i \in 1..Len(p) : /\ i <= Len(q) /\ Text(p)[i] < Text(q)[i]
                            /\ \A k \in 1..(i - 1) : Text(p)[k] = Text(q)[k]
  BY <1>1 DEF Before
<1>3. PICK j \in 1..Len(q) : /\ j <= Len(r) /\ Text(q)[j] < Text(r)[j]
                            /\ \A k \in 1..(j - 1) : Text(q)[k] = Text(r)[k]
  BY <1>1 DEF Before
<1>4. ASSUME NEW n \in 1..Len(p), n <= Len(r), Text(p)[n] < Text(r)[n],
             \A k \in 1..(n - 1) : Text(p)[k] = Text(r)[k]
      PROVE  Before(p, r)
  BY <1>1, <1>4 DEF Before
<1>5. CASE i < j
  <2>1. i <= Len(r) /\ Text(q)[i] = Text(r)[i]
    BY <1>1, <1>3, <1>5
  <2>2. \A k \in 1..(i - 1) : Text(p)[k] = Text(r)[k]
    BY <1>1, <1>2, <1>3, <1>5
  <2>3. QED
    BY <1>2, <1>4, <2>1, <2>2
<1>6. CASE i = j
  <2>1. Text(p)[i] < Text(r)[i]
    BY <1>1, <1>2, <1>3, <1>6
  <2>2. QED
    BY <1>2, <1>3, <1>4, <1>6, <2>1
<1>7. CASE j < i
  <2>1. j \in 1..Len(p) /\ Text(p)[j] = Text(q)[j]
    BY <1>1, <1>2, <1>7
  <2>2. \A k \in 1..(j - 1) : Text(p)[k] = Text(r)[k]
    BY <1>1, <1>2, <1>3, <1>7
  <2>3. QED
    BY <1>3, <1>4, <2>1, <2>2
<1>8. QED
  BY <1>1, <1>5, <1>6, <1>7

LEMMA BeforeStrict ==
  ASSUME NEW p \in Seq(Names)
  PROVE  ~Before(p, p)
<1>1. DOMAIN p = 1..Len(p) /\ \A i \in 1..Len(p) : Text(p)[i] \in Nat
  BY TextPlaces
<1>2. QED
  BY <1>1 DEF Before

\* A directory comes before what is below it: in between there is only a slash.
LEMMA PrefixBefore ==
  ASSUME NEW p \in Seq(Names), NEW n \in Nat \ {0}, n < Len(p)
  PROVE  Before(SubSeq(p, 1, n), p)
<1>1. PICK d : d = SubSeq(p, 1, n)
  OBVIOUS
<1>2. d \in Seq(Names) /\ Len(d) = n /\ \A i \in 1..n : d[i] = p[i]
  BY <1>1, Cut
<1>3. DOMAIN p = 1..Len(p) /\ DOMAIN d = 1..n /\ Len(p) \in Nat
  BY <1>2, TextPlaces
<1>4. ASSUME NEW i \in 1..(n - 1) PROVE Text(d)[i] = Text(p)[i]
  <2>1. i \in 1..Len(d) /\ i # Len(d) /\ i \in 1..Len(p) /\ i # Len(p) /\ d[i] = p[i]
    BY <1>2, <1>3
  <2>2. Text(d)[i] = Slash[d[i]]
    BY <1>2, <2>1, TextPlaces
  <2>3. Text(p)[i] = Slash[p[i]]
    BY <2>1, TextPlaces
  <2>4. QED
    BY <2>1, <2>2, <2>3
<1>5. Text(d)[n] = p[n] /\ Text(p)[n] = Slash[p[n]] /\ p[n] < Slash[p[n]]
  BY <1>2, <1>3, TextPlaces
<1>6. n \in DOMAIN d \cap DOMAIN p
  BY <1>3
<1>7. Before(d, p)
  BY <1>4, <1>5, <1>6 DEF Before
<1>8. QED
  BY <1>1, <1>7

-----------------------------------------------------------------------------
(* A manifest is valid exactly when its entries are a forest. *)

Dirs(m) == {e.path : e \in {d \in ToSet(m.entries) : d.type = "directory"}}
Consecutive(m) ==
  \A i \in DOMAIN m.entries : i > 1 => Before(m.entries[i - 1].path, m.entries[i].path)
Ordered(m) ==
  \A i, j \in DOMAIN m.entries : i < j => Before(m.entries[i].path, m.entries[j].path)
ScopesApart(m) ==
  /\ ToSet(m.scopes) # {} /\ \A s \in ToSet(m.scopes) : SafeTarget(s.target)
  /\ \A s, t \in ToSet(m.scopes) : s # t => ~Overlap(s.target, t.target)
  /\ \A i, j \in DOMAIN m.scopes : i < j => m.scopes[i].name < m.scopes[j].name

\* An entry stands in a scope, with all its directories, or with its parent.
InScopeOf(e, s) ==
  s.name = e.scope /\ InTarget(e.path, s.target) /\ (e.path = s.target => e.type = "directory")
Stands(m, e, s) == InScopeOf(e, s) /\ RequiredDirectories(e.path, s.target) \subseteq Dirs(m)
StandsOnParent(m, e, s) ==
  InScopeOf(e, s) /\ (e.path # s.target /\ Len(e.path) > 1 => SubSeq(e.path, 1, Len(e.path) - 1) \in Dirs(m))

LEMMA ValidParts ==
  ASSUME NEW m
  PROVE  ManifestValid(m) <=>
           /\ ScopesValid(m.scopes)
           /\ Consecutive(m)
           /\ \A e \in ToSet(m.entries) : SafePath(e.path) /\ \E s \in ToSet(m.scopes) : Stands(m, e, s)
<1>1. ASSUME NEW i \in DOMAIN m.entries
      PROVE  EntryValid(m, i) <=>
               /\ SafePath(m.entries[i].path)
               /\ i > 1 => Before(m.entries[i - 1].path, m.entries[i].path)
               /\ \E s \in ToSet(m.scopes) : Stands(m, m.entries[i], s)
  BY DEF EntryValid, Stands, InScopeOf, Dirs
<1>2. (\A i \in DOMAIN m.entries : EntryValid(m, i)) <=>
        /\ Consecutive(m)
        /\ \A i \in DOMAIN m.entries :
             SafePath(m.entries[i].path) /\ \E s \in ToSet(m.scopes) : Stands(m, m.entries[i], s)
  BY <1>1 DEF Consecutive
<1>3. (\A i \in DOMAIN m.entries :
         SafePath(m.entries[i].path) /\ \E s \in ToSet(m.scopes) : Stands(m, m.entries[i], s))
       <=> \A e \in ToSet(m.entries) : SafePath(e.path) /\ \E s \in ToSet(m.scopes) : Stands(m, e, s)
  BY DEF ToSet
<1>4. QED
  BY <1>2, <1>3 DEF ManifestValid

LEMMA ForestParts ==
  ASSUME NEW m
  PROVE  Forest(m) <=>
           /\ ScopesApart(m)
           /\ Ordered(m)
           /\ \A e \in ToSet(m.entries) :
                SafePath(e.path) /\ \E s \in ToSet(m.scopes) : StandsOnParent(m, e, s)
<1>1. ASSUME NEW e, NEW s
      PROVE  StandsOnParent(m, e, s) <=>
               /\ s.name = e.scope /\ InTarget(e.path, s.target)
               /\ IF e.path = s.target THEN e.type = "directory"
                  ELSE Len(e.path) > 1 =>
                         \E d \in ToSet(m.entries) : d.path = SubSeq(e.path, 1, Len(e.path) - 1) /\ d.type = "directory"
  <2>1. SubSeq(e.path, 1, Len(e.path) - 1) \in Dirs(m) <=>
          \E d \in ToSet(m.entries) : d.path = SubSeq(e.path, 1, Len(e.path) - 1) /\ d.type = "directory"
    BY DEF Dirs
  <2>2. QED
    BY <2>1 DEF StandsOnParent, InScopeOf
<1>2. (\A e \in ToSet(m.entries) : SafePath(e.path) /\ \E s \in ToSet(m.scopes) : StandsOnParent(m, e, s))
      <=> \A e \in ToSet(m.entries) : SafePath(e.path) /\ \E s \in ToSet(m.scopes) :
            /\ s.name = e.scope /\ InTarget(e.path, s.target)
            /\ IF e.path = s.target THEN e.type = "directory"
               ELSE Len(e.path) > 1 =>
                      \E d \in ToSet(m.entries) : d.path = SubSeq(e.path, 1, Len(e.path) - 1) /\ d.type = "directory"
  BY <1>1
<1>3. QED
  BY <1>2, Zenon DEF Forest, ScopesApart, Ordered

\* What a manifest consists of.
LEMMA ManifestTypes ==
  ASSUME NEW m, IsManifest(m)
  PROVE  /\ DOMAIN m.entries = 1..Len(m.entries) /\ Len(m.entries) \in Nat
         /\ \A i \in DOMAIN m.entries : m.entries[i] \in ToSet(m.entries)
         /\ \A e \in ToSet(m.entries) :
              /\ \E i \in DOMAIN m.entries : e = m.entries[i]
              /\ Entry(e) /\ e.path \in Seq(Names)
         /\ DOMAIN m.scopes = 1..Len(m.scopes) /\ Len(m.scopes) \in Nat
         /\ \A i \in DOMAIN m.scopes : m.scopes[i] \in ToSet(m.scopes) /\ m.scopes[i].name \in Nat
         /\ \A s \in ToSet(m.scopes) :
              /\ \E i \in DOMAIN m.scopes : s = m.scopes[i]
              /\ s.target \in Seq(Names)
<1>1. m.entries \in Seq(ToSet(m.entries)) /\ m.scopes \in Seq([name : Nat, target : Seq(Names)])
  BY DEF IsManifest
<1>2. \A e \in ToSet(m.entries) : Entry(e) /\ e.path \in Seq(Names)
  BY DEF IsManifest, Entry
<1>3. \A e \in ToSet(m.entries) : \E i \in DOMAIN m.entries : e = m.entries[i]
  BY DEF ToSet
<1>4. \A s \in ToSet(m.scopes) : \E i \in DOMAIN m.scopes : s = m.scopes[i]
  BY DEF ToSet
<1>5. \A i \in DOMAIN m.scopes : m.scopes[i] \in ToSet(m.scopes)
  BY DEF ToSet
<1>6. \A i \in DOMAIN m.entries : m.entries[i] \in ToSet(m.entries)
  BY DEF ToSet
<1>7. DOMAIN m.entries = 1..Len(m.entries) /\ Len(m.entries) \in Nat
  BY <1>1
<1>8. DOMAIN m.scopes = 1..Len(m.scopes) /\ Len(m.scopes) \in Nat
  BY <1>1
<1>9. \A i \in DOMAIN m.scopes : m.scopes[i].name \in Nat /\ m.scopes[i].target \in Seq(Names)
  <2>1. PICK Q : Q = [name : Nat, target : Seq(Names)]
    OBVIOUS
  <2>2. PICK x : x = m.scopes
    OBVIOUS
  <2>3. \A i \in 1..Len(x) : x[i] \in Q
    <3>1. x \in Seq(Q)
      BY <1>1, <2>1, <2>2, Zenon
    <3>2. QED
      BY <3>1
  <2>4. \A r \in Q : r.name \in Nat /\ r.target \in Seq(Names)
    BY <2>1
  <2>5. QED
    BY <1>8, <2>2, <2>3, <2>4
<1>10. QED
  BY <1>2, <1>3, <1>4, <1>5, <1>6, <1>7, <1>8, <1>9

\* Scopes in order are apart, whichever two are compared.
LEMMA ScopesForest ==
  ASSUME NEW m, IsManifest(m)
  PROVE  ScopesValid(m.scopes) <=> ScopesApart(m)
<1>1. /\ DOMAIN m.scopes = 1..Len(m.scopes) /\ Len(m.scopes) \in Nat
      /\ \A i \in DOMAIN m.scopes : m.scopes[i] \in ToSet(m.scopes) /\ m.scopes[i].name \in Nat
      /\ \A s \in ToSet(m.scopes) : \E i \in DOMAIN m.scopes : s = m.scopes[i]
  BY ManifestTypes
<1>2. m.scopes # <<>> <=> ToSet(m.scopes) # {}
  <2>1. m.scopes \in Seq([name : Nat, target : Seq(Names)])
    BY DEF IsManifest
  <2>2. PICK Q : m.scopes \in Seq(Q)
    BY <2>1
  <2>3. PICK x : x = m.scopes
    OBVIOUS
  <2>4. x # <<>> <=> DOMAIN x # {}
    <3>1. x \in Seq(Q)
      BY <2>2, <2>3, Zenon
    <3>2. x = <<>> <=> Len(x) = 0
      BY <3>1, EmptySeq
    <3>3. DOMAIN x = 1..Len(x) /\ Len(x) \in Nat
      BY <3>1
    <3>4. QED
      BY <3>2, <3>3
  <2>5. QED
    BY <1>1, <2>3, <2>4
<1>3. (\A i \in DOMAIN m.scopes : SafeTarget(m.scopes[i].target)) <=> \A s \in ToSet(m.scopes) : SafeTarget(s.target)
  BY <1>1
<1>4. ASSUME \A i, j \in DOMAIN m.scopes :
               i < j => m.scopes[i].name < m.scopes[j].name /\ ~Overlap(m.scopes[j].target, m.scopes[i].target)
      PROVE  \A s, t \in ToSet(m.scopes) : s # t => ~Overlap(s.target, t.target)
  <2> SUFFICES ASSUME NEW s \in ToSet(m.scopes), NEW t \in ToSet(m.scopes), s # t
               PROVE  ~Overlap(s.target, t.target)
    OBVIOUS
  <2>1. PICK i \in DOMAIN m.scopes, j \in DOMAIN m.scopes : s = m.scopes[i] /\ t = m.scopes[j]
    BY <1>1
  <2>2. i # j
    BY <2>1
  <2>3. i < j \/ j < i
    BY <1>1, <2>2
  <2>4. QED
    BY <1>4, <2>1, <2>3 DEF Overlap
<1>5. ASSUME \A s, t \in ToSet(m.scopes) : s # t => ~Overlap(s.target, t.target),
             NEW i \in DOMAIN m.scopes, NEW j \in DOMAIN m.scopes, m.scopes[i].name < m.scopes[j].name
      PROVE  ~Overlap(m.scopes[j].target, m.scopes[i].target)
  <2>1. m.scopes[i] # m.scopes[j]
    BY <1>1, <1>5
  <2>2. QED
    BY <1>1, <1>5, <2>1 DEF Overlap
<1>6. QED
  BY <1>2, <1>3, <1>4, <1>5 DEF ScopesValid, ScopesApart

\* Entries that are in order one after the other are in order.
LEMMA ConsecutiveOrdered ==
  ASSUME NEW m, IsManifest(m)
  PROVE  Consecutive(m) <=> Ordered(m)
<1>1. /\ DOMAIN m.entries = 1..Len(m.entries) /\ Len(m.entries) \in Nat
      /\ \A i \in DOMAIN m.entries : m.entries[i].path \in Seq(Names)
  BY ManifestTypes
<1>2. ASSUME Ordered(m) PROVE Consecutive(m)
  BY <1>1, <1>2, SMTT(30) DEF Ordered, Consecutive
<1>3. ASSUME Consecutive(m), ~Ordered(m) PROVE FALSE
  <2>1. PICK T : T = {j \in 1..Len(m.entries) :
                        \E i \in 1..Len(m.entries) : i < j /\ ~Before(m.entries[i].path, m.entries[j].path)}
    OBVIOUS
  <2>2. T \subseteq 1..Len(m.entries) /\ T # {}
    BY <1>1, <1>3, <2>1 DEF Ordered
  <2>3. PICK j \in T : \A k \in T : j <= k
    BY <1>1, <2>2, Least
  <2>4. PICK i \in 1..Len(m.entries) : i < j /\ ~Before(m.entries[i].path, m.entries[j].path)
    BY <2>1, <2>3
  <2>5. j \in 1..Len(m.entries) /\ j > 1 /\ j - 1 \in 1..Len(m.entries)
    BY <1>1, <2>2, <2>3, <2>4
  <2>6. Before(m.entries[j - 1].path, m.entries[j].path)
    BY <1>1, <1>3, <2>5 DEF Consecutive
  <2>7. i < j - 1
    <3>1. i # j - 1
      BY <2>4, <2>6
    <3>2. QED
      BY <1>1, <2>4, <2>5, <3>1
  <2>8. Before(m.entries[i].path, m.entries[j - 1].path)
    <3>1. j - 1 \notin T
      BY <1>1, <2>3, <2>5
    <3>2. QED
      BY <2>1, <2>4, <2>5, <2>7, <3>1
  <2>9. QED
    BY <1>1, <2>4, <2>5, <2>6, <2>8, BeforeTransitive
<1>4. QED
  BY <1>2, <1>3

\* Two targets of one path overlap.
LEMMA TwoTargets ==
  ASSUME NEW p \in Seq(Names), NEW s \in Seq(Names), NEW t \in Seq(Names), InTarget(p, s), InTarget(p, t)
  PROVE  Overlap(s, t)
<1>1. Len(s) \in Nat /\ Len(t) \in Nat
  OBVIOUS
<1>2. (\A i \in 1..Len(s) : p[i] = s[i]) /\ (\A i \in 1..Len(t) : p[i] = t[i])
  BY PrefixPlaces
<1>3. CASE Len(s) <= Len(t)
  <2>1. \A i \in 1..Len(s) : t[i] = s[i]
    BY <1>1, <1>2, <1>3
  <2>2. QED
    BY <1>3, <2>1, PrefixPlaces DEF Overlap
<1>4. CASE Len(t) <= Len(s)
  <2>1. \A i \in 1..Len(t) : s[i] = t[i]
    BY <1>1, <1>2, <1>4
  <2>2. QED
    BY <1>4, <2>1, PrefixPlaces DEF Overlap
<1>5. QED
  BY <1>1, <1>3, <1>4

\* If every entry has its parent, every entry has all its directories: of those
\* that one lacks, the parent of the longest is an entry, which has its own.
LEMMA ParentsSuffice ==
  ASSUME NEW m, IsManifest(m), ScopesApart(m),
         \A d \in ToSet(m.entries) : \E s \in ToSet(m.scopes) : StandsOnParent(m, d, s),
         NEW e \in ToSet(m.entries), NEW s \in ToSet(m.scopes), StandsOnParent(m, e, s)
  PROVE  RequiredDirectories(e.path, s.target) \subseteq Dirs(m)
<1> SUFFICES ASSUME ~(RequiredDirectories(e.path, s.target) \subseteq Dirs(m)) PROVE FALSE
  OBVIOUS
<1>1. PICK p : p = e.path
  OBVIOUS
<1>2. PICK r : r = s.target
  OBVIOUS
<1>3. p \in Seq(Names) /\ r \in Seq(Names) /\ Len(p) \in Nat /\ Len(r) \in Nat
  BY <1>1, <1>2, ManifestTypes
<1>4. InTarget(p, r) /\ (p # r /\ Len(p) > 1 => SubSeq(p, 1, Len(p) - 1) \in Dirs(m))
  BY <1>1, <1>2 DEF StandsOnParent, InScopeOf
<1>5. PICK T : T = {n \in 1..(Len(p) - 1) : n >= Len(r) /\ SubSeq(p, 1, n) \notin Dirs(m)}
  OBVIOUS
<1>6. T \subseteq 1..Len(p) /\ T # {}
  <2>1. PICK x \in RequiredDirectories(p, r) : x \notin Dirs(m)
    BY <1>1, <1>2
  <2>2. PICK n \in 1..(Len(p) - 1) : n >= Len(r) /\ x = SubSeq(p, 1, n)
    BY <2>1 DEF RequiredDirectories
  <2>3. n \in T
    BY <1>5, <2>1, <2>2
  <2>4. \A k \in 1..(Len(p) - 1) : k \in 1..Len(p)
    BY <1>3
  <2>5. QED
    BY <1>5, <2>3, <2>4
<1>7. PICK n \in T : \A k \in T : k <= n
  BY <1>3, <1>6, Greatest
<1>8. n \in 1..(Len(p) - 1) /\ n >= Len(r) /\ SubSeq(p, 1, n) \notin Dirs(m)
  BY <1>5, <1>7
<1>9. CASE n + 1 = Len(p)
  <2>1. n = Len(p) - 1 /\ Len(p) > 1 /\ Len(p) # Len(r)
    BY <1>3, <1>8, <1>9
  <2>2. p # r
    BY <2>1
  <2>3. QED
    BY <1>4, <1>8, <2>1, <2>2
<1>10. CASE n + 1 # Len(p)
  <2>1. n + 1 \in 1..(Len(p) - 1) /\ n + 1 >= Len(r) /\ n + 1 \notin T
    BY <1>3, <1>7, <1>8, <1>10
  <2>2. SubSeq(p, 1, n + 1) \in Dirs(m)
    BY <1>5, <2>1
  <2>3. PICK d \in ToSet(m.entries) : d.path = SubSeq(p, 1, n + 1)
    BY <2>2 DEF Dirs
  <2>4. PICK q : q = d.path
    OBVIOUS
  <2>5. q \in Seq(Names) /\ Len(q) = n + 1 /\ \A i \in 1..(n + 1) : q[i] = p[i]
    <3>1. n + 1 \in 0..Len(p)
      BY <1>3, <2>1
    <3>2. QED
      BY <1>3, <2>3, <2>4, <3>1, Cut
  <2>6. PICK t \in ToSet(m.scopes) : StandsOnParent(m, d, t)
    OBVIOUS
  <2>7. InTarget(q, t.target) /\ t.target \in Seq(Names)
    BY <2>4, <2>6, ManifestTypes DEF StandsOnParent, InScopeOf
  <2>8. InTarget(q, r)
    <3>1. \A i \in 1..Len(r) : p[i] = r[i]
      BY <1>3, <1>4, PrefixPlaces
    <3>2. Len(r) <= Len(q) /\ \A i \in 1..Len(r) : i \in 1..(n + 1)
      BY <1>3, <1>8, <2>5
    <3>3. \A i \in 1..Len(r) : q[i] = r[i]
      BY <2>5, <3>1, <3>2
    <3>4. QED
      BY <1>3, <2>5, <3>2, <3>3, PrefixPlaces
  <2>9. t = s
    <3>1. Overlap(t.target, s.target)
      BY <1>2, <1>3, <2>5, <2>7, <2>8, TwoTargets
    <3>2. QED
      BY <3>1 DEF ScopesApart
  <2>10. SubSeq(q, 1, Len(q) - 1) \in Dirs(m)
    <3>1. Len(q) > 1 /\ Len(q) # Len(r)
      BY <1>3, <1>8, <2>5
    <3>2. q # r
      BY <3>1
    <3>3. QED
      BY <1>2, <2>4, <2>6, <2>9, <3>1, <3>2 DEF StandsOnParent
  <2>11. SubSeq(q, 1, n) = SubSeq(p, 1, n)
    <3>1. n \in Nat /\ n <= Len(q) /\ n <= Len(p) /\ \A i \in 1..n : q[i] = p[i]
      BY <1>3, <1>8, <2>5
    <3>2. QED
      BY <1>3, <2>5, <3>1, SameCut
  <2>12. Len(q) - 1 = n
    BY <1>8, <2>5
  <2>13. QED
    BY <1>8, <2>10, <2>11, <2>12
<1>11. QED
  BY <1>9, <1>10

\* An entry that has all its directories has its parent.
LEMMA ParentRequired ==
  ASSUME NEW m, IsManifest(m), NEW e \in ToSet(m.entries), NEW s \in ToSet(m.scopes), Stands(m, e, s)
  PROVE  StandsOnParent(m, e, s)
<1> SUFFICES ASSUME e.path # s.target, Len(e.path) > 1
             PROVE  SubSeq(e.path, 1, Len(e.path) - 1) \in Dirs(m)
  BY DEF Stands, StandsOnParent
<1>1. PICK p : p = e.path
  OBVIOUS
<1>2. PICK r : r = s.target
  OBVIOUS
<1>3. p \in Seq(Names) /\ r \in Seq(Names) /\ Len(p) \in Nat /\ Len(r) \in Nat
  BY <1>1, <1>2, ManifestTypes
<1>4. Len(r) <= Len(p) /\ \A i \in 1..Len(r) : p[i] = r[i]
  BY <1>1, <1>2, <1>3, PrefixPlaces DEF Stands, InScopeOf
<1>5. Len(r) # Len(p)
  <2> SUFFICES ASSUME Len(r) = Len(p) PROVE FALSE
    OBVIOUS
  <2>1. p = r
    BY <1>3, <1>4
  <2>2. QED
    BY <1>1, <1>2, <2>1
<1>6. Len(p) - 1 \in 1..(Len(p) - 1) /\ Len(p) - 1 >= Len(r)
  BY <1>1, <1>3, <1>4, <1>5
<1>7. SubSeq(p, 1, Len(p) - 1) \in RequiredDirectories(p, r)
  BY <1>6 DEF RequiredDirectories
<1>8. QED
  BY <1>1, <1>2, <1>7 DEF Stands

\* validate_backup_manifest accepts the forests and nothing else.
LEMMA ValidIsForest ==
  ASSUME NEW m, IsManifest(m)
  PROVE  ManifestValid(m) <=> Forest(m)
<1>1. ASSUME ManifestValid(m) PROVE Forest(m)
  <2>1. ScopesApart(m) /\ Ordered(m)
    BY <1>1, ValidParts, ScopesForest, ConsecutiveOrdered
  <2>2. \A e \in ToSet(m.entries) : SafePath(e.path) /\ \E s \in ToSet(m.scopes) : Stands(m, e, s)
    BY <1>1, ValidParts
  <2>3. \A e \in ToSet(m.entries) : SafePath(e.path) /\ \E s \in ToSet(m.scopes) : StandsOnParent(m, e, s)
    BY <2>2, ParentRequired
  <2>4. QED
    BY <2>1, <2>3, ForestParts
<1>2. ASSUME Forest(m) PROVE ManifestValid(m)
  <2>1. /\ ScopesApart(m) /\ Ordered(m)
        /\ \A e \in ToSet(m.entries) : SafePath(e.path) /\ \E s \in ToSet(m.scopes) : StandsOnParent(m, e, s)
    BY <1>2, ForestParts
  <2>2. \A e \in ToSet(m.entries), s \in ToSet(m.scopes) : StandsOnParent(m, e, s) => Stands(m, e, s)
    BY <2>1, ParentsSuffice DEF Stands, StandsOnParent
  <2>3. ScopesValid(m.scopes) /\ Consecutive(m)
    BY <2>1, ScopesForest, ConsecutiveOrdered
  <2>4. QED
    BY <2>1, <2>2, <2>3, ValidParts
<1>3. QED
  BY <1>1, <1>2

-----------------------------------------------------------------------------
(* An archive is valid exactly when its members are the entries. *)

MemberOf(e) == [path |-> e.path, type |-> e.type, mode |-> e.mode, data |-> e.data]
Paths(s) == {x.path : x \in ToSet(s)}
OnePath(s) == \A i, j \in DOMAIN s : s[i].path = s[j].path => i = j

\* Entries in order have different paths.
LEMMA OrderedOnePath ==
  ASSUME NEW m, IsManifest(m), Ordered(m)
  PROVE  OnePath(m.entries)
<1> SUFFICES ASSUME NEW i \in DOMAIN m.entries, NEW j \in DOMAIN m.entries,
                    m.entries[i].path = m.entries[j].path, i # j
             PROVE  FALSE
  BY DEF OnePath
<1>1. DOMAIN m.entries = 1..Len(m.entries) /\ Len(m.entries) \in Nat /\ m.entries[i].path \in Seq(Names)
  BY ManifestTypes
<1>2. i < j \/ j < i
  BY <1>1
<1>3. Before(m.entries[i].path, m.entries[i].path)
  BY <1>2, Zenon DEF Ordered
<1>4. QED
  BY <1>1, <1>3, BeforeStrict

\* There are as many places as paths, if and only if they are different.
LEMMA CountPaths ==
  ASSUME NEW s, s \in Seq(ToSet(s))
  PROVE  OnePath(s) <=> Cardinality(Paths(s)) = Len(s)
<1>1. DOMAIN s = 1..Len(s) /\ Len(s) \in Nat
  OBVIOUS
<1>2. PICK I : I = 1..Len(s)
  OBVIOUS
<1>3. IsFiniteSet(I) /\ Cardinality(I) = Len(s)
  BY <1>1, <1>2, FS_Interval
<1>4. PICK P : P = Paths(s)
  OBVIOUS
<1>5. P = {s[i].path : i \in I}
  BY <1>1, <1>2, <1>4 DEF Paths, ToSet
<1>6. PICK f : f = [i \in I |-> s[i].path]
  OBVIOUS
<1>7. f \in Surjection(I, P)
  BY <1>5, <1>6 DEF Surjection
<1>8. f \in Injection(I, P) <=> OnePath(s)
  <2>1. f \in [I -> P] /\ \A i \in I : f[i] = s[i].path
    BY <1>5, <1>6
  <2>2. f \in Injection(I, P) <=> \A i, j \in I : f[i] = f[j] => i = j
    BY <2>1 DEF Injection, IsInjective
  <2>3. QED
    BY <1>1, <1>2, <2>1, <2>2 DEF OnePath
<1>9. Cardinality(P) = Cardinality(I) <=> f \in Injection(I, P)
  BY <1>3, <1>7, FS_Surjection
<1>10. QED
  BY <1>3, <1>4, <1>8, <1>9

\* The members that the generator writes.
LEMMA MembersTypes ==
  ASSUME NEW m, IsManifest(m)
  PROVE  /\ IsArchive(Members(m)) /\ Len(Members(m)) = Len(m.entries)
         /\ ToSet(Members(m)) = {MemberOf(e) : e \in ToSet(m.entries)}
<1>1. PICK a : a = Members(m)
  OBVIOUS
<1>2. PICK n : n = Len(m.entries)
  OBVIOUS
<1>3. n \in Nat /\ DOMAIN m.entries = 1..n /\ \A i \in 1..n : m.entries[i] \in ToSet(m.entries)
  BY <1>2, ManifestTypes
<1>4. a = [i \in 1..n |-> MemberOf(m.entries[i])]
  BY <1>1, <1>3 DEF Members, MemberOf
<1>5. ToSet(a) = {a[i] : i \in 1..n}
  BY <1>4 DEF ToSet
<1>6. a \in Seq(ToSet(a)) /\ Len(a) = n
  <2>1. PICK S : S = ToSet(a)
    OBVIOUS
  <2>2. a \in [1..n -> S]
    BY <1>4, <1>5, <2>1
  <2>3. a \in Seq(S) /\ Len(a) = n
    BY <1>3, <2>2
  <2>4. QED
    BY <2>1, <2>3
<1>7. ToSet(a) = {MemberOf(e) : e \in ToSet(m.entries)}
  <2>1. \A e \in ToSet(m.entries) : \E i \in 1..n : e = m.entries[i]
    BY <1>3 DEF ToSet
  <2>2. \A i \in 1..n : a[i] = MemberOf(m.entries[i])
    BY <1>4
  <2>3. ASSUME NEW x \in ToSet(a) PROVE x \in {MemberOf(e) : e \in ToSet(m.entries)}
    <3>1. PICK i \in 1..n : x = a[i]
      BY <1>5
    <3>2. QED
      BY <1>3, <2>2, <3>1
  <2>4. ASSUME NEW e \in ToSet(m.entries) PROVE MemberOf(e) \in ToSet(a)
    <3>1. PICK i \in 1..n : e = m.entries[i]
      BY <2>1
    <3>2. MemberOf(e) = a[i]
      BY <2>2, <3>1
    <3>3. QED
      BY <1>5, <3>2
  <2>5. QED
    BY <2>3, <2>4
<1>8. ASSUME NEW e \in ToSet(m.entries)
      PROVE  LET x == MemberOf(e) IN
             /\ x = [path |-> x.path, type |-> x.type, mode |-> x.mode, data |-> x.data]
             /\ x.path \in Seq(Names) /\ (x.type = "directory" => x.data = "-")
  <2>1. Entry(e)
    BY ManifestTypes
  <2>2. QED
    BY <2>1 DEF MemberOf, Entry
<1>9. IsArchive(a)
  BY <1>6, <1>7, <1>8 DEF IsArchive
<1>10. QED
  BY <1>1, <1>2, <1>6, <1>7, <1>9

\* validate_backup_archive compares the paths of the two, and then each entry
\* with its member; together they say that there is a member for each entry, as
\* it says, and no other.
LEMMA ArchiveIsMembers ==
  ASSUME NEW m, IsManifest(m), Ordered(m), \A e \in ToSet(m.entries) : SafePath(e.path),
         NEW a, a # Torn, IsArchive(a)
  PROVE  ArchiveValid(a, m) <=> Len(a) = Len(m.entries) /\ ToSet(a) = ToSet(Members(m))
<1>1. ToSet(Members(m)) = {MemberOf(e) : e \in ToSet(m.entries)}
  BY MembersTypes
<1>2. a \in Seq(ToSet(a)) /\ m.entries \in Seq(ToSet(m.entries))
  BY DEF IsArchive, IsManifest
<1>3. Cardinality(Paths(m.entries)) = Len(m.entries)
  BY <1>2, OrderedOnePath, CountPaths
<1>4. \A x \in ToSet(a) : /\ x = [path |-> x.path, type |-> x.type, mode |-> x.mode, data |-> x.data]
                          /\ x.type = "directory" => x.data = "-"
  BY DEF IsArchive
<1>5. \A e \in ToSet(m.entries) : e.type \in {"directory", "file"} /\ (e.type = "directory" => e.data = "-")
  BY ManifestTypes DEF Entry
<1>6. ASSUME NEW x \in ToSet(a), NEW e \in ToSet(m.entries), x.path = e.path
      PROVE  MemberAsEntry(x, e) <=> x = MemberOf(e)
  <2>1. ASSUME x.type = e.type, x.mode = e.mode, x.data = e.data PROVE x = MemberOf(e)
    BY <1>4, <1>6, <2>1 DEF MemberOf
  <2>2. ASSUME x = MemberOf(e) PROVE x.type = e.type /\ x.mode = e.mode /\ x.data = e.data
    BY <2>2 DEF MemberOf
  <2>3. QED
    BY <1>4, <1>5, <2>1, <2>2 DEF MemberAsEntry
<1>7. ASSUME ArchiveValid(a, m)
      PROVE  Len(a) = Len(m.entries) /\ ToSet(a) = ToSet(Members(m))
  <2>1. OnePath(a) /\ Paths(a) = Paths(m.entries)
    BY <1>7 DEF ArchiveValid, OnePath, Paths
  <2>2. Len(a) = Len(m.entries)
    BY <1>2, <1>3, <2>1, CountPaths
  <2>3. ASSUME NEW x \in ToSet(a) PROVE x \in ToSet(Members(m))
    <3>1. PICK e \in ToSet(m.entries) : e.path = x.path
      BY <2>1 DEF Paths
    <3>2. x = MemberOf(e)
      BY <1>6, <1>7, <3>1 DEF ArchiveValid
    <3>3. QED
      BY <1>1, <3>2
  <2>4. ASSUME NEW e \in ToSet(m.entries) PROVE MemberOf(e) \in ToSet(a)
    <3>1. PICK x \in ToSet(a) : e.path = x.path
      BY <2>1 DEF Paths
    <3>2. x = MemberOf(e)
      BY <1>6, <1>7, <3>1 DEF ArchiveValid
    <3>3. QED
      BY <3>2
  <2>5. QED
    BY <1>1, <2>2, <2>3, <2>4
<1>8. ASSUME Len(a) = Len(m.entries), ToSet(a) = ToSet(Members(m))
      PROVE  ArchiveValid(a, m)
  <2>0. \A e : MemberOf(e).path = e.path /\ MemberOf(e).type = e.type
    BY DEF MemberOf
  <2>1. ASSUME NEW x \in ToSet(a) PROVE \E e \in ToSet(m.entries) : x = MemberOf(e) /\ x.path = e.path /\ x.type = e.type
    BY <1>1, <1>8, <2>0
  <2>2. ASSUME NEW e \in ToSet(m.entries) PROVE \E x \in ToSet(a) : x.path = e.path
    BY <1>1, <1>8, <2>0
  <2>3. Paths(a) = Paths(m.entries)
    BY <2>1, <2>2 DEF Paths
  <2>4. OnePath(a)
    BY <1>2, <1>3, <1>8, <2>3, CountPaths
  <2>5. \A i \in DOMAIN a : SafePath(a[i].path) /\ a[i].type # "special"
    <3>1. \A i \in DOMAIN a : a[i] \in ToSet(a)
      BY DEF ToSet
    <3>2. \A x \in ToSet(a) : SafePath(x.path) /\ x.type # "special"
      BY <1>5, <2>1
    <3>3. QED
      BY <3>1, <3>2
  <2>6. ASSUME NEW e \in ToSet(m.entries), NEW x \in ToSet(a), x.path = e.path
        PROVE  MemberAsEntry(x, e)
    <3>1. PICK d \in ToSet(m.entries) : x = MemberOf(d) /\ x.path = d.path
      BY <2>1
    <3>2. d = e
      <4>1. PICK i \in DOMAIN m.entries, j \in DOMAIN m.entries : d = m.entries[i] /\ e = m.entries[j]
        BY ManifestTypes
      <4>2. i = j
        BY <2>6, <3>1, <4>1, OrderedOnePath DEF OnePath
      <4>3. QED
        BY <4>1, <4>2
    <3>3. QED
      BY <1>6, <2>6, <3>1, <3>2
  <2>7. QED
    BY <2>3, <2>4, <2>5, <2>6 DEF ArchiveValid, OnePath, Paths
<1>9. QED
  BY <1>7, <1>8

-----------------------------------------------------------------------------
(* The steps of the generator and of the validation. *)

\* A bundle is sound exactly when the five steps of the validation accept it.
LEMMA SoundIsChecked ==
  ASSUME NEW b, IsBundle(b)
  PROVE  Sound(b) <=>
           /\ Absent \notin {b[f] : f \in Files}
           /\ b.metadata # Torn /\ b.manifest # Torn
           /\ DocumentsValid(b.metadata, b.manifest)
           /\ b.archive = b.metadata.archive
           /\ ArchiveValid(b.archive, b.manifest)
<1>1. \A x : x \in {b[f] : f \in Files} <=> x = b.manifest \/ x = b.archive \/ x = b.metadata
  BY DEF Files
<1> SUFFICES ASSUME b.manifest \notin {Absent, Torn}, b.archive \notin {Absent, Torn},
                    b.metadata \notin {Absent, Torn}
             PROVE  Sound(b) <=>
                      /\ DocumentsValid(b.metadata, b.manifest)
                      /\ b.archive = b.metadata.archive
                      /\ ArchiveValid(b.archive, b.manifest)
  BY <1>1 DEF Sound, ArchiveValid
<1>2. IsManifest(b.manifest) /\ IsArchive(b.archive) /\ IsMetadata(b.metadata)
  BY DEF IsBundle
<1>3. ManifestValid(b.manifest) <=> Forest(b.manifest)
  BY <1>2, ValidIsForest
<1>4. Forest(b.manifest) =>
        (ArchiveValid(b.archive, b.manifest) <=>
           Len(b.archive) = Len(b.manifest.entries) /\ ToSet(b.archive) = ToSet(Members(b.manifest)))
  BY <1>2, ForestParts, ArchiveIsMembers
<1>5. MetadataValid(b.metadata) <=>
        /\ b.metadata.protected <=> b.metadata.kind = "baseline"
        /\ b.metadata.source <=> b.metadata.kind # "baseline"
  <2>1. b.metadata.protected \in BOOLEAN /\ b.metadata.source \in BOOLEAN
    BY <1>2 DEF IsMetadata
  <2>2. QED
    BY <2>1 DEF MetadataValid
<1>6. {b[f] : f \in Files} \cap {Absent, Torn} = {}
  BY <1>1
<1>7. QED
  BY <1>3, <1>4, <1>5, <1>6 DEF Sound, DocumentsValid

\* What a run writes is well formed, and is no file that is absent or torn.
LEMMA WrittenTypes ==
  \A m \in Snapshots :
    /\ IsManifest(m) /\ IsArchive(Members(m)) /\ IsMetadata(Describe(m, Members(m)))
    /\ m \notin {Absent, Torn} /\ Members(m) \notin {Absent, Torn}
    /\ Describe(m, Members(m)) \notin {Absent, Torn}
<1> SUFFICES ASSUME NEW m \in Snapshots
             PROVE  /\ IsManifest(m) /\ IsArchive(Members(m)) /\ IsMetadata(Describe(m, Members(m)))
                    /\ m \notin {Absent, Torn} /\ Members(m) \notin {Absent, Torn}
                    /\ Describe(m, Members(m)) \notin {Absent, Torn}
  OBVIOUS
<1>1. IsManifest(m) /\ {m, Members(m), Describe(m, Members(m))} \cap {Absent, Torn} = {}
  BY BundleAssumption
<1>2. IsArchive(Members(m))
  BY <1>1, MembersTypes
<1>3. IsMetadata(Describe(m, Members(m)))
  <2>1. \A a : /\ Describe(m, a).protected = TRUE /\ Describe(m, a).source = FALSE
               /\ Describe(m, a).canonical = TRUE
    BY DEF Describe
  <2>2. QED
    BY <2>1 DEF IsMetadata
<1>4. QED
  BY <1>1, <1>2, <1>3

LEMMA BundleTypes ==
  ASSUME BundleTypeOK, OriginInv
  PROVE  IsBundle(bundle)
<1>1. CASE bundle \in Foreign
  BY <1>1, BundleAssumption
<1>2. CASE /\ bundle.manifest \in Snapshots \cup {Absent, Torn}
           /\ bundle.archive \in {Members(m) : m \in Snapshots} \cup {Absent, Torn}
           /\ bundle.metadata \in Written \cup {Absent, Torn}
  BY <1>2, WrittenTypes DEF IsBundle, BundleTypeOK, Written
<1>3. QED
  BY <1>1, <1>2 DEF OriginInv

LEMMA BundleInvInit == BundleInit \/ BundleAside => BundleInv
<1>1. /\ NoBundle.manifest = Absent /\ NoBundle.archive = Absent /\ NoBundle.metadata = Absent
      /\ DOMAIN NoBundle = Files /\ NoBundle = [f \in Files |-> NoBundle[f]]
  BY DEF NoBundle, Files
<1>2. ~Sound(NoBundle)
  <2>1. Absent \in {NoBundle[f] : f \in Files}
    BY <1>1 DEF Files
  <2>2. QED
    BY <2>1 DEF Sound
<1> SUFFICES ASSUME BundleInit \/ BundleAside PROVE BundleInv
  OBVIOUS
<1>3. /\ generator = "idle" /\ snapshot = Absent /\ read = NoBundle /\ meddled = FALSE
      /\ reader \in {"idle", "invalid"} /\ runs \in {0, MaxRuns}
      /\ bundle = NoBundle \/ (bundle \in Foreign /\ runs = MaxRuns /\ reader = "idle")
  BY DEF BundleInit, BundleAside
<1>4. BundleTypeOK
  <2>1. DOMAIN bundle = Files /\ DOMAIN read = Files
    BY <1>1, <1>3, BundleAssumption DEF IsBundle
  <2>2. runs \in 0..MaxRuns
    BY <1>3, BundleAssumption
  <2>3. QED
    BY <1>3, <2>1, <2>2 DEF BundleTypeOK
<1>5. OriginInv
  BY <1>1, <1>3 DEF OriginInv
<1>6. ReadInv /\ SteadyInv
  BY <1>2, <1>3 DEF ReadInv, SteadyInv
<1>7. QED
  BY <1>4, <1>5, <1>6 DEF BundleInv

\* The generator starts, writes or is killed.
LEMMA GeneratorKeeps ==
  BundleInv /\ (StartRun \/ WriteManifest \/ WriteArchive \/ WriteMetadata \/ KillRun) => BundleInv'
<1> SUFFICES ASSUME BundleInv, StartRun \/ WriteManifest \/ WriteArchive \/ WriteMetadata \/ KillRun
             PROVE  BundleInv'
  OBVIOUS
<1>1. BundleTypeOK /\ OriginInv /\ ReadInv /\ SteadyInv /\ UNCHANGED <<reader, read>>
  BY DEF BundleInv, StartRun, WriteManifest, WriteArchive, WriteMetadata, WriteFile, KillRun
<1>2. generator # "idle" \/ runs < MaxRuns
  BY DEF StartRun, WriteManifest, WriteArchive, WriteMetadata, WriteFile, KillRun
<1>3. /\ bundle.manifest \in Snapshots \cup {Absent, Torn}
      /\ bundle.archive \in {Members(m) : m \in Snapshots} \cup {Absent, Torn}
      /\ bundle.metadata \in Written \cup {Absent, Torn}
      /\ generator # "idle" => snapshot \in Snapshots
      /\ generator = "metadata" => bundle.archive = Members(snapshot)
      /\ reader \in {"manifest", "digest", "members", "valid"} => read.metadata \in Written \cup {Torn}
      /\ reader \in {"digest", "members", "valid"} => read.manifest \in Snapshots
  <2>1. ~(generator = "idle" /\ runs = MaxRuns)
    BY <1>2, BundleAssumption
  <2>2. QED
    BY <1>1, <2>1 DEF OriginInv
<1>4. DOMAIN bundle = Files /\ Files = {"manifest", "archive", "metadata"}
  BY <1>1 DEF BundleTypeOK, Files
<1>5. SteadyInv'
  <2>1. meddled' \/ reader' = "idle"
    <3>1. CASE KillRun
      BY <1>1, <3>1 DEF KillRun, SteadyInv
    <3>2. CASE StartRun \/ WriteManifest \/ WriteArchive \/ WriteMetadata
      BY <1>1, <3>2 DEF StartRun, WriteManifest, WriteArchive, WriteMetadata, WriteFile, Meddle
    <3>3. QED
      BY <3>1, <3>2
  <2>2. QED
    BY <2>1 DEF SteadyInv
<1>6. ASSUME UNCHANGED bundle, runs' \in 0..MaxRuns, meddled' \in BOOLEAN, generator' \in {"idle", "manifest"},
             snapshot' \in Snapshots \/ (generator' = "idle" /\ snapshot' = Absent)
      PROVE  BundleInv'
  <2>1. BundleTypeOK'
    BY <1>1, <1>6 DEF BundleTypeOK, Files
  <2>2. OriginInv'
    BY <1>1, <1>3, <1>6 DEF OriginInv
  <2>3. ReadInv'
    BY <1>1, <1>6 DEF ReadInv
  <2>4. QED
    BY <1>5, <2>1, <2>2, <2>3 DEF BundleInv
<1>7. CASE StartRun
  <2>1. runs' \in 0..MaxRuns
    BY <1>1, <1>7, BundleAssumption DEF StartRun, BundleTypeOK
  <2>2. QED
    BY <1>1, <1>6, <1>7, <2>1 DEF StartRun, Meddle, BundleTypeOK
<1>8. CASE KillRun
  BY <1>1, <1>6, <1>8 DEF KillRun, BundleTypeOK
<1>9. ASSUME NEW g \in Files, NEW content, bundle' = [bundle EXCEPT ![g] = content], content # Absent,
             runs' = runs, meddled' \in BOOLEAN,
             content = Torn \/
               content \in (IF g = "manifest" THEN Snapshots
                            ELSE IF g = "archive" THEN {Members(m) : m \in Snapshots} ELSE Written),
             snapshot' = snapshot \/ (generator' = "idle" /\ snapshot' = Absent),
             generator' \in Files \cup {"idle"}, generator # "idle",
             generator' = "metadata" =>
               \/ generator = "metadata" /\ g = "metadata"
               \/ g = "archive" /\ content = Members(snapshot) /\ snapshot' = snapshot
      PROVE  BundleInv'
  <2>1. /\ DOMAIN bundle' = Files
        /\ \A f \in Files : bundle'[f] = IF f = g THEN content ELSE bundle[f]
    BY <1>4, <1>9
  <2>2. BundleTypeOK'
    BY <1>1, <1>9, <2>1 DEF BundleTypeOK
  <2>3. /\ bundle'.manifest = IF g = "manifest" THEN content ELSE bundle.manifest
        /\ bundle'.archive = IF g = "archive" THEN content ELSE bundle.archive
        /\ bundle'.metadata = IF g = "metadata" THEN content ELSE bundle.metadata
    BY <1>4, <2>1
  <2>4. OriginInv'
    <3>1. bundle'.manifest \in Snapshots \cup {Absent, Torn}
      BY <1>3, <1>9, <2>3
    <3>2. bundle'.archive \in {Members(m) : m \in Snapshots} \cup {Absent, Torn}
      BY <1>3, <1>9, <2>3
    <3>3. bundle'.metadata \in Written \cup {Absent, Torn}
      BY <1>3, <1>4, <1>9, <2>3
    <3>4. generator' # "idle" => snapshot' \in Snapshots
      BY <1>3, <1>9
    <3>5. generator' = "metadata" => bundle'.archive = Members(snapshot')
      BY <1>3, <1>9, <2>3
    <3>6. QED
      BY <1>1, <1>3, <3>1, <3>2, <3>3, <3>4, <3>5 DEF OriginInv
  <2>5. ReadInv'
    <3>1. Absent \in {bundle'[f] : f \in Files} => Absent \in {bundle[f] : f \in Files}
      BY <1>9, <2>1
    <3>2. QED
      BY <1>1, <3>1 DEF ReadInv
  <2>6. QED
    BY <1>5, <2>2, <2>4, <2>5 DEF BundleInv
<1>10. CASE WriteManifest
  <2>1. generator = "manifest" /\ runs' = runs /\ meddled' \in BOOLEAN
    BY <1>1, <1>10 DEF WriteManifest, WriteFile, Meddle, BundleTypeOK
  <2>2. snapshot \in Snapshots /\ snapshot # Absent /\ Torn # Absent
    BY <1>3, <2>1, WrittenTypes, BundleAssumption
  <2>3. CASE bundle' = [bundle EXCEPT !["manifest"] = Torn] /\ UNCHANGED <<generator, snapshot>>
    BY <1>4, <1>9, <2>1, <2>2, <2>3
  <2>4. CASE /\ bundle' = [bundle EXCEPT !["manifest"] = snapshot]
             /\ generator' = "archive" /\ snapshot' = snapshot
    BY <1>4, <1>9, <2>1, <2>2, <2>4
  <2>5. QED
    BY <1>10, <2>3, <2>4 DEF WriteManifest, WriteFile
<1>11. CASE WriteArchive
  <2>1. generator = "archive" /\ runs' = runs /\ meddled' \in BOOLEAN
    BY <1>1, <1>11 DEF WriteArchive, WriteFile, Meddle, BundleTypeOK
  <2>2. snapshot \in Snapshots /\ Members(snapshot) # Absent /\ Torn # Absent
    BY <1>3, <2>1, WrittenTypes, BundleAssumption
  <2>3. CASE bundle' = [bundle EXCEPT !["archive"] = Torn] /\ UNCHANGED <<generator, snapshot>>
    BY <1>4, <1>9, <2>1, <2>2, <2>3
  <2>4. CASE /\ bundle' = [bundle EXCEPT !["archive"] = Members(snapshot)]
             /\ generator' = "metadata" /\ snapshot' = snapshot
    BY <1>4, <1>9, <2>1, <2>2, <2>4
  <2>5. QED
    BY <1>11, <2>3, <2>4 DEF WriteArchive, WriteFile
<1>12. CASE WriteMetadata
  <2>1. generator = "metadata" /\ runs' = runs /\ meddled' \in BOOLEAN
    BY <1>1, <1>12 DEF WriteMetadata, WriteFile, Meddle, BundleTypeOK
  <2>2. /\ snapshot \in Snapshots /\ Torn # Absent
        /\ Describe(snapshot, bundle.archive) = Describe(snapshot, Members(snapshot))
        /\ Describe(snapshot, Members(snapshot)) # Absent
        /\ Describe(snapshot, Members(snapshot)) \in Written
    BY <1>3, <2>1, WrittenTypes, BundleAssumption DEF Written
  <2>3. CASE bundle' = [bundle EXCEPT !["metadata"] = Torn] /\ UNCHANGED <<generator, snapshot>>
    BY <1>4, <1>9, <2>1, <2>2, <2>3
  <2>4. CASE /\ bundle' = [bundle EXCEPT !["metadata"] = Describe(snapshot, Members(snapshot))]
             /\ generator' = "idle" /\ snapshot' = Absent
    BY <1>4, <1>9, <2>1, <2>2, <2>4
  <2>5. QED
    BY <1>12, <2>2, <2>3, <2>4 DEF WriteMetadata, WriteFile
<1>13. QED
  BY <1>7, <1>8, <1>10, <1>11, <1>12

\* The validation takes a step.
LEMMA ReaderKeeps ==
  BundleInv /\ (FindFiles \/ ReadMetadata \/ ReadManifest \/ HashArchive \/ OpenArchive \/ ReadAgain)
    => BundleInv'
<1> SUFFICES ASSUME BundleInv,
                    FindFiles \/ ReadMetadata \/ ReadManifest \/ HashArchive \/ OpenArchive \/ ReadAgain
             PROVE  BundleInv'
  OBVIOUS
<1>1. /\ BundleTypeOK /\ OriginInv /\ ReadInv /\ SteadyInv
      /\ UNCHANGED <<bundle, generator, snapshot, runs>>
  BY DEF BundleInv, FindFiles, ReadMetadata, ReadManifest, HashArchive, OpenArchive, ReadAgain, Goes
<1>2. DOMAIN read = Files /\ Files = {"manifest", "archive", "metadata"} /\ meddled \in BOOLEAN
  BY <1>1 DEF BundleTypeOK, Files
<1>3. Sound(bundle) <=>
        /\ Absent \notin {bundle[f] : f \in Files}
        /\ bundle.metadata # Torn /\ bundle.manifest # Torn
        /\ DocumentsValid(bundle.metadata, bundle.manifest)
        /\ bundle.archive = bundle.metadata.archive
        /\ ArchiveValid(bundle.archive, bundle.manifest)
  BY <1>1, BundleTypes, SoundIsChecked
<1>4. reader \notin {"idle", "invalid"} => /\ bundle.manifest # Absent /\ bundle.archive # Absent
                                           /\ bundle.metadata # Absent
  BY <1>1, <1>2 DEF ReadInv
<1>5. CASE FindFiles
  <2>1. /\ reader = "idle" /\ UNCHANGED read
        /\ meddled' = (generator # "idle")
        /\ reader' = IF Absent \in {bundle[f] : f \in Files} THEN "invalid" ELSE "metadata"
    BY <1>5 DEF FindFiles
  <2>2. BundleTypeOK'
    BY <1>1, <2>1 DEF BundleTypeOK
  <2>3. OriginInv'
    BY <1>1, <2>1 DEF OriginInv
  <2>4. ReadInv'
    BY <1>1, <2>1 DEF ReadInv
  <2>5. SteadyInv'
    BY <1>1, <1>3, <2>1 DEF SteadyInv
  <2>6. QED
    BY <2>2, <2>3, <2>4, <2>5 DEF BundleInv
<1>6. CASE ReadMetadata
  <2>1. /\ reader = "metadata" /\ reader' = "manifest" /\ meddled' = meddled
        /\ DOMAIN read' = Files /\ read'.metadata = bundle.metadata
    BY <1>2, <1>6 DEF ReadMetadata, Goes
  <2>2. BundleTypeOK'
    BY <1>1, <2>1 DEF BundleTypeOK
  <2>3. OriginInv'
    BY <1>1, <1>4, <2>1 DEF OriginInv
  <2>4. ReadInv'
    BY <1>1, <2>1 DEF ReadInv
  <2>5. SteadyInv'
    BY <1>1, <2>1 DEF SteadyInv
  <2>6. QED
    BY <2>2, <2>3, <2>4, <2>5 DEF BundleInv
<1>7. CASE ReadManifest
  <2>1. /\ reader = "manifest" /\ meddled' = meddled
        /\ DOMAIN read' = Files /\ read'.metadata = read.metadata /\ read'.manifest = bundle.manifest
        /\ reader' = IF /\ read.metadata # Torn /\ bundle.manifest # Torn
                        /\ DocumentsValid(read.metadata, bundle.manifest)
                     THEN "digest" ELSE "invalid"
    BY <1>2, <1>7 DEF ReadManifest, Goes
  <2>2. BundleTypeOK'
    BY <1>1, <2>1 DEF BundleTypeOK
  <2>3. OriginInv'
    BY <1>1, <1>4, <2>1 DEF OriginInv
  <2>4. ReadInv'
    BY <1>1, <2>1 DEF ReadInv
  <2>5. SteadyInv'
    BY <1>1, <1>3, <2>1 DEF SteadyInv
  <2>6. QED
    BY <2>2, <2>3, <2>4, <2>5 DEF BundleInv
<1>8. CASE HashArchive
  <2>1. /\ reader = "digest" /\ meddled' = meddled
        /\ DOMAIN read' = Files /\ read'.metadata = read.metadata /\ read'.manifest = read.manifest
        /\ read'.archive = bundle.archive
        /\ reader' = IF bundle.archive = read.metadata.archive THEN "members" ELSE "invalid"
    BY <1>2, <1>8 DEF HashArchive, Goes
  <2>2. BundleTypeOK'
    BY <1>1, <2>1 DEF BundleTypeOK
  <2>3. OriginInv'
    BY <1>1, <2>1 DEF OriginInv
  <2>4. ReadInv'
    BY <1>1, <2>1 DEF ReadInv
  <2>5. SteadyInv'
    BY <1>1, <1>3, <2>1 DEF SteadyInv
  <2>6. QED
    BY <2>2, <2>3, <2>4, <2>5 DEF BundleInv
<1>9. CASE OpenArchive
  <2>1. /\ reader = "members" /\ meddled' = meddled /\ read' = read
        /\ reader' = IF ArchiveValid(bundle.archive, read.manifest) THEN "valid" ELSE "invalid"
    BY <1>9 DEF OpenArchive, Goes
  <2>2. BundleTypeOK'
    BY <1>1, <2>1 DEF BundleTypeOK
  <2>3. OriginInv'
    BY <1>1, <2>1 DEF OriginInv
  <2>4. ReadInv'
    BY <1>1, <2>1 DEF ReadInv
  <2>5. SteadyInv'
    BY <1>1, <1>3, <2>1 DEF SteadyInv
  <2>6. QED
    BY <2>2, <2>3, <2>4, <2>5 DEF BundleInv
<1>10. CASE ReadAgain
  <2>1. reader' = "idle" /\ meddled' = meddled /\ DOMAIN read' = Files
    BY <1>10 DEF ReadAgain, Goes, NoBundle
  <2>2. BundleTypeOK'
    BY <1>1, <2>1 DEF BundleTypeOK
  <2>3. OriginInv'
    BY <1>1, <2>1 DEF OriginInv
  <2>4. ReadInv' /\ SteadyInv'
    BY <2>1 DEF ReadInv, SteadyInv
  <2>5. QED
    BY <2>2, <2>3, <2>4 DEF BundleInv
<1>11. QED
  BY <1>5, <1>6, <1>7, <1>8, <1>9, <1>10

LEMMA BundleInvHolds == Spec => []BundleInv
<1>1. Init => BundleInv
  BY BundleInvInit DEF Init
<1>2. BundleInv /\ [Next]_vars => BundleInv'
  <2> SUFFICES ASSUME BundleInv, [Next]_vars PROVE BundleInv'
    OBVIOUS
  <2>1. CASE BundleNext
    BY <2>1, GeneratorKeeps, ReaderKeeps DEF BundleNext
  <2>2. CASE UNCHANGED bundleVars
    <3>1. UNCHANGED <<bundle, generator, snapshot, reader, read, runs, meddled>>
      BY <2>2 DEF bundleVars
    <3>2. BundleTypeOK'
      BY <3>1 DEF BundleInv, BundleTypeOK
    <3>3. OriginInv'
      BY <3>1 DEF BundleInv, OriginInv
    <3>4. ReadInv'
      BY <3>1 DEF BundleInv, ReadInv
    <3>5. SteadyInv'
      BY <3>1 DEF BundleInv, SteadyInv
    <3>6. QED
      BY <3>2, <3>3, <3>4, <3>5 DEF BundleInv
  <2>3. QED
    BY <2>1, <2>2 DEF Next, vars
<1>3. QED
  BY <1>1, <1>2, PTL DEF Spec

-----------------------------------------------------------------------------
(* What the validation promises. *)

\* The variables of both halves stay in their ranges: TypeOK.
THEOREM TypeCorrect == Spec => []TypeOK
<1>1. BundleInv /\ RetentionInv => TypeOK
  BY DEF BundleInv, RetentionInv, TypeOK
<1>2. QED
  BY <1>1, BundleInvHolds, RetentionInvHolds, PTL

\* A bundle that nobody writes meanwhile is accepted when it is sound and only
\* then, for all manifests, archives and metadata.
THEOREM VerdictTrue == Spec => []VerdictIsRight
<1>1. BundleInv => VerdictIsRight
  <2> SUFFICES ASSUME BundleInv, ~meddled, generator = "idle"
               PROVE  (reader = "valid" => Sound(bundle)) /\ (reader = "invalid" => ~Sound(bundle))
    BY DEF VerdictIsRight
  <2>1. BundleTypeOK /\ OriginInv /\ ReadInv /\ SteadyInv
    BY DEF BundleInv
  <2>2. CASE reader = "valid"
    <3>1. /\ bundle.metadata = read.metadata /\ bundle.manifest = read.manifest
          /\ bundle.archive = read.archive /\ ArchiveValid(bundle.archive, bundle.manifest)
      BY <2>1, <2>2 DEF SteadyInv
    <3>2. /\ Absent \notin {bundle[f] : f \in Files}
          /\ read.metadata # Torn /\ read.manifest # Torn
          /\ DocumentsValid(read.metadata, read.manifest) /\ read.archive = read.metadata.archive
      BY <2>1, <2>2 DEF ReadInv
    <3>3. Sound(bundle)
      BY <2>1, <3>1, <3>2, BundleTypes, SoundIsChecked
    <3>4. QED
      BY <2>2, <3>3
  <2>3. CASE reader = "invalid"
    BY <2>1, <2>3 DEF SteadyInv
  <2>4. QED
    BY <2>2, <2>3
<1>2. QED
  BY <1>1, BundleInvHolds, PTL

\* A bundle that is accepted was read in one piece, whatever was written while
\* it was read: the digests of the metadata tie together what one run wrote.
THEOREM ReadInOnePiece == Spec => []AcceptedInOnePiece
<1>1. BundleInv => AcceptedInOnePiece
  <2> SUFFICES ASSUME BundleInv, reader = "valid" PROVE Sound(read)
    BY DEF AcceptedInOnePiece
  <2>1. BundleTypeOK /\ OriginInv /\ ReadInv /\ SteadyInv
    BY DEF BundleInv
  <2>2. /\ Absent \notin {bundle[f] : f \in Files}
        /\ read.metadata # Torn /\ read.manifest # Torn
        /\ DocumentsValid(read.metadata, read.manifest) /\ read.archive = read.metadata.archive
    BY <2>1 DEF ReadInv
  <2>3. DOMAIN read = Files /\ \A f \in Files : f \in {"manifest", "archive", "metadata"}
    BY <2>1 DEF BundleTypeOK, Files
  <2>4. CASE bundle \in Foreign /\ ~meddled
    <3>1. /\ read.metadata = bundle.metadata /\ read.manifest = bundle.manifest
          /\ read.archive = bundle.archive /\ ArchiveValid(bundle.archive, bundle.manifest)
      BY <2>1, <2>4 DEF SteadyInv
    <3>2. IsBundle(read)
      BY <2>1, <2>3, <3>1, BundleTypes DEF IsBundle
    <3>3. Absent \notin {read[f] : f \in Files}
      BY <2>2, <3>1 DEF Files
    <3>4. QED
      BY <2>2, <3>1, <3>2, <3>3, SoundIsChecked
  <2>5. CASE read.metadata \in Written \cup {Torn} /\ read.manifest \in Snapshots
    <3>1. PICK m \in Snapshots : read.metadata = Describe(m, Members(m))
      BY <2>2, <2>5 DEF Written
    <3>2. read.metadata.manifest = m /\ read.metadata.archive = Members(m)
      BY <3>1 DEF Describe
    <3>3. read.manifest = m /\ ManifestValid(m) /\ read.archive = Members(m)
      BY <2>2, <3>2 DEF DocumentsValid
    <3>4. /\ IsManifest(m) /\ IsArchive(Members(m)) /\ IsMetadata(read.metadata)
          /\ read.metadata \notin {Absent, Torn} /\ m \notin {Absent, Torn} /\ Members(m) \notin {Absent, Torn}
      BY <3>1, WrittenTypes
    <3>5. Ordered(m) /\ \A e \in ToSet(m.entries) : SafePath(e.path)
      BY <3>3, <3>4, ValidParts, ConsecutiveOrdered
    <3>6. Len(Members(m)) = Len(m.entries)
      BY <3>4, MembersTypes
    <3>7. ArchiveValid(Members(m), m)
      BY <3>4, <3>5, <3>6, ArchiveIsMembers
    <3>8. IsBundle(read)
      BY <2>3, <3>3, <3>4 DEF IsBundle
    <3>9. Absent \notin {read[f] : f \in Files}
      BY <3>3, <3>4 DEF Files
    <3>10. QED
      BY <2>2, <3>3, <3>7, <3>8, <3>9, SoundIsChecked
  <2>6. QED
    BY <2>1, <2>4, <2>5 DEF OriginInv
<1>2. QED
  BY <1>1, BundleInvHolds, PTL

\* What is accepted can be unpacked entry by entry: each is in one scope, and
\* its directories come before it.
THEOREM Unpackable == Spec => []AcceptedUnpacks
<1>1. BundleInv => AcceptedUnpacks
  <2> SUFFICES ASSUME BundleInv, reader = "valid", NEW i \in DOMAIN read.manifest.entries
               PROVE  \E s \in ToSet(read.manifest.scopes) :
                        /\ {t \in ToSet(read.manifest.scopes) : InTarget(read.manifest.entries[i].path, t.target)} = {s}
                        /\ \A n \in 1..(Len(read.manifest.entries[i].path) - 1) :
                             n >= Len(s.target) =>
                               \E j \in 1..(i - 1) :
                                 /\ read.manifest.entries[j].path = SubSeq(read.manifest.entries[i].path, 1, n)
                                 /\ read.manifest.entries[j].type = "directory"
    BY DEF AcceptedUnpacks
  <2>1. PICK m : m = read.manifest
    OBVIOUS
  <2>2. ManifestValid(m) /\ IsManifest(m)
    <3>1. ReadInv /\ SteadyInv /\ OriginInv /\ BundleTypeOK
      BY DEF BundleInv
    <3>2. ManifestValid(m) /\ m # Torn
      BY <2>1, <3>1 DEF ReadInv, DocumentsValid
    <3>3. CASE bundle \in Foreign /\ ~meddled
      <4>1. m = bundle.manifest /\ m # Absent
        BY <2>1, <3>1, <3>3 DEF SteadyInv, ReadInv, Files
      <4>2. QED
        BY <3>1, <3>2, <4>1, BundleTypes DEF IsBundle
    <3>4. CASE m \in Snapshots
      BY <3>2, <3>4, WrittenTypes
    <3>5. QED
      BY <2>1, <3>1, <3>3, <3>4 DEF OriginInv
  <2>3. ScopesApart(m) /\ Ordered(m)
    BY <2>2, ValidParts, ScopesForest, ConsecutiveOrdered
  <2>4. PICK e : e = m.entries[i]
    OBVIOUS
  <2>5. /\ e \in ToSet(m.entries) /\ e.path \in Seq(Names)
        /\ DOMAIN m.entries = 1..Len(m.entries) /\ Len(m.entries) \in Nat /\ i \in DOMAIN m.entries
    BY <2>1, <2>2, <2>4, ManifestTypes
  <2>6. PICK s \in ToSet(m.scopes) : Stands(m, e, s)
    BY <2>2, <2>5, ValidParts
  <2>7. {t \in ToSet(m.scopes) : InTarget(e.path, t.target)} = {s}
    <3>1. InTarget(e.path, s.target)
      BY <2>6 DEF Stands, InScopeOf
    <3>2. ASSUME NEW t \in ToSet(m.scopes), InTarget(e.path, t.target) PROVE t = s
      <4>1. Overlap(s.target, t.target)
        BY <2>2, <2>5, <3>1, <3>2, ManifestTypes, TwoTargets
      <4>2. QED
        BY <2>3, <4>1 DEF ScopesApart
    <3>3. QED
      BY <3>1, <3>2
  <2>8. ASSUME NEW n \in 1..(Len(e.path) - 1), n >= Len(s.target)
        PROVE  \E j \in 1..(i - 1) : m.entries[j].path = SubSeq(e.path, 1, n) /\ m.entries[j].type = "directory"
    <3>1. SubSeq(e.path, 1, n) \in Dirs(m)
      BY <2>6, <2>8 DEF Stands, RequiredDirectories
    <3>2. PICK d \in ToSet(m.entries) : d.path = SubSeq(e.path, 1, n) /\ d.type = "directory"
      BY <3>1 DEF Dirs
    <3>3. PICK j \in DOMAIN m.entries : d = m.entries[j]
      BY <2>2, ManifestTypes
    <3>4. Before(d.path, e.path) /\ d.path \in Seq(Names)
      <4>1. n \in Nat /\ n < Len(e.path)
        BY <2>5
      <4>2. QED
        BY <2>2, <2>5, <3>2, <4>1, PrefixBefore, ManifestTypes
    <3>5. ~(i <= j)
      <4>1. i # j
        BY <2>4, <2>5, <3>3, <3>4, BeforeStrict
      <4>2. ASSUME i < j PROVE FALSE
        <5>1. Before(e.path, d.path)
          BY <2>3, <2>4, <2>5, <3>3, <4>2 DEF Ordered
        <5>2. Before(e.path, e.path)
          BY <2>5, <3>4, <5>1, BeforeTransitive
        <5>3. QED
          BY <2>5, <5>2, BeforeStrict
      <4>3. QED
        BY <2>5, <4>1, <4>2
    <3>6. j \in 1..(i - 1)
      BY <2>5, <3>5
    <3>7. QED
      BY <3>2, <3>3, <3>6
  <2>9. QED
    BY <2>1, <2>4, <2>6, <2>7, <2>8
<1>2. QED
  BY <1>1, BundleInvHolds, PTL
=============================================================================
