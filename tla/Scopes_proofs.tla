--------------------------- MODULE Scopes_proofs ---------------------------
(* Facts about paths that the proofs about packaging and about the plan use. *)
EXTENDS Scopes, SequenceTheorems, TLAPS

-----------------------------------------------------------------------------
(* Paths below a root. *)

\* A path put below another one, place by place.
LEMMA BelowPlaces ==
  ASSUME NEW s \in Seq(STRING), NEW r \in Seq(STRING)
  PROVE  \E p \in Seq(STRING) :
           /\ p = s \o r
           /\ Len(p) = Len(s) + Len(r)
           /\ \A i \in 1..Len(s) : p[i] = s[i]
           /\ \A i \in 1..Len(r) : p[Len(s) + i] = r[i]
<1>1. PICK p : p = s \o r
  OBVIOUS
<1>2. /\ s \o r \in Seq(STRING) /\ Len(s \o r) = Len(s) + Len(r)
      /\ \A i \in 1..(Len(s) + Len(r)) : (s \o r)[i] = IF i <= Len(s) THEN s[i] ELSE r[i - Len(s)]
  BY ConcatProperties
<1>3. /\ p \in Seq(STRING) /\ Len(p) = Len(s) + Len(r)
      /\ \A i \in 1..(Len(s) + Len(r)) : p[i] = IF i <= Len(s) THEN s[i] ELSE r[i - Len(s)]
  BY <1>1, <1>2
<1>4. Len(s) \in Nat /\ Len(r) \in Nat
  OBVIOUS
<1>5. \A i \in 1..Len(s) : p[i] = s[i]
  BY <1>3, <1>4
<1>6. ASSUME NEW i \in 1..Len(r) PROVE p[Len(s) + i] = r[i]
  <2>1. Len(s) + i \in 1..(Len(s) + Len(r)) /\ ~(Len(s) + i <= Len(s)) /\ (Len(s) + i) - Len(s) = i
    BY <1>4
  <2>2. QED
    BY <1>3, <2>1
<1>7. QED
  BY <1>1, <1>3, <1>5, <1>6

\* Paths with the same length and the same places are the same.
LEMMA SamePlaces ==
  ASSUME NEW p \in Seq(STRING), NEW q \in Seq(STRING), Len(p) = Len(q),
         \A i \in 1..Len(p) : p[i] = q[i]
  PROVE  p = q
OBVIOUS

\* A prefix, place by place.
LEMMA PrefixPlaces ==
  ASSUME NEW s \in Seq(STRING), NEW p \in Seq(STRING)
  PROVE  IsPrefix(s, p) <=> Len(s) <= Len(p) /\ \A i \in 1..Len(s) : p[i] = s[i]
<1> SUFFICES ASSUME Len(s) <= Len(p)
             PROVE  SubSeq(s, 1, Len(s)) = SubSeq(p, 1, Len(s)) <=> \A i \in 1..Len(s) : p[i] = s[i]
  BY DEF IsPrefix
<1>1. Len(s) \in Nat /\ Len(p) \in Nat
  OBVIOUS
<1>2. /\ SubSeq(s, 1, Len(s)) \in Seq(STRING) /\ Len(SubSeq(s, 1, Len(s))) = Len(s)
      /\ \A i \in 1..Len(s) : SubSeq(s, 1, Len(s))[i] = s[i]
  BY <1>1, SubSeqFull
<1>3. /\ SubSeq(p, 1, Len(s)) \in Seq(STRING) /\ Len(SubSeq(p, 1, Len(s))) = Len(s)
      /\ \A i \in 1..Len(s) : SubSeq(p, 1, Len(s))[i] = p[i]
  BY <1>1, SubSeqProperties
<1>4. QED
  BY <1>1, <1>2, <1>3

\* A path is its root and what is relative to it.
LEMMA RootAndRelative ==
  ASSUME NEW p \in Seq(STRING), NEW s \in Seq(STRING), IsPrefix(s, p)
  PROVE  Relative(p, s) \in Seq(STRING) /\ p = s \o Relative(p, s)
<1>1. Len(p) \in Nat /\ Len(s) \in Nat /\ Len(s) <= Len(p) /\ \A i \in 1..Len(s) : p[i] = s[i]
  BY PrefixPlaces
<1>2. PICK r : r = Relative(p, s)
  OBVIOUS
<1>3. r \in Seq(STRING) /\ Len(r) = Len(p) - Len(s) /\ \A i \in 1..Len(r) : r[i] = p[Len(s) + i]
  <2>1. \A i \in (Len(s) + 1)..Len(p) : p[i] \in STRING
    BY <1>1
  <2>2. /\ SubSeq(p, Len(s) + 1, Len(p)) \in Seq(STRING)
        /\ Len(SubSeq(p, Len(s) + 1, Len(p))) = IF Len(s) + 1 <= Len(p) THEN Len(p) - (Len(s) + 1) + 1 ELSE 0
        /\ \A i \in 1..(Len(p) - (Len(s) + 1) + 1) : SubSeq(p, Len(s) + 1, Len(p))[i] = p[Len(s) + 1 + i - 1]
    BY <1>1, <2>1, SubSeqProperties
  <2>3. r = SubSeq(p, Len(s) + 1, Len(p))
    BY <1>2 DEF Relative
  <2>4. QED
    BY <1>1, <2>2, <2>3
<1>4. PICK q \in Seq(STRING) :
        /\ q = s \o r
        /\ Len(q) = Len(s) + Len(r)
        /\ \A i \in 1..Len(s) : q[i] = s[i]
        /\ \A i \in 1..Len(r) : q[Len(s) + i] = r[i]
  BY <1>3, BelowPlaces, Zenon
<1>5. ASSUME NEW i \in 1..Len(p) PROVE p[i] = q[i]
  <2>1. CASE i <= Len(s)
    BY <1>1, <1>4, <2>1
  <2>2. CASE i > Len(s)
    <3>1. PICK j \in 1..Len(r) : i = Len(s) + j
      <4>1. i - Len(s) \in 1..Len(r) /\ i = Len(s) + (i - Len(s))
        BY <1>1, <1>3, <2>2
      <4>2. QED
        BY <4>1
    <3>2. QED
      BY <1>3, <1>4, <3>1
  <2>3. QED
    BY <1>1, <2>1, <2>2
<1>6. Len(p) = Len(q)
  BY <1>1, <1>3, <1>4
<1>7. p = q
  BY <1>4, <1>5, <1>6, SamePlaces
<1>8. QED
  BY <1>2, <1>3, <1>4, <1>7

\* Below one root a path is above another when it is so without the root.
LEMMA PrefixBelow ==
  ASSUME NEW s \in Seq(STRING), NEW a \in Seq(STRING), NEW r \in Seq(STRING)
  PROVE  /\ IsPrefix(s \o a, s \o r) <=> IsPrefix(a, r)
         /\ IsPrefix(s, s \o r)
<1>1. PICK p \in Seq(STRING) :
        /\ p = s \o r
        /\ Len(p) = Len(s) + Len(r)
        /\ \A i \in 1..Len(s) : p[i] = s[i]
        /\ \A i \in 1..Len(r) : p[Len(s) + i] = r[i]
  BY BelowPlaces, Zenon
<1>2. PICK q \in Seq(STRING) :
        /\ q = s \o a
        /\ Len(q) = Len(s) + Len(a)
        /\ \A i \in 1..Len(s) : q[i] = s[i]
        /\ \A i \in 1..Len(a) : q[Len(s) + i] = a[i]
  BY BelowPlaces, Zenon
<1>3. Len(s) \in Nat /\ Len(a) \in Nat /\ Len(r) \in Nat
  OBVIOUS
<1>4. ASSUME IsPrefix(a, r) PROVE IsPrefix(q, p)
  <2>1. Len(a) <= Len(r) /\ \A i \in 1..Len(a) : r[i] = a[i]
    BY <1>4, PrefixPlaces
  <2>2. ASSUME NEW i \in 1..Len(q) PROVE p[i] = q[i]
    <3>1. CASE i <= Len(s)
      BY <1>1, <1>2, <1>3, <3>1
    <3>2. CASE i > Len(s)
      <4>1. PICK j \in 1..Len(a) : i = Len(s) + j
        <5>1. i - Len(s) \in 1..Len(a) /\ i = Len(s) + (i - Len(s))
          BY <1>2, <1>3, <3>2
        <5>2. QED
          BY <5>1
      <4>2. j \in 1..Len(r)
        BY <1>3, <2>1
      <4>3. QED
        BY <1>1, <1>2, <2>1, <4>1, <4>2
    <3>3. QED
      BY <1>2, <1>3, <3>1, <3>2
  <2>3. Len(q) <= Len(p)
    BY <1>1, <1>2, <1>3, <2>1
  <2>4. QED
    BY <2>2, <2>3, PrefixPlaces
<1>5. ASSUME IsPrefix(q, p) PROVE IsPrefix(a, r)
  <2>1. Len(q) <= Len(p) /\ \A i \in 1..Len(q) : p[i] = q[i]
    BY <1>5, PrefixPlaces
  <2>2. Len(a) <= Len(r)
    BY <1>1, <1>2, <1>3, <2>1
  <2>3. ASSUME NEW i \in 1..Len(a) PROVE r[i] = a[i]
    <3>1. Len(s) + i \in 1..Len(q) /\ i \in 1..Len(r)
      BY <1>2, <1>3, <2>2
    <3>2. QED
      BY <1>1, <1>2, <2>1, <3>1
  <2>4. QED
    BY <2>2, <2>3, PrefixPlaces
<1>6. IsPrefix(s, p)
  <2>1. Len(s) <= Len(p)
    BY <1>1, <1>3
  <2>2. QED
    BY <1>1, <2>1, PrefixPlaces
<1>7. QED
  BY <1>1, <1>2, <1>4, <1>5, <1>6

\* Below one root different paths stay different.
LEMMA DifferentBelow ==
  ASSUME NEW s \in Seq(STRING), NEW a \in Seq(STRING), NEW r \in Seq(STRING), s \o a = s \o r
  PROVE  a = r
<1>1. PICK p \in Seq(STRING) :
        /\ p = s \o r
        /\ Len(p) = Len(s) + Len(r)
        /\ \A i \in 1..Len(s) : p[i] = s[i]
        /\ \A i \in 1..Len(r) : p[Len(s) + i] = r[i]
  BY BelowPlaces, Zenon
<1>2. PICK q \in Seq(STRING) :
        /\ q = s \o a
        /\ Len(q) = Len(s) + Len(a)
        /\ \A i \in 1..Len(s) : q[i] = s[i]
        /\ \A i \in 1..Len(a) : q[Len(s) + i] = a[i]
  BY BelowPlaces, Zenon
<1>3. p = q
  BY <1>1, <1>2
<1>4. Len(s) \in Nat /\ Len(a) \in Nat /\ Len(r) \in Nat
  OBVIOUS
<1>5. Len(a) = Len(r)
  BY <1>1, <1>2, <1>3, <1>4
<1>6. \A i \in 1..Len(a) : a[i] = r[i]
  BY <1>1, <1>2, <1>3, <1>5
<1>7. QED
  BY <1>5, <1>6, SamePlaces

\* Two paths above a third one overlap.
LEMMA PrefixesOfOne ==
  ASSUME NEW a \in Seq(STRING), NEW b \in Seq(STRING), NEW r \in Seq(STRING),
         IsPrefix(a, r), IsPrefix(b, r)
  PROVE  Overlap(a, b)
<1>1. Len(a) \in Nat /\ Len(b) \in Nat
  OBVIOUS
<1>2. (\A i \in 1..Len(a) : r[i] = a[i]) /\ (\A i \in 1..Len(b) : r[i] = b[i])
  BY PrefixPlaces
<1>3. CASE Len(a) <= Len(b)
  <2>1. \A i \in 1..Len(a) : b[i] = a[i]
    BY <1>1, <1>2, <1>3
  <2>2. QED
    BY <1>3, <2>1, PrefixPlaces DEF Overlap
<1>4. CASE Len(b) <= Len(a)
  <2>1. \A i \in 1..Len(b) : a[i] = b[i]
    BY <1>1, <1>2, <1>4
  <2>2. QED
    BY <1>4, <2>1, PrefixPlaces DEF Overlap
<1>5. QED
  BY <1>1, <1>3, <1>4

\* A path is above itself, and what is below a part of a root is below the root.
LEMMA PrefixOrder ==
  ASSUME NEW a \in Seq(STRING), NEW b \in Seq(STRING), NEW p \in Seq(STRING)
  PROVE  /\ IsPrefix(p, p)
         /\ IsPrefix(a, b) /\ IsPrefix(b, p) => IsPrefix(a, p)
<1>1. IsPrefix(p, p)
  BY PrefixPlaces
<1>2. ASSUME IsPrefix(a, b), IsPrefix(b, p) PROVE IsPrefix(a, p)
  <2>1. Len(a) \in Nat /\ Len(b) \in Nat /\ Len(p) \in Nat
    OBVIOUS
  <2>2. /\ Len(a) <= Len(b) /\ \A i \in 1..Len(a) : b[i] = a[i]
        /\ Len(b) <= Len(p) /\ \A i \in 1..Len(b) : p[i] = b[i]
    BY <1>2, PrefixPlaces
  <2>3. Len(a) <= Len(p) /\ \A i \in 1..Len(a) : p[i] = a[i]
    BY <2>1, <2>2
  <2>4. QED
    BY <2>3, PrefixPlaces
<1>3. QED
  BY <1>1, <1>2

\* Roots of roots.
LEMMA BelowBelow ==
  ASSUME NEW s \in Seq(STRING), NEW a \in Seq(STRING), NEW b \in Seq(STRING)
  PROVE  s \o a \in Seq(STRING) /\ (s \o a) \o b = s \o (a \o b)
OBVIOUS

\* The files of a scope, moved from its source to its target.
LEMMA Moved ==
  ASSUME NEW scope, scope.source \in Seq(STRING), scope.target \in Seq(STRING),
         NEW p \in Seq(STRING), IsPrefix(scope.source, p)
  PROVE  /\ Relative(p, scope.source) \in Seq(STRING)
         /\ TargetOf(scope, p) \in Seq(STRING)
         /\ IsPrefix(scope.target, TargetOf(scope, p))
         /\ \A a \in Seq(STRING) :
              /\ IsPrefix(scope.source \o a, p) <=> IsPrefix(a, Relative(p, scope.source))
              /\ IsPrefix(scope.target \o a, TargetOf(scope, p)) <=> IsPrefix(a, Relative(p, scope.source))
<1>1. PICK r : r = Relative(p, scope.source)
  OBVIOUS
<1>2. r \in Seq(STRING) /\ p = scope.source \o r
  BY <1>1, RootAndRelative
<1>3. PICK q : q = scope.target \o r
  OBVIOUS
<1>4. q = TargetOf(scope, p)
  BY <1>1, <1>3 DEF TargetOf
<1>5. q \in Seq(STRING) /\ IsPrefix(scope.target, q)
  BY <1>2, <1>3, BelowBelow, PrefixBelow, Zenon
<1>6. ASSUME NEW a \in Seq(STRING)
      PROVE  /\ IsPrefix(scope.source \o a, p) <=> IsPrefix(a, r)
             /\ IsPrefix(scope.target \o a, q) <=> IsPrefix(a, r)
  BY <1>2, <1>3, PrefixBelow, Zenon
<1>7. QED
  BY <1>1, <1>2, <1>4, <1>5, <1>6, Zenon

\* No two files below the source have the same target.
LEMMA MovedApart ==
  ASSUME NEW scope, scope.source \in Seq(STRING), scope.target \in Seq(STRING),
         NEW p \in Seq(STRING), IsPrefix(scope.source, p),
         NEW q \in Seq(STRING), IsPrefix(scope.source, q),
         TargetOf(scope, p) = TargetOf(scope, q)
  PROVE  p = q
<1>1. /\ Relative(p, scope.source) \in Seq(STRING) /\ p = scope.source \o Relative(p, scope.source)
      /\ Relative(q, scope.source) \in Seq(STRING) /\ q = scope.source \o Relative(q, scope.source)
  BY RootAndRelative, Zenon
<1>2. scope.target \o Relative(p, scope.source) = scope.target \o Relative(q, scope.source)
  BY Zenon DEF TargetOf
<1>3. Relative(p, scope.source) = Relative(q, scope.source)
  BY <1>1, <1>2, DifferentBelow, Zenon
<1>4. QED
  BY <1>1, <1>3, Zenon

\* Places relative to a root.
LEMMA RelativePath ==
  ASSUME NEW p \in Seq(STRING), NEW r \in Seq(STRING)
  PROVE  /\ Relative(p, r) \in Seq(STRING)
         /\ Len(r) <= Len(p) => Len(Relative(p, r)) = Len(p) - Len(r)
         /\ \A i \in 1..(Len(p) - Len(r)) : Relative(p, r)[i] = p[Len(r) + i]
<1>1. Len(p) \in Nat /\ Len(r) \in Nat
  OBVIOUS
<1>2. \A i \in (Len(r) + 1)..Len(p) : p[i] \in STRING
  BY <1>1
<1>3. /\ SubSeq(p, Len(r) + 1, Len(p)) \in Seq(STRING)
      /\ Len(SubSeq(p, Len(r) + 1, Len(p))) = IF Len(r) + 1 <= Len(p) THEN Len(p) - (Len(r) + 1) + 1 ELSE 0
      /\ \A i \in 1..(Len(p) - (Len(r) + 1) + 1) : SubSeq(p, Len(r) + 1, Len(p))[i] = p[Len(r) + 1 + i - 1]
  BY <1>1, <1>2, SubSeqProperties
<1>4. QED
  BY <1>1, <1>3 DEF Relative

\* What is directly below a root has its name.
LEMMA RelativeName ==
  ASSUME NEW p \in Seq(STRING), NEW r \in Seq(STRING), NEW m, IsPrefix(r, p), Relative(p, r) = <<m>>
  PROVE  Last(p) = m
<1>1. Len(r) <= Len(p) /\ Len(p) \in Nat /\ Len(r) \in Nat
  BY DEF IsPrefix
<1>2. PICK q : q = Relative(p, r)
  OBVIOUS
<1>3. Len(q) = Len(p) - Len(r) /\ \A i \in 1..(Len(p) - Len(r)) : q[i] = p[Len(r) + i]
  BY <1>1, <1>2, RelativePath
<1>4. Len(q) = 1 /\ q[1] = m
  BY <1>2
<1>5. Len(p) = Len(r) + 1
  <2>1. \A a, b \in Nat : 1 = a - b => a = b + 1
    OBVIOUS
  <2>2. 1 = Len(p) - Len(r)
    BY <1>3, <1>4, Zenon
  <2>3. QED
    BY <1>1, <2>1, <2>2, Zenon
<1>6. 1 \in 1..(Len(p) - Len(r))
  BY <1>1, <1>5
<1>7. q[1] = p[Len(p)]
  BY <1>3, <1>5, <1>6
<1>8. QED
  BY <1>4, <1>7 DEF Last

\* What is put below a target is there, under its name.
LEMMA RelativeOfTarget ==
  ASSUME NEW t \in Seq(STRING), NEW r \in Seq(STRING)
  PROVE  IsPrefix(t, t \o r) /\ Relative(t \o r, t) = r
<1>1. PICK c : c = t \o r
  OBVIOUS
<1>2. c \in Seq(STRING) /\ Len(c) = Len(t) + Len(r)
      /\ (\A i \in 1..Len(t) : c[i] = t[i]) /\ (\A i \in 1..Len(r) : c[Len(t) + i] = r[i])
  <2>1. /\ t \o r \in Seq(STRING) /\ Len(t \o r) = Len(t) + Len(r)
        /\ \A i \in 1..(Len(t) + Len(r)) : (t \o r)[i] = IF i <= Len(t) THEN t[i] ELSE r[i - Len(t)]
    BY ConcatProperties
  <2>2. QED
    BY <1>1, <2>1
<1>3. IsPrefix(t, c)
  <2>1. Len(t) \in Nat /\ Len(t) <= Len(c)
    BY <1>2
  <2>2. /\ SubSeq(t, 1, Len(t)) \in Seq(STRING) /\ Len(SubSeq(t, 1, Len(t))) = Len(t)
        /\ \A i \in 1..Len(t) : SubSeq(t, 1, Len(t))[i] = t[i]
    BY <2>1, SubSeqFull
  <2>3. /\ SubSeq(c, 1, Len(t)) \in Seq(STRING) /\ Len(SubSeq(c, 1, Len(t))) = Len(t)
        /\ \A i \in 1..Len(t) : SubSeq(c, 1, Len(t))[i] = c[i]
    BY <1>2, <2>1, SubSeqProperties
  <2>4. SubSeq(t, 1, Len(t)) = SubSeq(c, 1, Len(t))
    BY <1>2, <2>1, <2>2, <2>3
  <2>5. QED
    BY <2>1, <2>4 DEF IsPrefix
<1>4. Relative(c, t) = r
  <2>1. PICK q : q = Relative(c, t)
    OBVIOUS
  <2>2. /\ q \in Seq(STRING) /\ Len(q) = Len(c) - Len(t)
        /\ \A i \in 1..(Len(c) - Len(t)) : q[i] = c[Len(t) + i]
    <3>1. Len(t) <= Len(c)
      BY <1>2
    <3>2. c \in Seq(STRING)
      BY <1>2
    <3>3. QED
      BY <2>1, <3>1, <3>2, RelativePath
  <2>3. Len(c) - Len(t) = Len(r)
    BY <1>2
  <2>4. Len(q) = Len(r) /\ \A i \in 1..Len(q) : q[i] = r[i]
    BY <1>2, <2>2, <2>3
  <2>5. q = r
    BY <1>2, <2>2, <2>4, SeqEqual
  <2>6. QED
    BY <2>1, <2>5
<1>5. QED
  BY <1>1, <1>3, <1>4

\* The last name of a path that is put below a root.
LEMMA LastBelow ==
  ASSUME NEW t \in Seq(STRING), NEW a \in Seq(STRING), a # <<>>
  PROVE  /\ Len(a) >= 1 /\ Len(t \o a) = Len(t) + Len(a)
         /\ Front(a) \in Seq(STRING)
         /\ Front(t \o a) = t \o Front(a)
         /\ Last(t \o a) = Last(a)
<1>1. Len(a) \in Nat /\ Len(t) \in Nat /\ Len(a) >= 1
  OBVIOUS
<1>2. PICK c \in Seq(STRING) :
        /\ c = t \o a
        /\ Len(c) = Len(t) + Len(a)
        /\ \A i \in 1..Len(t) : c[i] = t[i]
        /\ \A i \in 1..Len(a) : c[Len(t) + i] = a[i]
  BY BelowPlaces, Zenon
<1>3. Last(c) = Last(a)
  <2>1. Len(a) \in 1..Len(a)
    BY <1>1
  <2>2. QED
    BY <1>1, <1>2, <2>1 DEF Last
<1>4. PICK f : f = Front(a)
  OBVIOUS
<1>5. f \in Seq(STRING) /\ Len(f) = Len(a) - 1 /\ \A i \in 1..(Len(a) - 1) : f[i] = a[i]
  <2>1. Len(a) \in Nat /\ Len(a) - 1 \in 0..Len(a) /\ \A i \in 1..(Len(a) - 1) : a[i] \in STRING
    BY <1>1
  <2>2. PICK n \in 0..Len(a) : n = Len(a) - 1
    BY <2>1
  <2>3. /\ SubSeq(a, 1, n) \in Seq(STRING)
        /\ Len(SubSeq(a, 1, n)) = IF 1 <= n THEN n - 1 + 1 ELSE 0
        /\ \A i \in 1..(n - 1 + 1) : SubSeq(a, 1, n)[i] = a[1 + i - 1]
    BY <2>1, <2>2, SubSeqProperties
  <2>4. f = SubSeq(a, 1, n)
    BY <1>4, <2>2 DEF Front
  <2>5. QED
    BY <2>1, <2>2, <2>3, <2>4
<1>6. PICK g : g = Front(c)
  OBVIOUS
<1>7. g \in Seq(STRING) /\ Len(g) = Len(c) - 1 /\ \A i \in 1..(Len(c) - 1) : g[i] = c[i]
  <2>1. Len(c) \in Nat /\ Len(c) - 1 \in 0..Len(c) /\ \A i \in 1..(Len(c) - 1) : c[i] \in STRING
    BY <1>1, <1>2
  <2>2. PICK n \in 0..Len(c) : n = Len(c) - 1
    BY <2>1
  <2>3. /\ SubSeq(c, 1, n) \in Seq(STRING)
        /\ Len(SubSeq(c, 1, n)) = IF 1 <= n THEN n - 1 + 1 ELSE 0
        /\ \A i \in 1..(n - 1 + 1) : SubSeq(c, 1, n)[i] = c[1 + i - 1]
    BY <2>1, <2>2, SubSeqProperties
  <2>4. g = SubSeq(c, 1, n)
    BY <1>6, <2>2 DEF Front
  <2>5. QED
    BY <2>1, <2>2, <2>3, <2>4
<1>8. PICK h \in Seq(STRING) :
        /\ h = t \o f
        /\ Len(h) = Len(t) + Len(f)
        /\ \A i \in 1..Len(t) : h[i] = t[i]
        /\ \A i \in 1..Len(f) : h[Len(t) + i] = f[i]
  BY <1>5, BelowPlaces, Zenon
<1>9. Len(g) = Len(h)
  BY <1>1, <1>2, <1>5, <1>7, <1>8
<1>10. ASSUME NEW i \in 1..Len(g) PROVE g[i] = h[i]
  <2>1. i \in 1..(Len(c) - 1) /\ g[i] = c[i]
    BY <1>7
  <2>2. CASE i <= Len(t)
    BY <1>1, <1>2, <1>8, <2>1, <2>2
  <2>3. CASE i > Len(t)
    <3>1. PICK j \in 1..Len(f) : i = Len(t) + j
      <4>1. i - Len(t) \in 1..Len(f) /\ i = Len(t) + (i - Len(t))
        BY <1>1, <1>2, <1>5, <2>1, <2>3
      <4>2. QED
        BY <4>1
    <3>2. j \in 1..Len(a) /\ j \in 1..(Len(a) - 1)
      BY <1>1, <1>5
    <3>3. QED
      BY <1>2, <1>5, <1>8, <2>1, <3>1, <3>2
  <2>4. QED
    BY <1>1, <2>1, <2>2, <2>3
<1>11. g = h
  BY <1>7, <1>8, <1>9, <1>10, SamePlaces
<1>12. QED
  BY <1>1, <1>2, <1>3, <1>4, <1>5, <1>6, <1>8, <1>11

=============================================================================
