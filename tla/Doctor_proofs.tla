----------------------------- MODULE Doctor_proofs -----------------------------
(* The verdict of doctor, for all commands, options and servers, and any       *)
(* number of changes.                                                          *)
EXTENDS Doctor, SequenceTheorems, FiniteSetTheorems, TLAPS

-----------------------------------------------------------------------------
(* The script. *)

Wanted == Required \o Optional
N == Len(Wanted)

\* One sequence after another, place by place.
LEMMA Joined ==
  ASSUME NEW S, NEW s \in Seq(S), NEW t \in Seq(S), NEW r, r = s \o t
  PROVE  /\ r \in Seq(S) /\ Len(r) = Len(s) + Len(t)
         /\ \A i \in 1..(Len(s) + Len(t)) : r[i] = IF i <= Len(s) THEN s[i] ELSE t[i - Len(s)]
BY ConcatProperties

LEMMA JoinedPlaces ==
  ASSUME NEW s, NEW t, NEW r, NEW m \in Nat, NEW n \in Nat,
         \A i \in 1..(m + n) : r[i] = IF i <= m THEN s[i] ELSE t[i - m]
  PROVE  (\A i \in 1..m : r[i] = s[i]) /\ (\A k \in 1..n : r[m + k] = t[k])
<1>1. \A i \in 1..m : i \in 1..(m + n) /\ i <= m
  OBVIOUS
<1>2. \A k \in 1..n : m + k \in 1..(m + n) /\ ~(m + k <= m) /\ (m + k) - m = k
  OBVIOUS
<1>3. \A i \in 1..m : r[i] = s[i]
  BY <1>1
<1>4. \A k \in 1..n : r[m + k] = t[k]
  BY <1>2
<1>5. QED
  BY <1>3, <1>4

LEMMA JoinedTo ==
  ASSUME NEW S, NEW s \in Seq(S), NEW t \in Seq(S), NEW r, r = s \o t, NEW m, NEW n, m = Len(s), n = Len(t)
  PROVE  /\ r \in Seq(S) /\ Len(r) = m + n
         /\ \A i \in 1..m : r[i] = s[i]
         /\ \A k \in 1..n : r[m + k] = t[k]
<1>1. m \in Nat /\ n \in Nat
  OBVIOUS
<1>2. /\ r \in Seq(S) /\ Len(r) = m + n
      /\ \A i \in 1..(m + n) : r[i] = IF i <= m THEN s[i] ELSE t[i - m]
  BY Joined
<1>3. (\A i \in 1..m : r[i] = s[i]) /\ (\A k \in 1..n : r[m + k] = t[k])
  BY <1>1, <1>2, JoinedPlaces
<1>4. QED
  BY <1>2, <1>3

LEMMA JoinedLen ==
  \A S : \A s, t \in Seq(S) : \A r : r = s \o t =>
    /\ r \in Seq(S) /\ Len(r) = Len(s) + Len(t)
    /\ \A i \in 1..Len(s) : r[i] = s[i]
    /\ \A i \in 1..Len(t) : r[Len(s) + i] = t[i]
BY JoinedTo

\* The second sequence follows the first.
Follows(r, s, t) ==
  /\ Len(r) = Len(s) + Len(t)
  /\ \A i \in 1..Len(s) : r[i] = s[i]
  /\ \A i \in 1..Len(t) : r[Len(s) + i] = t[i]

LEMMA JoinedFollows ==
  \A S : \A s, t \in Seq(S) : s \o t \in Seq(S) /\ Follows(s \o t, s, t)
<1> SUFFICES ASSUME NEW S, NEW s \in Seq(S), NEW t \in Seq(S) PROVE s \o t \in Seq(S) /\ Follows(s \o t, s, t)
  OBVIOUS
<1>1. PICK r : r = s \o t
  OBVIOUS
<1>2. r \in Seq(S) /\ Follows(r, s, t)
  BY <1>1, JoinedLen DEF Follows
<1>3. QED
  BY <1>1, <1>2

\* Five of them, of the lengths that the parts of the script have.
Five(a, b, c, d, e) == (((a \o b) \o c) \o d) \o e
FiveLengths(n, a, b, c, d, e) == Len(a) = 1 /\ Len(b) = n /\ Len(c) = 4 /\ Len(d) = 4 /\ Len(e) = 3
FivePlaces(s, n, a, b, c, d, e) ==
  /\ Len(s) = n + 12 /\ DOMAIN s = 1..(n + 12) /\ s[1] = a[1]
  /\ \A i \in 1..n : s[1 + i] = b[i]
  /\ \A k \in 1..4 : s[n + 1 + k] = c[k]
  /\ \A k \in 1..4 : s[n + 5 + k] = d[k]
  /\ s[n + 10] = e[1] /\ s[n + 11] = e[2] /\ s[n + 12] = e[3]

LEMMA FiveInPlace ==
  ASSUME NEW S, NEW n \in Nat,
         NEW a \in Seq(S), NEW b \in Seq(S), NEW c \in Seq(S), NEW d \in Seq(S), NEW e \in Seq(S),
         FiveLengths(n, a, b, c, d, e),
         NEW ab \in Seq(S), NEW abc \in Seq(S), NEW abcd \in Seq(S), NEW s \in Seq(S),
         Follows(ab, a, b), Follows(abc, ab, c), Follows(abcd, abc, d), Follows(s, abcd, e)
  PROVE  FivePlaces(s, n, a, b, c, d, e)
<1>0. Len(a) = 1 /\ Len(b) = n /\ Len(c) = 4 /\ Len(d) = 4 /\ Len(e) = 3
  BY DEF FiveLengths
<1>1. /\ Len(ab) = 1 + n /\ Len(abc) = (1 + n) + 4 /\ Len(abcd) = ((1 + n) + 4) + 4
      /\ Len(s) = n + 12 /\ DOMAIN s = 1..(n + 12)
  BY <1>0 DEF Follows
<1>2. (\A i \in 1..1 : ab[i] = a[i]) /\ (\A i \in 1..n : ab[1 + i] = b[i])
  BY <1>0 DEF Follows
<1>3. (\A i \in 1..(1 + n) : abc[i] = ab[i]) /\ (\A k \in 1..4 : abc[(1 + n) + k] = c[k])
  BY <1>0, <1>1 DEF Follows
<1>4. /\ \A i \in 1..((1 + n) + 4) : abcd[i] = abc[i]
      /\ \A k \in 1..4 : abcd[((1 + n) + 4) + k] = d[k]
  BY <1>0, <1>1 DEF Follows
<1>5. /\ \A i \in 1..(((1 + n) + 4) + 4) : s[i] = abcd[i]
      /\ \A k \in 1..3 : s[(((1 + n) + 4) + 4) + k] = e[k]
  BY <1>0, <1>1 DEF Follows
<1>6. s[n + 10] = e[1] /\ s[n + 11] = e[2] /\ s[n + 12] = e[3]
  <2>1. /\ s[(((1 + n) + 4) + 4) + 1] = e[1] /\ s[(((1 + n) + 4) + 4) + 2] = e[2]
        /\ s[(((1 + n) + 4) + 4) + 3] = e[3]
    BY <1>5
  <2>2. /\ n + 10 = (((1 + n) + 4) + 4) + 1 /\ n + 11 = (((1 + n) + 4) + 4) + 2
        /\ n + 12 = (((1 + n) + 4) + 4) + 3
    OBVIOUS
  <2>3. QED
    BY <2>1, <2>2, Zenon
<1>7. \A k \in 1..4 : s[n + 5 + k] = d[k]
  <2> TAKE k \in 1..4
  <2>1. n + 5 + k = ((1 + n) + 4) + k /\ n + 5 + k \in 1..(((1 + n) + 4) + 4)
    OBVIOUS
  <2>2. s[n + 5 + k] = abcd[n + 5 + k]
    BY <1>5, <2>1
  <2>3. abcd[((1 + n) + 4) + k] = d[k]
    BY <1>4
  <2>4. QED
    BY <2>1, <2>2, <2>3, Zenon
<1>8. \A k \in 1..4 : s[n + 1 + k] = c[k]
  <2> TAKE k \in 1..4
  <2>1. /\ n + 1 + k = (1 + n) + k
        /\ n + 1 + k \in 1..((1 + n) + 4) /\ n + 1 + k \in 1..(((1 + n) + 4) + 4)
    OBVIOUS
  <2>2. PICK i : i = n + 1 + k
    OBVIOUS
  <2>3. s[i] = abcd[i] /\ abcd[i] = abc[i]
    BY <1>4, <1>5, <2>1, <2>2
  <2>4. abc[i] = c[k]
    BY <1>3, <2>1, <2>2
  <2>5. QED
    BY <2>2, <2>3, <2>4, Zenon
<1>9. s[1] = a[1] /\ \A i \in 1..n : s[1 + i] = b[i]
  <2>1. \A i \in 1..(1 + n) : i \in 1..((1 + n) + 4) /\ i \in 1..(((1 + n) + 4) + 4)
    OBVIOUS
  <2>2. \A i \in 1..(1 + n) : s[i] = ab[i]
    BY <1>3, <1>4, <1>5, <2>1
  <2>3. 1 \in 1..1 /\ 1 \in 1..(1 + n) /\ \A i \in 1..n : 1 + i \in 1..(1 + n)
    OBVIOUS
  <2>4. s[1] = a[1]
    BY <1>2, <2>2, <2>3
  <2>5. ASSUME NEW i \in 1..n PROVE s[1 + i] = b[i]
    <3>1. s[1 + i] = ab[1 + i]
      BY <2>2, <2>3
    <3>2. ab[1 + i] = b[i]
      BY <1>2
    <3>3. QED
      BY <3>1, <3>2
  <2>6. QED
    BY <2>4, <2>5
<1>10. QED
  BY <1>1, <1>6, <1>7, <1>8, <1>9 DEF FivePlaces

LEMMA FiveJoined ==
  \A S : \A n \in Nat : \A a, b, c, d, e \in Seq(S) :
    FiveLengths(n, a, b, c, d, e) => FivePlaces(Five(a, b, c, d, e), n, a, b, c, d, e)
<1> SUFFICES ASSUME NEW S, NEW n \in Nat, NEW a \in Seq(S), NEW b \in Seq(S), NEW c \in Seq(S),
                    NEW d \in Seq(S), NEW e \in Seq(S), FiveLengths(n, a, b, c, d, e)
             PROVE  FivePlaces(Five(a, b, c, d, e), n, a, b, c, d, e)
  OBVIOUS
<1>1. PICK ab \in Seq(S) : ab = a \o b /\ Follows(ab, a, b)
  BY JoinedFollows
<1>2. PICK abc \in Seq(S) : abc = ab \o c /\ Follows(abc, ab, c)
  BY JoinedFollows
<1>3. PICK abcd \in Seq(S) : abcd = abc \o d /\ Follows(abcd, abc, d)
  BY JoinedFollows
<1>4. PICK s \in Seq(S) : s = abcd \o e /\ Follows(s, abcd, e)
  BY JoinedFollows
<1>5. s = Five(a, b, c, d, e)
  BY <1>1, <1>2, <1>3, <1>4 DEF Five
<1>6. FivePlaces(s, n, a, b, c, d, e)
  BY <1>1, <1>2, <1>3, <1>4, FiveInPlace
<1>7. QED
  BY <1>5, <1>6

\* The tests of a path.
LEMMA PathNames ==
  /\ DOMAIN PathTests = 1..4
  /\ \A k, l \in 1..4 : PathTests[k] = PathTests[l] => k = l
  /\ ToSet(PathTests) = {"exists", "directory", "readable", "writable"}
  /\ PathTests[4] = "writable" /\ Last(PathTests) = "writable"
<1>1. /\ DOMAIN PathTests = 1..4 /\ Len(PathTests) = 4
      /\ PathTests[1] = "exists" /\ PathTests[2] = "directory"
      /\ PathTests[3] = "readable" /\ PathTests[4] = "writable"
  BY DEF PathTests
<1>2. \A k \in 1..4 : k = 1 \/ k = 2 \/ k = 3 \/ k = 4
  OBVIOUS
<1>3. ToSet(PathTests) = {"exists", "directory", "readable", "writable"}
  <2>1. ToSet(PathTests) = {PathTests[k] : k \in 1..4}
    BY <1>1 DEF ToSet
  <2>2. QED
    BY <1>1, <1>2, <2>1
<1>4. ASSUME NEW k \in 1..4, NEW l \in 1..4, PathTests[k] = PathTests[l] PROVE k = l
  <2>1. CASE k = 1
    BY <1>1, <1>2, <1>4, <2>1
  <2>2. CASE k = 2
    BY <1>1, <1>2, <1>4, <2>2
  <2>3. CASE k = 3
    BY <1>1, <1>2, <1>4, <2>3
  <2>4. CASE k = 4
    BY <1>1, <1>2, <1>4, <2>4
  <2>5. QED
    BY <1>2, <2>1, <2>2, <2>3, <2>4
<1>5. Last(PathTests) = "writable"
  BY <1>1 DEF Last
<1>6. QED
  BY <1>1, <1>3, <1>4, <1>5

\* Its commands, by their places.
LEMMA ScriptShape ==
  /\ N \in Nat /\ Wanted \in [1..N -> STRING]
  /\ Len(remote_doctor_script) = N + 12 /\ DOMAIN remote_doctor_script = 1..(N + 12)
  /\ remote_doctor_script[1] = <<"print", "protocol">>
  /\ \A i \in 2..(N + 1) : remote_doctor_script[i] = <<"command", Wanted[i - 1]>>
  /\ \A k \in 1..4 : remote_doctor_script[N + 1 + k] = <<"test", "root", PathTests[k]>>
  /\ \A k \in 1..4 : remote_doctor_script[N + 5 + k] = <<"test", "workdir", PathTests[k]>>
  /\ remote_doctor_script[N + 10] = <<"find", "tar">>
  /\ remote_doctor_script[N + 11] = <<"ask", "version">>
  /\ remote_doctor_script[N + 12] = <<"ask", "help">>
<1> DEFINE a == <<<<"print", "protocol">>>>
           b == [i \in DOMAIN Wanted |-> <<"command", Wanted[i]>>]
           c == remote_path_probe("root")
           d == remote_path_probe("workdir")
           e == <<<<"find", "tar">>, <<"ask", "version">>, <<"ask", "help">>>>
           T == {a[1], e[1], e[2], e[3]} \cup {b[i] : i \in DOMAIN b}
                  \cup {c[k] : k \in DOMAIN c} \cup {d[k] : k \in DOMAIN d}
<1>1. Wanted \in Seq(STRING)
  <2>1. Required \in Seq(STRING) /\ Optional \in Seq(STRING)
    BY DoctorAssumption
  <2>2. QED
    BY <2>1, ConcatProperties DEF Wanted
<1>2. N \in Nat /\ Wanted \in [1..N -> STRING]
  BY <1>1 DEF N
<1>3. a \in Seq(T) /\ Len(a) = 1 /\ a[1] = <<"print", "protocol">>
  OBVIOUS
<1>4. b \in Seq(T) /\ Len(b) = N /\ \A i \in 1..N : b[i] = <<"command", Wanted[i]>>
  <2>1. b = [i \in 1..N |-> <<"command", Wanted[i]>>]
    BY <1>2
  <2>2. \A i \in 1..N : <<"command", Wanted[i]>> \in T
    BY <2>1
  <2> HIDE DEF T
  <2>3. QED
    BY <1>2, <2>1, <2>2
<1>5. DOMAIN PathTests = 1..4
  BY PathNames
<1>6. c \in Seq(T) /\ Len(c) = 4 /\ \A k \in 1..4 : c[k] = <<"test", "root", PathTests[k]>>
  <2>1. c = [k \in 1..4 |-> <<"test", "root", PathTests[k]>>]
    BY <1>5 DEF remote_path_probe
  <2>2. \A k \in 1..4 : <<"test", "root", PathTests[k]>> \in T
    BY <2>1
  <2> HIDE DEF T, c
  <2>3. QED
    BY <2>1, <2>2
<1>7. d \in Seq(T) /\ Len(d) = 4 /\ \A k \in 1..4 : d[k] = <<"test", "workdir", PathTests[k]>>
  <2>1. d = [k \in 1..4 |-> <<"test", "workdir", PathTests[k]>>]
    BY <1>5 DEF remote_path_probe
  <2>2. \A k \in 1..4 : <<"test", "workdir", PathTests[k]>> \in T
    BY <2>1
  <2> HIDE DEF T, d
  <2>3. QED
    BY <2>1, <2>2
<1>8. e \in Seq(T) /\ Len(e) = 3
      /\ e[1] = <<"find", "tar">> /\ e[2] = <<"ask", "version">> /\ e[3] = <<"ask", "help">>
  OBVIOUS
<1>9. remote_doctor_script = Five(a, b, c, d, e)
  BY DEF remote_doctor_script, Wanted, Five
<1> HIDE DEF T
<1>10. /\ Len(remote_doctor_script) = N + 12 /\ DOMAIN remote_doctor_script = 1..(N + 12)
       /\ remote_doctor_script[1] = a[1]
       /\ \A i \in 1..N : remote_doctor_script[1 + i] = b[i]
       /\ \A k \in 1..4 : remote_doctor_script[N + 1 + k] = c[k]
       /\ \A k \in 1..4 : remote_doctor_script[N + 5 + k] = d[k]
       /\ remote_doctor_script[N + 10] = e[1]
       /\ remote_doctor_script[N + 11] = e[2]
       /\ remote_doctor_script[N + 12] = e[3]
  <2> HIDE DEF a, b, c, d, e, N
  <2>1. /\ a \in Seq(T) /\ b \in Seq(T) /\ c \in Seq(T) /\ d \in Seq(T) /\ e \in Seq(T)
        /\ FiveLengths(N, a, b, c, d, e)
    BY <1>3, <1>4, <1>6, <1>7, <1>8 DEF FiveLengths
  <2>2. FivePlaces(Five(a, b, c, d, e), N, a, b, c, d, e)
    BY ONLY <1>2, <2>1, FiveJoined
  <2>3. FivePlaces(remote_doctor_script, N, a, b, c, d, e)
    BY <1>9, <2>2
  <2>4. QED
    BY <2>3 DEF FivePlaces
<1>11. \A i \in 2..(N + 1) : remote_doctor_script[i] = <<"command", Wanted[i - 1]>>
  <2> TAKE i \in 2..(N + 1)
  <2>1. i - 1 \in 1..N /\ 1 + (i - 1) = i
    BY <1>2
  <2>2. remote_doctor_script[1 + (i - 1)] = b[i - 1]
    BY <1>10, <2>1
  <2>3. b[i - 1] = <<"command", Wanted[i - 1]>>
    BY <1>4, <2>1
  <2>4. QED
    BY <2>1, <2>2, <2>3
<1>12. QED
  BY <1>2, <1>3, <1>6, <1>7, <1>8, <1>10, <1>11

\* The places of the script, and what is there.
Paths == {"root", "workdir"}
Place(p) == IF p = "root" THEN N + 1 ELSE N + 5

CommandAt(i) ==
  \/ i = 1 /\ remote_doctor_script[i] = <<"print", "protocol">>
  \/ i \in 2..(N + 1) /\ remote_doctor_script[i] = <<"command", Wanted[i - 1]>>
  \/ \E p \in Paths : \E k \in 1..4 : i = Place(p) + k /\ remote_doctor_script[i] = <<"test", p, PathTests[k]>>
  \/ i = N + 10 /\ remote_doctor_script[i] = <<"find", "tar">>
  \/ i = N + 11 /\ remote_doctor_script[i] = <<"ask", "version">>
  \/ i = N + 12 /\ remote_doctor_script[i] = <<"ask", "help">>

LEMMA ScriptPlaces ==
  /\ N \in Nat /\ Len(remote_doctor_script) = N + 12
  /\ \A i \in 1..(N + 12) : CommandAt(i)
<1>1. N \in Nat /\ Len(remote_doctor_script) = N + 12
  BY ScriptShape
<1>2. ASSUME NEW i \in 1..(N + 12) PROVE CommandAt(i)
  <2>1. \/ i = 1 \/ i \in 2..(N + 1) \/ i = N + 10 \/ i = N + 11 \/ i = N + 12
        \/ i - (N + 1) \in 1..4 \/ i - (N + 5) \in 1..4
    BY <1>1
  <2>2. CASE i - (N + 1) \in 1..4
    <3>1. PICK k \in 1..4 : k = i - (N + 1)
      BY <2>2
    <3>2. i = N + 1 + k /\ Place("root") = N + 1 /\ "root" \in Paths
      BY <1>1, <3>1 DEF Place, Paths
    <3>3. remote_doctor_script[i] = <<"test", "root", PathTests[k]>>
      BY <3>2, ScriptShape
    <3>4. QED
      BY <3>2, <3>3 DEF CommandAt
  <2>3. CASE i - (N + 5) \in 1..4
    <3>1. PICK k \in 1..4 : k = i - (N + 5)
      BY <2>3
    <3>2. i = N + 5 + k /\ Place("workdir") = N + 5 /\ "workdir" \in Paths
      BY <1>1, <3>1 DEF Place, Paths
    <3>3. remote_doctor_script[i] = <<"test", "workdir", PathTests[k]>>
      BY <3>2, ScriptShape
    <3>4. QED
      BY <3>2, <3>3 DEF CommandAt
  <2>4. CASE i \in 2..(N + 1)
    BY <2>4, ScriptShape DEF CommandAt
  <2>5. CASE i = 1 \/ i = N + 10 \/ i = N + 11 \/ i = N + 12
    BY <2>5, ScriptShape DEF CommandAt
  <2>6. QED
    BY <2>1, <2>2, <2>3, <2>4, <2>5
<1>3. QED
  BY <1>1, <1>2

LEMMA PlaceOrder ==
  /\ N \in Nat
  /\ \A p \in Paths : Place(p) \in Nat /\ Place(p) >= N + 1 /\ Place(p) + 4 <= N + 9
  /\ \A p, q \in Paths : \A k, l \in 1..4 : Place(p) + k = Place(q) + l => p = q /\ k = l
<1>1. N \in Nat
  BY ScriptShape
<1>2. Place("root") = N + 1 /\ Place("workdir") = N + 5
  BY DEF Place
<1>3. QED
  BY <1>1, <1>2 DEF Paths

\* Which commands are carried out where.
LEMMA StepKinds ==
  ASSUME step \in 1..(N + 13)
  PROVE  /\ Doing("print") => step = 1
         /\ Doing("command") => step \in 2..(N + 1) /\ Object = Wanted[step - 1]
         /\ Doing("test") =>
              \E p \in Paths : \E k \in 1..4 :
                step = Place(p) + k /\ Object = p /\ remote_doctor_script[step][3] = PathTests[k]
         /\ Doing("find") => step = N + 10
         /\ Doing("ask") => (step = N + 11 /\ Object = "version") \/ (step = N + 12 /\ Object = "help")
         /\ (\E p \in Paths : \E k \in 1..4 : step = Place(p) + k) /\ result = Pending => Doing("test")
         /\ \A w : Doing(w) => step \in 1..(N + 12) /\ result = Pending
<1>1. N \in Nat /\ Len(remote_doctor_script) = N + 12
  BY ScriptPlaces
<1>2. step <= Len(remote_doctor_script) => CommandAt(step)
  BY <1>1, ScriptPlaces
<1>3. ASSUME NEW w, Doing(w) PROVE step \in 1..(N + 12) /\ result = Pending
  BY <1>1, <1>3 DEF Doing
<1>4. (\E p \in Paths : \E k \in 1..4 : step = Place(p) + k) /\ result = Pending => Doing("test")
  <2>1. SUFFICES ASSUME NEW p \in Paths, NEW k \in 1..4, step = Place(p) + k, result = Pending
                 PROVE  Doing("test")
    OBVIOUS
  <2>2. step \in (N + 2)..(N + 9)
    BY <2>1, PlaceOrder
  <2>3. step <= Len(remote_doctor_script) /\ CommandAt(step)
    BY <1>1, <1>2, <2>2
  <2>4. remote_doctor_script[step][1] = "test"
    BY <1>1, <2>2, <2>3 DEF CommandAt
  <2>5. QED
    BY <2>1, <2>3, <2>4 DEF Doing
<1>5. ASSUME Doing("test")
      PROVE  \E p \in Paths : \E k \in 1..4 :
                step = Place(p) + k /\ Object = p /\ remote_doctor_script[step][3] = PathTests[k]
  <2>1. CommandAt(step) /\ remote_doctor_script[step][1] = "test"
    BY <1>2, <1>5 DEF Doing
  <2>2. PICK p \in Paths, k \in 1..4 :
          step = Place(p) + k /\ remote_doctor_script[step] = <<"test", p, PathTests[k]>>
    BY <2>1 DEF CommandAt
  <2>3. Object = p /\ remote_doctor_script[step][3] = PathTests[k]
    BY <2>2 DEF Object
  <2>4. QED
    BY <2>2, <2>3
<1>6. Doing("print") => step = 1
  BY <1>2 DEF Doing, CommandAt
<1>7. Doing("command") => step \in 2..(N + 1) /\ Object = Wanted[step - 1]
  BY <1>2 DEF Doing, Object, CommandAt
<1>8. Doing("find") => step = N + 10
  BY <1>2 DEF Doing, CommandAt
<1>9. Doing("ask") => (step = N + 11 /\ Object = "version") \/ (step = N + 12 /\ Object = "help")
  <2> SUFFICES ASSUME Doing("ask")
               PROVE  (step = N + 11 /\ Object = "version") \/ (step = N + 12 /\ Object = "help")
    OBVIOUS
  <2>1. CommandAt(step) /\ remote_doctor_script[step][1] = "ask"
    BY <1>2 DEF Doing
  <2>2. \/ step = N + 11 /\ remote_doctor_script[step] = <<"ask", "version">>
        \/ step = N + 12 /\ remote_doctor_script[step] = <<"ask", "help">>
    BY <2>1 DEF CommandAt
  <2>3. <<"ask", "version">>[2] = "version" /\ <<"ask", "help">>[2] = "help"
    OBVIOUS
  <2>4. QED
    BY <2>2, <2>3, Zenon DEF Object
<1>10. QED
  BY <1>3, <1>4, <1>5, <1>6, <1>7, <1>8, <1>9

-----------------------------------------------------------------------------
(* What is so at every step. *)

Told == DOMAIN past

\* A path was seen as T by its first k tests, the first of them not after the others.
Seen(p, T, k) ==
  /\ T \subseteq {PathTests[l] : l \in 1..k}
  /\ k = 0 \/ \E i \in Told :
       /\ PathTests[1] \in T <=> PathTests[1] \in past[i].paths[p]
       /\ \A l \in 2..k : \E j \in Told :
            j >= i /\ (PathTests[l] \in T <=> PathTests[l] \in past[j].paths[p])

\* What tar answers a question about its version, or an option.
VersionOf(s) == IF "tar" \in s.commands THEN s.tar.version ELSE "not found"
Offers(s, o) == "tar" \in s.commands /\ o \in s.tar.options

\* What a record says was so at some time.
Observed(r) ==
  \/ r = <<"protocol", 1>>
  \/ \E c \in Commands : \E b \in BOOLEAN :
       r = <<"command", c, b>> /\ \E i \in Told : b <=> c \in past[i].commands
  \/ \E p \in Paths : \E T \in SUBSET ToSet(PathTests) : r = <<"path", p, T>> /\ Seen(p, T, 4)
  \/ \E i \in Told : r = <<"tar-version", VersionOf(past[i])>>
  \/ \E o \in TarOptions : \E b \in BOOLEAN :
       r = <<"tar-option", o, b>> /\ \E i \in Told : b <=> Offers(past[i], o)

\* The server has a past, which ends with what it is like now.
PastInv ==
  /\ past \in Seq(Servers) /\ Len(past) >= 1 /\ server = past[Len(past)] /\ server \in Servers
  /\ step \in 1..(N + 13) /\ lost \in {"no", "cut", "lost"}

\* The tests that held are those of the path that is being looked at.
HeldInv ==
  /\ step \notin (N + 2)..(N + 9) => held = {}
  /\ \A p \in Paths : \A k \in 1..4 : step = Place(p) + k => Seen(p, held, k - 1)

ObservedInv == \A r \in reply : Observed(r)

\* tar was found before it was asked for its version, and for its help after that.
TarInv ==
  <<"command", "tar", TRUE>> \in reply =>
    \E i \in Told :
      /\ "tar" \in past[i].commands
      /\ \A v \in Reported("tar-version") :
           \E j \in Told :
             /\ j >= i /\ v = VersionOf(past[j])
             /\ \A o \in TarOptions : \A b \in BOOLEAN : <<"tar-option", o, b>> \in reply =>
                  \E k \in Told : k >= j /\ (b <=> Offers(past[k], o))

\* Nothing has been reported before its turn.
TurnInv ==
  /\ step <= 1 => Reported("protocol") = {}
  /\ \A i \in 1..N : step <= i + 1 => Wanted[i] \notin Reported("command")
  /\ \A p \in Paths : step <= Place(p) + 4 => p \notin Reported("path")
  /\ step <= N + 11 => Reported("tar-version") = {}
  /\ step <= N + 12 => Reported("tar-option") = {}

\* If something did not arrive, it is missing.
Absent ==
  \/ Reported("protocol") = {}
  \/ \E c \in Commands : c \notin Reported("command")
  \/ \E p \in Paths : p \notin Reported("path")
  \/ Reported("tar-version") = {}
  \/ Reported("tar-option") = {}
LostInv == lost = "lost" => Absent

\* A verdict is what doctor makes of a reply that is complete.
VerdictInv ==
  \/ result = Pending
  \/ result = [verdict |-> "failed", diagnostics |-> {}]
  \/ Complete /\ result = evaluate_doctor

\* Of two moments of the past that follow each other, one thing is different.
Differ(s, t) ==
  {c \in Commands : (c \in s.commands) # (c \in t.commands)}
    \cup {f \in {"tar's place"} : s.tar # t.tar}
    \cup {p \in Paths : s.paths[p] # t.paths[p]}
ChangeInv == \A i \in 1..(Len(past) - 1) : \E x : Differ(past[i + 1], past[i]) = {x}

DoctorInv ==
  /\ PastInv /\ HeldInv /\ ObservedInv /\ TarInv /\ TurnInv /\ LostInv /\ VerdictInv /\ ChangeInv

-----------------------------------------------------------------------------
(* What was so stays so. *)

PastKept == Told \subseteq Told' /\ \A i \in Told : past'[i] = past[i]

LEMMA SeenKept ==
  ASSUME PastKept, NEW p, NEW T, NEW k \in Nat, Seen(p, T, k) PROVE Seen(p, T, k)'
<1>1. T \subseteq {PathTests[l] : l \in 1..k}
  BY DEF Seen
<1>2. ASSUME k # 0
      PROVE  (\E i \in Told :
                /\ PathTests[1] \in T <=> PathTests[1] \in past[i].paths[p]
                /\ \A l \in 2..k : \E j \in Told :
                     j >= i /\ (PathTests[l] \in T <=> PathTests[l] \in past[j].paths[p]))'
  <2>1. PICK i \in Told :
          /\ PathTests[1] \in T <=> PathTests[1] \in past[i].paths[p]
          /\ \A l \in 2..k : \E j \in Told :
               j >= i /\ (PathTests[l] \in T <=> PathTests[l] \in past[j].paths[p])
    BY <1>2 DEF Seen
  <2>2. i \in Told' /\ past'[i] = past[i]
    BY DEF PastKept
  <2>3. ASSUME NEW l \in 2..k
        PROVE  \E j \in Told' : j >= i /\ (PathTests[l] \in T <=> PathTests[l] \in past'[j].paths[p])
    <3>1. PICK j \in Told : j >= i /\ (PathTests[l] \in T <=> PathTests[l] \in past[j].paths[p])
      BY <2>1
    <3>2. j \in Told' /\ past'[j] = past[j]
      BY DEF PastKept
    <3>3. QED
      BY <3>1, <3>2
  <2>4. QED
    BY <2>1, <2>2, <2>3
<1>3. QED
  BY <1>1, <1>2 DEF Seen

LEMMA ObservedKept ==
  ASSUME PastKept, NEW r, Observed(r) PROVE Observed(r)'
<1>1. CASE r = <<"protocol", 1>>
  BY <1>1 DEF Observed
<1>2. CASE \E c \in Commands : \E b \in BOOLEAN :
             r = <<"command", c, b>> /\ \E i \in Told : b <=> c \in past[i].commands
  <2>1. PICK c \in Commands, b \in BOOLEAN, i \in Told :
          r = <<"command", c, b>> /\ (b <=> c \in past[i].commands)
    BY <1>2
  <2>2. i \in Told' /\ past'[i] = past[i]
    BY DEF PastKept
  <2>3. QED
    BY <2>1, <2>2 DEF Observed
<1>3. CASE \E p \in Paths : \E T \in SUBSET ToSet(PathTests) : r = <<"path", p, T>> /\ Seen(p, T, 4)
  <2>1. PICK p \in Paths, T \in SUBSET ToSet(PathTests) : r = <<"path", p, T>> /\ Seen(p, T, 4)
    BY <1>3
  <2>2. Seen(p, T, 4)'
    BY <2>1, SeenKept
  <2>3. QED
    BY <2>1, <2>2 DEF Observed
<1>4. CASE \E i \in Told : r = <<"tar-version", VersionOf(past[i])>>
  <2>1. PICK i \in Told : r = <<"tar-version", VersionOf(past[i])>>
    BY <1>4
  <2>2. i \in Told' /\ past'[i] = past[i]
    BY DEF PastKept
  <2>3. QED
    BY <2>1, <2>2 DEF Observed
<1>5. CASE \E o \in TarOptions : \E b \in BOOLEAN :
             r = <<"tar-option", o, b>> /\ \E i \in Told : b <=> Offers(past[i], o)
  <2>1. PICK o \in TarOptions, b \in BOOLEAN, i \in Told :
          r = <<"tar-option", o, b>> /\ (b <=> Offers(past[i], o))
    BY <1>5
  <2>2. i \in Told' /\ past'[i] = past[i]
    BY DEF PastKept
  <2>3. QED
    BY <2>1, <2>2 DEF Observed
<1>6. QED
  BY <1>1, <1>2, <1>3, <1>4, <1>5 DEF Observed

LEMMA TarKept ==
  ASSUME PastKept, TarInv,
         <<"command", "tar", TRUE>> \in reply' => <<"command", "tar", TRUE>> \in reply,
         Reported("tar-version")' = Reported("tar-version"),
         \A o \in TarOptions : \A b \in BOOLEAN : <<"tar-option", o, b>> \in reply' => <<"tar-option", o, b>> \in reply
  PROVE  TarInv'
<1> SUFFICES ASSUME <<"command", "tar", TRUE>> \in reply'
             PROVE  \E i \in Told' :
                      /\ "tar" \in past'[i].commands
                      /\ \A v \in Reported("tar-version")' :
                           \E j \in Told' :
                             /\ j >= i /\ v = VersionOf(past'[j])
                             /\ \A o \in TarOptions : \A b \in BOOLEAN : <<"tar-option", o, b>> \in reply' =>
                                  \E k \in Told' : k >= j /\ (b <=> Offers(past'[k], o))
  BY DEF TarInv
<1>1. PICK i \in Told :
        /\ "tar" \in past[i].commands
        /\ \A v \in Reported("tar-version") :
             \E j \in Told :
               /\ j >= i /\ v = VersionOf(past[j])
               /\ \A o \in TarOptions : \A b \in BOOLEAN : <<"tar-option", o, b>> \in reply =>
                    \E k \in Told : k >= j /\ (b <=> Offers(past[k], o))
  BY DEF TarInv
<1>2. i \in Told' /\ "tar" \in past'[i].commands
  BY <1>1 DEF PastKept
<1>3. ASSUME NEW v \in Reported("tar-version")'
      PROVE  \E j \in Told' :
               /\ j >= i /\ v = VersionOf(past'[j])
               /\ \A o \in TarOptions : \A b \in BOOLEAN : <<"tar-option", o, b>> \in reply' =>
                    \E k \in Told' : k >= j /\ (b <=> Offers(past'[k], o))
  <2>1. PICK j \in Told :
          /\ j >= i /\ v = VersionOf(past[j])
          /\ \A o \in TarOptions : \A b \in BOOLEAN : <<"tar-option", o, b>> \in reply =>
               \E k \in Told : k >= j /\ (b <=> Offers(past[k], o))
    BY <1>1
  <2>2. j \in Told' /\ past'[j] = past[j]
    BY DEF PastKept
  <2>3. ASSUME NEW o \in TarOptions, NEW b \in BOOLEAN, <<"tar-option", o, b>> \in reply'
        PROVE  \E k \in Told' : k >= j /\ (b <=> Offers(past'[k], o))
    <3>1. PICK k \in Told : k >= j /\ (b <=> Offers(past[k], o))
      BY <2>1, <2>3
    <3>2. k \in Told' /\ past'[k] = past[k]
      BY DEF PastKept
    <3>3. QED
      BY <3>1, <3>2
  <2>4. QED
    BY <2>1, <2>2, <2>3
<1>4. QED
  BY <1>2, <1>3

\* Who speaks in turn leaves the others their turn.
LEMMA TurnKept ==
  ASSUME TurnInv, PastInv, step' \in Nat, step' >= step, NEW what, NEW X,
         \A k : Reported(k)' \subseteq Reported(k) \cup (IF k = what THEN X ELSE {}),
         what = "protocol" => step' > 1,
         what = "command" => \A i \in 1..N : Wanted[i] \in X => step' > i + 1,
         what = "path" => \A p \in Paths : p \in X => step' > Place(p) + 4,
         what = "tar-version" => step' > N + 11,
         what = "tar-option" => step' > N + 12
  PROVE  TurnInv'
<1>1. N \in Nat /\ step \in Nat
  BY ScriptShape DEF PastInv
<1>2. step' <= 1 => Reported("protocol")' = {}
  BY <1>1 DEF TurnInv
<1>3. \A i \in 1..N : step' <= i + 1 => Wanted[i] \notin Reported("command")'
  BY <1>1 DEF TurnInv
<1>4. \A p \in Paths : step' <= Place(p) + 4 => p \notin Reported("path")'
  BY <1>1, PlaceOrder DEF TurnInv
<1>5. step' <= N + 11 => Reported("tar-version")' = {}
  BY <1>1 DEF TurnInv
<1>6. step' <= N + 12 => Reported("tar-option")' = {}
  BY <1>1 DEF TurnInv
<1>7. QED
  BY <1>2, <1>3, <1>4, <1>5, <1>6 DEF TurnInv

LEMMA ReportedMore ==
  ASSUME NEW R, reply' \subseteq reply \cup R
  PROVE  \A k : Reported(k)' \subseteq Reported(k) \cup {r[2] : r \in {q \in R : q[1] = k}}
BY DEF Reported

LEMMA LostKept ==
  ASSUME LostInv, PastInv, NEW R, Say(R), lost = "cut" => Absent
  PROVE  LostInv' /\ lost' \in {"no", "cut", "lost"}
<1>1. CASE lost = "no"
  BY <1>1 DEF LostInv, Say
<1>2. CASE lost # "no"
  <2>1. reply' = reply /\ lost' = "lost"
    BY <1>2 DEF Say
  <2>2. Absent
    BY <1>2 DEF LostInv, PastInv
  <2>3. Absent'
    BY <2>1, <2>2 DEF Absent, Reported
  <2>4. QED
    BY <2>1, <2>3 DEF LostInv
<1>3. QED
  BY <1>1, <1>2

LEMMA Standing ==
  ASSUME UNCHANGED past PROVE PastKept /\ Told' = Told
BY DEF PastKept, Told

LEMMA LastTold ==
  ASSUME PastInv
  PROVE  Len(past) \in Told /\ Told = 1..Len(past) /\ server = past[Len(past)] /\ \A i \in Told : Len(past) >= i
BY DEF PastInv, Told

\* One more command has been carried out, and something may have been said.
LEMMA Walked ==
  ASSUME DoctorInv, Walk, NEW w, Doing(w), NEW R, reply' \subseteq reply \cup R, \A r \in R : Observed(r),
         lost' \in {"no", "cut", "lost"}
  PROVE  PastInv' /\ ObservedInv' /\ VerdictInv' /\ ChangeInv' /\ step' = step + 1 /\ step \in 1..(N + 12) /\ PastKept
<1>1. N \in Nat /\ step \in 1..(N + 12) /\ result = Pending
  BY ScriptShape, StepKinds DEF DoctorInv, PastInv
<1>2. step' = step + 1 /\ UNCHANGED <<server, result, past>>
  BY DEF Walk
<1>3. PastInv'
  BY <1>1, <1>2 DEF DoctorInv, PastInv
<1>4. PastKept
  BY <1>2, Standing
<1>5. ObservedInv'
  BY <1>4, ObservedKept DEF DoctorInv, ObservedInv
<1>6. VerdictInv'
  BY <1>1, <1>2 DEF VerdictInv
<1>7. ChangeInv'
  BY <1>2 DEF DoctorInv, ChangeInv
<1>8. QED
  BY <1>1, <1>2, <1>3, <1>4, <1>5, <1>6, <1>7

\* Nothing is held while no path is looked at.
LEMMA NotHeld ==
  ASSUME HeldInv, step \in 1..(N + 12), step' = step + 1, held' = held,
         step \notin (N + 2)..(N + 9)
  PROVE  HeldInv'
<1>1. N \in Nat /\ held' = {}
  BY ScriptShape DEF HeldInv
<1>2. ASSUME NEW p \in Paths, NEW k \in 1..4, step' = Place(p) + k PROVE Seen(p, held, k - 1)'
  <2>1. step = N + 1 /\ k = 1
    BY <1>1, <1>2, PlaceOrder
  <2>2. QED
    BY <1>1, <2>1 DEF Seen
<1>3. step' \notin (N + 2)..(N + 9) => held' = {}
  BY <1>1
<1>4. QED
  BY <1>2, <1>3 DEF HeldInv

\* One record more.
LEMMA ReportedOne ==
  ASSUME NEW r, reply' \subseteq reply \cup {r}
  PROVE  \A k : Reported(k)' \subseteq Reported(k) \cup (IF k = r[1] THEN {r[2]} ELSE {})
BY DEF Reported

LEMMA ProtocolKeeps ==
  ASSUME DoctorInv, SayProtocol PROVE DoctorInv'
<1> DEFINE R == {<<"protocol", 1>>}
<1>1. Doing("print") /\ Say(R) /\ Walk /\ held' = held
  BY DEF SayProtocol
<1>2. PastInv /\ HeldInv /\ TarInv /\ TurnInv /\ LostInv
  BY DEF DoctorInv
<1>3. step = 1 /\ N \in Nat
  BY <1>1, <1>2, StepKinds, ScriptShape DEF PastInv
<1>4. lost = "cut" => Absent
  BY <1>2, <1>3 DEF TurnInv, Absent
<1>5. LostInv' /\ lost' \in {"no", "cut", "lost"}
  <2> HIDE DEF R
  <2>1. QED
    BY <1>1, <1>2, <1>4, LostKept
<1>6. reply' \subseteq reply \cup R /\ \A r \in R : Observed(r)
  BY <1>1 DEF Say, Observed
<1>7. PastInv' /\ ObservedInv' /\ VerdictInv' /\ ChangeInv' /\ step' = step + 1 /\ PastKept
  <2> HIDE DEF R
  <2>1. QED
    BY <1>1, <1>5, <1>6, Walked
<1>8. \A k : Reported(k)' \subseteq Reported(k) \cup (IF k = "protocol" THEN {1} ELSE {})
  <2>1. PICK r : r = <<"protocol", 1>>
    OBVIOUS
  <2>2. r[1] = "protocol" /\ r[2] = 1
    BY <2>1
  <2>3. reply' \subseteq reply \cup {r}
    BY <1>6, <2>1
  <2>4. QED
    BY <2>2, <2>3, ReportedOne
<1>9. TurnInv'
  BY <1>2, <1>3, <1>7, <1>8, TurnKept
<1>10. TarInv'
  <2>1. \A x : x \in reply' => x \in reply \/ x = <<"protocol", 1>>
    BY <1>6
  <2>2. Reported("tar-version")' = Reported("tar-version")
    <3>1. reply \subseteq reply'
      BY <1>1 DEF Say
    <3>2. QED
      BY <3>1, <1>8 DEF Reported
  <2>3. <<"command", "tar", TRUE>> # <<"protocol", 1>> /\ \A o, b : <<"tar-option", o, b>> # <<"protocol", 1>>
    OBVIOUS
  <2>4. QED
    BY <1>2, <1>7, <2>1, <2>2, <2>3, TarKept
<1>11. HeldInv'
  BY <1>1, <1>2, <1>3, <1>7, NotHeld
<1>12. QED
  BY <1>5, <1>7, <1>9, <1>10, <1>11 DEF DoctorInv

\* The commands that are looked for.
LEMMA WantedCommands ==
  /\ \A i, j \in 1..N : Wanted[i] = Wanted[j] => i = j
  /\ \A i \in 1..N : Wanted[i] \in Commands
  /\ "tar" \in Commands /\ ToSet(Required) \subseteq Commands
<1>1. Required \in Seq(STRING) /\ Optional \in Seq(STRING)
  BY DoctorAssumption
<1>2. Follows(Wanted, Required, Optional) /\ Wanted \in Seq(STRING)
  BY <1>1, JoinedFollows DEF Wanted
<1>3. DOMAIN Wanted = 1..N
  BY <1>2 DEF N
<1>4. \A i, j \in 1..N : Wanted[i] = Wanted[j] => i = j
  <2>1. \A i, j \in DOMAIN Wanted : Wanted[i] = Wanted[j] => i = j
    BY DoctorAssumption DEF Wanted
  <2>2. QED
    BY <1>3, <2>1
<1>5. ASSUME NEW i \in 1..N PROVE Wanted[i] \in Commands
  <2>1. N = Len(Required) + Len(Optional)
    BY <1>2 DEF Follows, N
  <2>2. CASE i \in 1..Len(Required)
    <3>1. Wanted[i] = Required[i] /\ i \in DOMAIN Required
      BY <1>1, <1>2, <2>2 DEF Follows
    <3>2. QED
      BY <3>1 DEF Commands, ToSet
  <2>3. CASE i - Len(Required) \in 1..Len(Optional)
    <3>1. PICK l \in 1..Len(Optional) : l = i - Len(Required)
      BY <2>3
    <3>2. i = Len(Required) + l
      BY <1>1, <3>1
    <3>3. Wanted[i] = Optional[l] /\ l \in DOMAIN Optional
      BY <1>1, <1>2, <3>2 DEF Follows
    <3>4. QED
      BY <3>3 DEF Commands, ToSet
  <2>4. i \in 1..Len(Required) \/ i - Len(Required) \in 1..Len(Optional)
    BY <1>1, <2>1
  <2>5. QED
    BY <2>2, <2>3, <2>4
<1>6. "tar" \in Commands /\ ToSet(Required) \subseteq Commands
  BY DoctorAssumption DEF Commands
<1>7. QED
  BY <1>4, <1>5, <1>6

LEMMA CommandKeeps ==
  ASSUME DoctorInv, FindCommand PROVE DoctorInv'
<1>1. PICK c : c = Object
  OBVIOUS
<1>2. PICK r : r = <<"command", c, c \in server.commands>>
  OBVIOUS
<1>3. Doing("command") /\ Say({r}) /\ Walk /\ held' = held
  BY <1>1, <1>2 DEF FindCommand
<1>4. PastInv /\ HeldInv /\ ObservedInv /\ TarInv /\ TurnInv /\ LostInv
  BY DEF DoctorInv
<1>5. step \in 2..(N + 1) /\ c = Wanted[step - 1] /\ N \in Nat
  BY <1>1, <1>3, <1>4, StepKinds, ScriptShape DEF PastInv
<1>6. step - 1 \in 1..N /\ c \in Commands
  BY <1>5, WantedCommands
<1>7. lost = "cut" => Absent
  <2>1. c \notin Reported("command")
    BY <1>4, <1>5, <1>6 DEF TurnInv
  <2>2. QED
    BY <1>6, <2>1 DEF Absent
<1>8. LostInv' /\ lost' \in {"no", "cut", "lost"}
  BY <1>3, <1>4, <1>7, LostKept
<1>9. reply' \subseteq reply \cup {r} /\ reply \subseteq reply'
  BY <1>3 DEF Say
<1>10. Observed(r)
  <2>1. Len(past) \in Told /\ server = past[Len(past)]
    BY <1>4, LastTold
  <2>2. CASE c \in server.commands
    <3>1. r = <<"command", c, TRUE>>
      BY <1>2, <2>2
    <3>2. QED
      BY <1>6, <2>1, <2>2, <3>1 DEF Observed
  <2>3. CASE c \notin server.commands
    <3>1. (c \in server.commands) = FALSE
      BY <2>3
    <3>2. r = <<"command", c, FALSE>>
      BY <1>2, <3>1, Zenon
    <3>3. QED
      BY <1>6, <2>1, <2>3, <3>2 DEF Observed
  <2>4. QED
    BY <2>2, <2>3
<1>11. PastInv' /\ ObservedInv' /\ VerdictInv' /\ ChangeInv' /\ step' = step + 1 /\ PastKept
  <2>1. PICK R : R = {r}
    OBVIOUS
  <2>2. reply' \subseteq reply \cup R /\ \A q \in R : Observed(q)
    BY <1>9, <1>10, <2>1
  <2>3. QED
    BY <1>3, <1>8, <2>2, Walked
<1>12. \A k : Reported(k)' \subseteq Reported(k) \cup (IF k = "command" THEN {c} ELSE {})
  <2>1. r[1] = "command" /\ r[2] = c
    BY <1>2
  <2>2. QED
    BY <1>9, <2>1, ReportedOne
<1>13. TurnInv'
  <2>1. \A i \in 1..N : Wanted[i] \in {c} => step' > i + 1
    BY <1>5, <1>6, <1>11, WantedCommands
  <2>2. step' \in Nat /\ step' >= step
    BY <1>5, <1>11
  <2>3. PICK X : X = {c}
    OBVIOUS
  <2>4. QED
    BY <1>4, <1>12, <2>1, <2>2, <2>3, TurnKept
<1>14. TarInv'
  <2>1. Reported("tar-version")' = {}
    BY <1>4, <1>5, <1>12 DEF TurnInv
  <2>2. ASSUME <<"command", "tar", TRUE>> \in reply' PROVE \E i \in Told' : "tar" \in past'[i].commands
    <3>1. Observed(<<"command", "tar", TRUE>>)'
      BY <1>11, <2>2 DEF ObservedInv
    <3>2. QED
      BY <3>1 DEF Observed
  <2>3. QED
    BY <2>1, <2>2 DEF TarInv
<1>15. HeldInv'
  BY <1>3, <1>4, <1>5, <1>11, NotHeld
<1>16. QED
  BY <1>8, <1>11, <1>13, <1>14, <1>15 DEF DoctorInv

\* One test more.
LEMMA SeenNext ==
  ASSUME PastInv, NEW p, NEW k \in 1..4, NEW T, Seen(p, T, k - 1),
         NEW U, U = T \cup (server.paths[p] \cap {PathTests[k]})
  PROVE  Seen(p, U, k)
<1>1. T \subseteq {PathTests[l] : l \in 1..(k - 1)}
  BY DEF Seen
<1>2. \A l \in 1..4 : PathTests[l] = PathTests[k] => l = k
  BY PathNames
<1>3. \A l \in 1..(k - 1) : l \in 1..4 /\ l # k
  OBVIOUS
<1>4. PathTests[k] \notin T
  BY <1>1, <1>2, <1>3
<1>5. U \subseteq {PathTests[l] : l \in 1..k}
  BY <1>1
<1>6. \A l \in 1..(k - 1) : PathTests[l] \in U <=> PathTests[l] \in T
  BY <1>2, <1>3
<1>7. /\ Len(past) \in Told /\ \A i \in Told : Len(past) >= i
      /\ PathTests[k] \in U <=> PathTests[k] \in past[Len(past)].paths[p]
  BY <1>4, LastTold
<1>8. CASE k = 1
  BY <1>5, <1>7, <1>8 DEF Seen
<1>9. CASE k # 1
  <2>1. PICK i \in Told :
          /\ PathTests[1] \in T <=> PathTests[1] \in past[i].paths[p]
          /\ \A l \in 2..(k - 1) : \E j \in Told :
               j >= i /\ (PathTests[l] \in T <=> PathTests[l] \in past[j].paths[p])
    BY <1>9 DEF Seen
  <2>2. PathTests[1] \in U <=> PathTests[1] \in past[i].paths[p]
    BY <1>6, <1>9, <2>1
  <2>3. ASSUME NEW l \in 2..k
        PROVE  \E j \in Told : j >= i /\ (PathTests[l] \in U <=> PathTests[l] \in past[j].paths[p])
    <3>1. CASE l = k
      BY <1>7, <3>1
    <3>2. CASE l # k
      <4>1. l \in 2..(k - 1) /\ l \in 1..(k - 1)
        BY <3>2
      <4>2. QED
        BY <1>6, <2>1, <4>1
    <3>3. QED
      BY <3>1, <3>2
  <2>4. QED
    BY <1>5, <2>2, <2>3 DEF Seen
<1>10. QED
  BY <1>8, <1>9

\* A test that is not the last one of its path.
LEMMA TestKeeps ==
  ASSUME DoctorInv, TestPath, reply' = reply, lost' = lost,
         NEW p \in Paths, NEW k \in 1..3, step = Place(p) + k,
         held' = held \cup (server.paths[p] \cap {PathTests[k]})
  PROVE  DoctorInv'
<1>1. Doing("test") /\ Walk
  BY DEF TestPath
<1>2. PastInv /\ HeldInv /\ ObservedInv /\ TarInv /\ TurnInv /\ LostInv /\ lost' \in {"no", "cut", "lost"}
  BY DEF DoctorInv, PastInv
<1>3. PastInv' /\ ObservedInv' /\ VerdictInv' /\ ChangeInv' /\ step' = step + 1 /\ step \in 1..(N + 12) /\ PastKept
  <2>1. PICK R : R = {}
    OBVIOUS
  <2>2. reply' \subseteq reply \cup R /\ \A r \in R : Observed(r)
    BY <2>1
  <2>3. QED
    BY <1>1, <1>2, <2>2, Walked
<1>4. \A w : Reported(w)' = Reported(w)
  BY DEF Reported
<1>5. TurnInv'
  <2>1. step' \in Nat /\ step' >= step
    BY <1>3
  <2>2. \A w : Reported(w)' \subseteq Reported(w) \cup (IF w = "nothing" THEN {} ELSE {})
    BY <1>4
  <2>3. QED
    BY <1>2, <2>1, <2>2, TurnKept
<1>6. TarInv'
  BY <1>2, <1>3, <1>4, TarKept
<1>7. LostInv'
  BY <1>2 DEF LostInv, Absent, Reported
<1>8. HeldInv'
  <2>1. Seen(p, held, k - 1)
    BY <1>2 DEF HeldInv
  <2>2. PICK U : U = held'
    OBVIOUS
  <2>3. Seen(p, U, k)
    BY <1>2, <2>1, <2>2, SeenNext
  <2>4. Seen(p, U, k)'
    BY <1>3, <2>3, SeenKept
  <2>5. Seen(p, held, k)'
    BY <2>2, <2>4 DEF Seen
  <2>6. step' = Place(p) + (k + 1) /\ k + 1 \in 1..4 /\ (k + 1) - 1 = k
    BY <1>3, PlaceOrder
  <2>7. \A q \in Paths : \A l \in 1..4 : step' = Place(q) + l => q = p /\ l - 1 = k
    BY <2>6, PlaceOrder
  <2>8. step' \in (N + 2)..(N + 9)
    BY <2>6, PlaceOrder
  <2>9. QED
    BY <2>5, <2>7, <2>8 DEF HeldInv
<1>9. QED
  BY <1>3, <1>5, <1>6, <1>7, <1>8 DEF DoctorInv

\* The last one, and the record of them all.
LEMMA PathKeeps ==
  ASSUME DoctorInv, TestPath, NEW p \in Paths, step = Place(p) + 4,
         NEW T, T = held \cup (server.paths[p] \cap {PathTests[4]}), Say({<<"path", p, T>>}), held' = {}
  PROVE  DoctorInv'
<1>1. PICK r : r = <<"path", p, T>>
  OBVIOUS
<1>2. Doing("test") /\ Walk /\ Say({r})
  BY <1>1 DEF TestPath
<1>3. PastInv /\ HeldInv /\ ObservedInv /\ TarInv /\ TurnInv /\ LostInv
  BY DEF DoctorInv
<1>4. lost = "cut" => Absent
  BY <1>3, PlaceOrder DEF TurnInv, Absent
<1>5. LostInv' /\ lost' \in {"no", "cut", "lost"}
  BY <1>2, <1>3, <1>4, LostKept
<1>6. reply' \subseteq reply \cup {r} /\ reply \subseteq reply'
  BY <1>2 DEF Say
<1>7. Observed(r)
  <2>1. Seen(p, held, 3)
    <3>1. 4 \in 1..4 /\ 4 - 1 = 3
      OBVIOUS
    <3>2. QED
      BY <1>3, <3>1 DEF HeldInv
  <2>2. Seen(p, T, 4)
    BY <1>3, <2>1, SeenNext
  <2>3. T \subseteq ToSet(PathTests)
    BY <2>2, PathNames DEF Seen, ToSet
  <2>4. QED
    BY <1>1, <2>2, <2>3 DEF Observed
<1>8. PastInv' /\ ObservedInv' /\ VerdictInv' /\ ChangeInv' /\ step' = step + 1 /\ step \in 1..(N + 12) /\ PastKept
  <2>1. PICK R : R = {r}
    OBVIOUS
  <2>2. reply' \subseteq reply \cup R /\ \A q \in R : Observed(q)
    BY <1>6, <1>7, <2>1
  <2>3. QED
    BY <1>2, <1>5, <2>2, Walked
<1>9. \A w : Reported(w)' \subseteq Reported(w) \cup (IF w = "path" THEN {p} ELSE {})
  <2>1. r[1] = "path" /\ r[2] = p
    BY <1>1
  <2>2. QED
    BY <1>6, <2>1, ReportedOne
<1>10. TurnInv'
  <2>1. step' \in Nat /\ step' >= step /\ step' > Place(p) + 4
    BY <1>8, PlaceOrder
  <2>2. PICK X : X = {p}
    OBVIOUS
  <2>3. \A q \in Paths : q \in X => step' > Place(q) + 4
    BY <2>1, <2>2
  <2>4. QED
    BY <1>3, <1>9, <2>1, <2>2, <2>3, TurnKept
<1>11. TarInv'
  <2>1. Reported("tar-version")' = Reported("tar-version")
    BY <1>6, <1>9 DEF Reported
  <2>2. <<"command", "tar", TRUE>>[1] = "command" /\ \A o, b : <<"tar-option", o, b>>[1] = "tar-option"
    OBVIOUS
  <2>3. <<"command", "tar", TRUE>> # r /\ \A o, b : <<"tar-option", o, b>> # r
    <3>1. r[1] = "path"
      BY <1>1
    <3>2. QED
      BY <2>2, <3>1
  <2>4. QED
    BY <1>3, <1>6, <1>8, <2>1, <2>3, TarKept
<1>12. HeldInv'
  <2>1. step' = Place(p) + 5
    BY <1>8, PlaceOrder
  <2>2. ASSUME NEW q \in Paths, NEW l \in 1..4, step' = Place(q) + l PROVE l = 1
    BY <2>1, <2>2, PlaceOrder DEF Place, Paths
  <2>3. held' = {} /\ \A q \in Paths : Seen(q, held, 0)'
    BY DEF Seen
  <2>4. QED
    BY <2>2, <2>3 DEF HeldInv
<1>13. QED
  BY <1>5, <1>8, <1>10, <1>11, <1>12 DEF DoctorInv

LEMMA TestPathKeeps ==
  ASSUME DoctorInv, TestPath PROVE DoctorInv'
<1>1. PICK p \in Paths, k \in 1..4 :
        step = Place(p) + k /\ Object = p /\ remote_doctor_script[step][3] = PathTests[k]
  BY StepKinds DEF TestPath, DoctorInv, PastInv
<1>2. PICK T : T = held \cup (server.paths[p] \cap {PathTests[k]})
  OBVIOUS
<1>3. PathTests[k] = Last(PathTests) <=> k = 4
  <2>1. 4 \in 1..4 /\ Last(PathTests) = PathTests[4]
    BY PathNames
  <2>2. QED
    BY <2>1, PathNames
<1>4. CASE k = 4
  <2>1. Say({<<"path", p, T>>}) /\ held' = {}
    BY <1>1, <1>2, <1>3, <1>4 DEF TestPath
  <2>2. step = Place(p) + 4 /\ T = held \cup (server.paths[p] \cap {PathTests[4]})
    BY <1>1, <1>2, <1>4
  <2>3. QED
    BY <2>1, <2>2, PathKeeps
<1>5. CASE k # 4
  <2>1. held' = T /\ reply' = reply /\ lost' = lost
    BY <1>1, <1>2, <1>3, <1>5 DEF TestPath
  <2>2. k \in 1..3
    BY <1>5
  <2>3. QED
    BY <1>1, <1>2, <2>1, <2>2, TestKeeps
<1>6. QED
  BY <1>4, <1>5

LEMMA FindTarKeeps ==
  ASSUME DoctorInv, FindTar PROVE DoctorInv'
<1>1. Doing("find") /\ UNCHANGED <<server, held, reply, lost, result, past>>
  BY DEF FindTar
<1>2. PastInv /\ HeldInv /\ ObservedInv /\ TarInv /\ TurnInv /\ LostInv /\ VerdictInv /\ ChangeInv
  BY DEF DoctorInv
<1>3. step = N + 10 /\ N \in Nat /\ Len(remote_doctor_script) = N + 12
  BY <1>1, <1>2, StepKinds, ScriptShape DEF PastInv
<1>4. step' \in (N + 11)..(N + 13)
  BY <1>3 DEF FindTar
<1>5. PastKept /\ Told' = Told
  BY <1>1, Standing
<1>6. PastInv'
  BY <1>1, <1>2, <1>3, <1>4 DEF PastInv
<1>7. HeldInv'
  <2>1. held' = {}
    BY <1>1, <1>2, <1>3 DEF HeldInv
  <2>2. \A p \in Paths : \A k \in 1..4 : step' # Place(p) + k
    BY <1>4, PlaceOrder
  <2>3. QED
    BY <2>1, <2>2 DEF HeldInv
<1>8. ObservedInv'
  BY <1>1, <1>2, <1>5, ObservedKept DEF ObservedInv
<1>9. \A w : Reported(w)' = Reported(w)
  BY <1>1 DEF Reported
<1>10. TarInv'
  BY <1>1, <1>2, <1>5, <1>9, TarKept
<1>11. TurnInv'
  <2>1. step' \in Nat /\ step' >= step
    BY <1>3, <1>4
  <2>2. \A w : Reported(w)' \subseteq Reported(w) \cup (IF w = "nothing" THEN {} ELSE {})
    BY <1>9
  <2>3. QED
    BY <1>2, <2>1, <2>2, TurnKept
<1>12. LostInv'
  BY <1>1, <1>2 DEF LostInv, Absent, Reported
<1>13. VerdictInv' /\ ChangeInv'
  <2>1. result = Pending
    BY <1>1 DEF Doing
  <2>2. QED
    BY <1>1, <1>2, <2>1 DEF VerdictInv, ChangeInv
<1>14. QED
  BY <1>6, <1>7, <1>8, <1>10, <1>11, <1>12, <1>13 DEF DoctorInv

LEMMA VersionKeeps ==
  ASSUME DoctorInv, Doing("ask"), step = N + 11, Walk, held' = held,
         NEW r, r = <<"tar-version", VersionOf(server)>>, Say({r})
  PROVE  DoctorInv'
<1>1. PastInv /\ HeldInv /\ ObservedInv /\ TarInv /\ TurnInv /\ LostInv /\ N \in Nat
  BY ScriptShape DEF DoctorInv
<1>2. Reported("tar-version") = {} /\ Reported("tar-option") = {}
  BY <1>1 DEF TurnInv
<1>3. LostInv' /\ lost' \in {"no", "cut", "lost"}
  <2>1. lost = "cut" => Absent
    BY <1>2 DEF Absent
  <2>2. QED
    BY <1>1, <2>1, LostKept
<1>4. reply' \subseteq reply \cup {r} /\ reply \subseteq reply'
  BY DEF Say
<1>5. Len(past) \in Told /\ server = past[Len(past)] /\ \A i \in Told : Len(past) >= i
  BY <1>1, LastTold
<1>6. Observed(r)
  BY <1>5 DEF Observed
<1>7. PastInv' /\ ObservedInv' /\ VerdictInv' /\ ChangeInv' /\ step' = step + 1 /\ PastKept
  <2>1. PICK R : R = {r}
    OBVIOUS
  <2>2. reply' \subseteq reply \cup R /\ \A q \in R : Observed(q)
    BY <1>4, <1>6, <2>1
  <2>3. QED
    BY <1>3, <2>2, Walked
<1>8. \A w : Reported(w)' \subseteq Reported(w) \cup (IF w = "tar-version" THEN {VersionOf(server)} ELSE {})
  <2>1. r[1] = "tar-version" /\ r[2] = VersionOf(server)
    OBVIOUS
  <2>2. QED
    BY <1>4, <2>1, ReportedOne
<1>9. TurnInv'
  <2>1. step' \in Nat /\ step' >= step /\ step' > N + 11
    BY <1>1, <1>7
  <2>2. PICK X : X = {VersionOf(server)}
    OBVIOUS
  <2>3. QED
    BY <1>1, <1>8, <2>1, <2>2, TurnKept
<1>10. TarInv'
  <2> SUFFICES ASSUME <<"command", "tar", TRUE>> \in reply'
               PROVE  \E i \in Told' :
                        /\ "tar" \in past'[i].commands
                        /\ \A v \in Reported("tar-version")' :
                             \E j \in Told' :
                               /\ j >= i /\ v = VersionOf(past'[j])
                               /\ \A o \in TarOptions : \A b \in BOOLEAN : <<"tar-option", o, b>> \in reply' =>
                                    \E k \in Told' : k >= j /\ (b <=> Offers(past'[k], o))
    BY DEF TarInv
  <2>1. past' = past /\ Told' = Told
    BY Standing DEF Walk
  <2>2. r[1] = "tar-version"
    OBVIOUS
  <2>3. <<"command", "tar", TRUE>>[1] = "command" /\ \A o, b : <<"tar-option", o, b>>[1] = "tar-option"
    OBVIOUS
  <2>4. <<"command", "tar", TRUE>> \in reply
    BY <1>4, <2>2, <2>3
  <2>5. PICK i \in Told : "tar" \in past[i].commands
    BY <1>1, <2>4 DEF TarInv
  <2>6. ASSUME NEW o, NEW b PROVE <<"tar-option", o, b>> \notin reply'
    <3>1. PICK q : q = <<"tar-option", o, b>>
      OBVIOUS
    <3>2. q[1] = "tar-option"
      BY <3>1
    <3>3. q \notin reply
      BY <1>2, <3>2 DEF Reported
    <3>4. q # r
      BY <2>2, <3>2
    <3>5. QED
      BY <1>4, <3>1, <3>3, <3>4
  <2>7. \A v \in Reported("tar-version")' : v = VersionOf(past[Len(past)])
    BY <1>2, <1>5, <1>8
  <2>8. QED
    BY <1>5, <2>1, <2>5, <2>6, <2>7
<1>11. HeldInv'
  BY <1>1, <1>7, NotHeld
<1>12. QED
  BY <1>3, <1>7, <1>9, <1>10, <1>11 DEF DoctorInv

LEMMA OptionsKeeps ==
  ASSUME DoctorInv, Doing("ask"), step = N + 12, Walk, held' = held,
         NEW R, R = {<<"tar-option", o, Offers(server, o)>> : o \in TarOptions}, Say(R)
  PROVE  DoctorInv'
<1>1. PastInv /\ HeldInv /\ ObservedInv /\ TarInv /\ TurnInv /\ LostInv /\ N \in Nat
  BY ScriptShape DEF DoctorInv
<1>2. Reported("tar-option") = {}
  BY <1>1 DEF TurnInv
<1>3. LostInv' /\ lost' \in {"no", "cut", "lost"}
  <2>1. lost = "cut" => Absent
    BY <1>2 DEF Absent
  <2>2. QED
    BY <1>1, <2>1, LostKept
<1>4. reply' \subseteq reply \cup R /\ reply \subseteq reply'
  BY DEF Say
<1>5. Len(past) \in Told /\ server = past[Len(past)] /\ \A i \in Told : Len(past) >= i
  BY <1>1, LastTold
<1>6. ASSUME NEW q \in R
      PROVE  Observed(q) /\ q[1] = "tar-option"
             /\ \A o, b : q = <<"tar-option", o, b>> => (b <=> Offers(server, o))
  <2>1. PICK o \in TarOptions : q = <<"tar-option", o, Offers(server, o)>>
    OBVIOUS
  <2>2. PICK b : b = Offers(server, o)
    OBVIOUS
  <2>3. b \in BOOLEAN
    BY <2>2 DEF Offers
  <2>4. q = <<"tar-option", o, b>>
    BY <2>1, <2>2
  <2>5. b <=> Offers(past[Len(past)], o)
    BY <1>5, <2>2
  <2>6. Observed(q)
    BY <1>5, <2>3, <2>4, <2>5 DEF Observed
  <2>7. \A p, c : q = <<"tar-option", p, c>> => p = o /\ c = b
    BY <2>4
  <2>8. q[1] = "tar-option"
    BY <2>4
  <2>9. QED
    BY <1>5, <2>5, <2>6, <2>7, <2>8
<1>7. PastInv' /\ ObservedInv' /\ VerdictInv' /\ ChangeInv' /\ step' = step + 1 /\ PastKept
  BY <1>3, <1>4, <1>6, Walked
<1>8. \A w : Reported(w)' \subseteq Reported(w) \cup (IF w = "tar-option" THEN {q[2] : q \in R} ELSE {})
  BY <1>4, <1>6 DEF Reported
<1>9. TurnInv'
  <2>1. step' \in Nat /\ step' >= step /\ step' > N + 12
    BY <1>1, <1>7
  <2>2. PICK X : X = {q[2] : q \in R}
    OBVIOUS
  <2>3. QED
    BY <1>1, <1>8, <2>1, <2>2, TurnKept
<1>10. TarInv'
  <2> SUFFICES ASSUME <<"command", "tar", TRUE>> \in reply'
               PROVE  \E i \in Told' :
                        /\ "tar" \in past'[i].commands
                        /\ \A v \in Reported("tar-version")' :
                             \E j \in Told' :
                               /\ j >= i /\ v = VersionOf(past'[j])
                               /\ \A o \in TarOptions : \A b \in BOOLEAN : <<"tar-option", o, b>> \in reply' =>
                                    \E k \in Told' : k >= j /\ (b <=> Offers(past'[k], o))
    BY DEF TarInv
  <2>1. past' = past /\ Told' = Told
    BY Standing DEF Walk
  <2>2. <<"command", "tar", TRUE>>[1] = "command"
    OBVIOUS
  <2>3. <<"command", "tar", TRUE>> \in reply
    BY <1>4, <1>6, <2>2
  <2>4. PICK i \in Told :
          /\ "tar" \in past[i].commands
          /\ \A v \in Reported("tar-version") : \E j \in Told : j >= i /\ v = VersionOf(past[j])
    BY <1>1, <2>3 DEF TarInv
  <2>5. Reported("tar-version")' = Reported("tar-version")
    BY <1>4, <1>8 DEF Reported
  <2>6. ASSUME NEW o \in TarOptions, NEW b \in BOOLEAN, <<"tar-option", o, b>> \in reply' PROVE b <=> Offers(server, o)
    <3>1. PICK q : q = <<"tar-option", o, b>>
      OBVIOUS
    <3>2. q[1] = "tar-option"
      BY <3>1
    <3>3. q \notin reply
      BY <1>2, <3>2 DEF Reported
    <3>4. QED
      BY <1>4, <1>6, <2>6, <3>1, <3>3
  <2>7. QED
    BY <1>5, <2>1, <2>4, <2>5, <2>6
<1>11. HeldInv'
  BY <1>1, <1>7, NotHeld
<1>12. QED
  BY <1>3, <1>7, <1>9, <1>10, <1>11 DEF DoctorInv

LEMMA AskTarKeeps ==
  ASSUME DoctorInv, AskTar PROVE DoctorInv'
<1>1. Doing("ask") /\ Walk /\ held' = held
  BY DEF AskTar
<1>2. (step = N + 11 /\ Object = "version") \/ (step = N + 12 /\ Object = "help")
  BY <1>1, StepKinds DEF DoctorInv, PastInv
<1>3. CASE step = N + 11 /\ Object = "version"
  <2>1. PICK r : r = <<"tar-version", VersionOf(server)>>
    OBVIOUS
  <2>2. Say({r})
    BY <1>3, <2>1 DEF AskTar, VersionOf
  <2>3. QED
    BY <1>1, <1>3, <2>1, <2>2, VersionKeeps
<1>4. CASE step = N + 12 /\ Object = "help"
  <2>1. PICK R : R = {<<"tar-option", o, Offers(server, o)>> : o \in TarOptions}
    OBVIOUS
  <2>2. Say(R)
    BY <1>4, <2>1 DEF AskTar, Offers
  <2>3. QED
    BY <1>1, <1>4, <2>1, <2>2, OptionsKeeps
<1>5. QED
  BY <1>2, <1>3, <1>4

\* The end, whether the reply is complete or not, or ssh has failed.
LEMMA EndKeeps ==
  ASSUME DoctorInv, Conclude \/ Break PROVE DoctorInv'
<1>1. UNCHANGED <<server, step, held, reply, lost, past>> /\ result = Pending
  BY DEF Conclude, Break
<1>2. (Complete /\ result' = evaluate_doctor) \/ result' = [verdict |-> "failed", diagnostics |-> {}]
  BY DEF Conclude, Break, Pending
<1>3. Complete' <=> Complete
  BY <1>1 DEF Complete, Reported, Available
<1>4. evaluate_doctor' = evaluate_doctor
  BY <1>1 DEF evaluate_doctor, evaluate_tar, evaluate_root, evaluate_workdir, Diagnosed,
              Available, Reported, Shown, combine_compatibility
<1>5. VerdictInv'
  BY <1>2, <1>3, <1>4 DEF VerdictInv
<1>6. PastInv' /\ HeldInv' /\ TurnInv' /\ LostInv' /\ ChangeInv'
  <2>1. PastInv /\ HeldInv /\ TurnInv /\ LostInv /\ ChangeInv
    BY DEF DoctorInv
  <2>2. \A w : Reported(w)' = Reported(w)
    BY <1>1 DEF Reported
  <2>3. Told' = Told
    BY <1>1, Standing
  <2>4. PastInv'
    BY <1>1, <2>1 DEF PastInv
  <2>5. HeldInv'
    BY <1>1, <2>1, <2>3 DEF HeldInv, Seen
  <2>6. TurnInv'
    BY <1>1, <2>1, <2>2 DEF TurnInv
  <2>7. LostInv'
    BY <1>1, <2>1, <2>2 DEF LostInv, Absent
  <2>8. ChangeInv'
    BY <1>1, <2>1 DEF ChangeInv
  <2>9. QED
    BY <2>4, <2>5, <2>6, <2>7, <2>8
<1>7. ObservedInv' /\ TarInv'
  <2>1. PastKept
    BY <1>1, Standing
  <2>2. Reported("tar-version")' = Reported("tar-version")
    BY <1>1 DEF Reported
  <2>3. TarInv'
    BY <1>1, <2>1, <2>2, TarKept DEF DoctorInv
  <2>4. ObservedInv'
    BY <1>1, <2>1, ObservedKept DEF DoctorInv, ObservedInv
  <2>5. QED
    BY <2>3, <2>4
<1>8. QED
  BY <1>5, <1>6, <1>7 DEF DoctorInv

\* The rest of the output does not arrive.
LEMMA CutKeeps ==
  ASSUME DoctorInv, Cut PROVE DoctorInv'
<1>1. UNCHANGED <<server, step, held, reply, result, past>> /\ lost' = "cut" /\ result = Pending
  BY DEF Cut, Elsewhere
<1>2. PastInv /\ HeldInv /\ TurnInv /\ ChangeInv
  BY DEF DoctorInv
<1>3. \A w : Reported(w)' = Reported(w)
  BY <1>1 DEF Reported
<1>4. PastKept /\ Told' = Told
  BY <1>1, Standing
<1>5. PastInv'
  BY <1>1, <1>2 DEF PastInv
<1>6. HeldInv'
  BY <1>1, <1>2, <1>4 DEF HeldInv, Seen
<1>7. TurnInv'
  BY <1>1, <1>2, <1>3 DEF TurnInv
<1>8. LostInv' /\ VerdictInv'
  BY <1>1 DEF LostInv, VerdictInv
<1>9. ChangeInv'
  BY <1>1, <1>2 DEF ChangeInv
<1>10. TarInv'
  BY <1>1, <1>3, <1>4, TarKept DEF DoctorInv
<1>11. ObservedInv'
  BY <1>1, <1>4, ObservedKept DEF DoctorInv, ObservedInv
<1>12. QED
  BY <1>5, <1>6, <1>7, <1>8, <1>9, <1>10, <1>11 DEF DoctorInv

LEMMA DifferFinite == \A s, t : IsFiniteSet(Differ(s, t))
<1>1. \A Q \in Seq(STRING) : IsFiniteSet(ToSet(Q))
  <2> SUFFICES ASSUME NEW Q \in Seq(STRING) PROVE IsFiniteSet(ToSet(Q))
    OBVIOUS
  <2>1. DOMAIN Q = 1..Len(Q) /\ Len(Q) \in Nat
    OBVIOUS
  <2>2. IsFiniteSet(1..Len(Q))
    BY <2>1, FS_Interval
  <2>3. Q \in Surjection(1..Len(Q), ToSet(Q))
    BY <2>1 DEF Surjection, ToSet
  <2>4. QED
    BY <2>2, <2>3, FS_Surjection
<1>2. IsFiniteSet(Commands)
  <2>1. IsFiniteSet(ToSet(Required)) /\ IsFiniteSet(ToSet(Optional))
    BY <1>1, DoctorAssumption
  <2>2. QED
    BY <2>1, FS_Union DEF Commands
<1>3. IsFiniteSet(Commands \cup {"tar's place"} \cup Paths)
  <2>1. Paths = {"root"} \cup {"workdir"}
    BY DEF Paths
  <2>2. IsFiniteSet({"root"}) /\ IsFiniteSet({"workdir"}) /\ IsFiniteSet({"tar's place"})
    BY FS_Singleton
  <2>3. IsFiniteSet(Paths)
    BY <2>1, <2>2, FS_Union
  <2>4. IsFiniteSet(Commands \cup {"tar's place"})
    BY <1>2, <2>2, FS_Union
  <2>5. QED
    BY <2>3, <2>4, FS_Union
<1>4. \A s, t : Differ(s, t) \subseteq Commands \cup {"tar's place"} \cup Paths
  BY DEF Differ
<1>5. QED
  BY <1>3, <1>4, FS_Subset

LEMMA ChangeKeeps ==
  ASSUME DoctorInv, Change PROVE DoctorInv'
<1>1. UNCHANGED <<step, held, reply, result, lost>> /\ result = Pending
  BY DEF Change, Elsewhere
<1>2. PICK s \in Servers : Cardinality(Differ(s, server)) = 1 /\ server' = s /\ past' = Append(past, s)
  BY DEF Change, Differ, Paths
<1>3. PastInv /\ HeldInv /\ TurnInv /\ ChangeInv
  BY DEF DoctorInv
<1>4. /\ past' \in Seq(Servers) /\ Len(past') = Len(past) + 1 /\ past'[Len(past) + 1] = s
      /\ \A i \in 1..Len(past) : past'[i] = past[i]
  BY <1>2, <1>3, AppendProperties DEF PastInv
<1>5. Len(past) \in Nat /\ Len(past) >= 1 /\ Told = 1..Len(past) /\ Told' = 1..(Len(past) + 1)
  BY <1>3, <1>4 DEF PastInv, Told
<1>6. PastKept
  BY <1>4, <1>5 DEF PastKept
<1>7. PastInv'
  BY <1>1, <1>2, <1>3, <1>4, <1>5 DEF PastInv
<1>8. \A w : Reported(w)' = Reported(w)
  BY <1>1 DEF Reported
<1>9. HeldInv'
  <2>1. ASSUME NEW p \in Paths, NEW k \in 1..4, step = Place(p) + k PROVE Seen(p, held, k - 1)'
    <3>1. PICK U : U = held
      OBVIOUS
    <3>2. Seen(p, U, k - 1) /\ k - 1 \in Nat
      BY <1>3, <2>1, <3>1 DEF HeldInv
    <3>3. Seen(p, U, k - 1)'
      BY <1>6, <3>2, SeenKept
    <3>4. QED
      BY <1>1, <3>1, <3>3 DEF Seen
  <2>2. QED
    BY <1>1, <1>3, <2>1 DEF HeldInv
<1>10. TurnInv'
  BY <1>1, <1>3, <1>8 DEF TurnInv
<1>11. LostInv'
  BY <1>1, <1>8 DEF DoctorInv, LostInv, Absent
<1>12. VerdictInv'
  BY <1>1 DEF VerdictInv
<1>13. TarInv'
  BY <1>1, <1>6, <1>8, TarKept DEF DoctorInv
<1>14. ObservedInv'
  BY <1>1, <1>6, ObservedKept DEF DoctorInv, ObservedInv
<1>15. ChangeInv'
  <2>1. ASSUME NEW i \in 1..Len(past) PROVE \E x : Differ(past'[i + 1], past'[i]) = {x}
    <3>1. CASE i = Len(past)
      <4>1. past'[i + 1] = s /\ past'[i] = server
        BY <1>3, <1>4, <1>5, <3>1 DEF PastInv
      <4>2. \E x : Differ(s, server) = {x}
        BY <1>2, DifferFinite, FS_Singleton
      <4>3. QED
        BY <4>1, <4>2
    <3>2. CASE i # Len(past)
      <4>1. i \in 1..(Len(past) - 1) /\ i + 1 \in 1..Len(past)
        BY <1>5, <3>2
      <4>2. past'[i + 1] = past[i + 1] /\ past'[i] = past[i]
        BY <1>4, <4>1
      <4>3. QED
        BY <1>3, <4>1, <4>2 DEF ChangeInv
    <3>3. QED
      BY <3>1, <3>2
  <2>2. Len(past') - 1 = Len(past)
    BY <1>4, <1>5
  <2>3. QED
    BY <2>1, <2>2 DEF ChangeInv, Differ
<1>16. QED
  BY <1>7, <1>9, <1>10, <1>11, <1>12, <1>13, <1>14, <1>15 DEF DoctorInv

LEMMA DoctorStarts == Init => DoctorInv
<1> SUFFICES ASSUME Init PROVE DoctorInv
  OBVIOUS
<1>1. N \in Nat
  BY ScriptShape
<1>2. past = <<server>> /\ server \in Servers /\ step = 1 /\ held = {} /\ reply = {} /\ lost = "no" /\ result = Pending
  BY DEF Init
<1>3. past \in Seq(Servers) /\ Len(past) = 1 /\ past[1] = server
  BY <1>2
<1>4. PastInv
  BY <1>1, <1>2, <1>3 DEF PastInv
<1>5. HeldInv
  <2>1. \A p \in Paths : \A k \in 1..4 : step # Place(p) + k
    BY <1>1, <1>2, PlaceOrder
  <2>2. QED
    BY <1>2, <2>1 DEF HeldInv
<1>6. ObservedInv /\ TarInv /\ LostInv /\ VerdictInv
  BY <1>2 DEF ObservedInv, TarInv, LostInv, VerdictInv
<1>7. TurnInv
  BY <1>2 DEF TurnInv, Reported
<1>8. ChangeInv
  BY <1>3 DEF ChangeInv
<1>9. QED
  BY <1>4, <1>5, <1>6, <1>7, <1>8 DEF DoctorInv

LEMMA DoctorStands ==
  ASSUME DoctorInv, UNCHANGED vars PROVE DoctorInv'
<1>1. UNCHANGED <<server, step, held, reply, lost, result, past>>
  BY DEF vars
<1>2. PastInv /\ HeldInv /\ TurnInv /\ LostInv /\ VerdictInv /\ ChangeInv
  BY DEF DoctorInv
<1>3. (\A w : Reported(w)' = Reported(w)) /\ PastKept /\ Told' = Told
  BY <1>1, Standing DEF Reported
<1>4. PastInv'
  BY <1>1, <1>2 DEF PastInv
<1>5. HeldInv'
  BY <1>1, <1>2, <1>3 DEF HeldInv, Seen
<1>6. TurnInv'
  BY <1>1, <1>2, <1>3 DEF TurnInv
<1>7. LostInv'
  BY <1>1, <1>2, <1>3 DEF LostInv, Absent
<1>8. VerdictInv'
  <2>1. Complete' <=> Complete
    BY <1>1 DEF Complete, Reported, Available
  <2>2. evaluate_doctor' = evaluate_doctor
    BY <1>1 DEF evaluate_doctor, evaluate_tar, evaluate_root, evaluate_workdir, Diagnosed,
                Available, Reported, Shown, combine_compatibility
  <2>3. QED
    BY <1>1, <1>2, <2>1, <2>2 DEF VerdictInv
<1>9. ChangeInv'
  BY <1>1, <1>2 DEF ChangeInv
<1>10. TarInv'
  BY <1>1, <1>3, TarKept DEF DoctorInv
<1>11. ObservedInv'
  BY <1>1, <1>3, ObservedKept DEF DoctorInv, ObservedInv
<1>12. QED
  BY <1>4, <1>5, <1>6, <1>7, <1>8, <1>9, <1>10, <1>11 DEF DoctorInv

THEOREM DoctorInvHolds == Spec => []DoctorInv
<1>1. DoctorInv /\ [Next]_vars => DoctorInv'
  <2> SUFFICES ASSUME DoctorInv, [Next]_vars PROVE DoctorInv'
    OBVIOUS
  <2>1. CASE SayProtocol
    BY <2>1, ProtocolKeeps
  <2>2. CASE FindCommand
    BY <2>2, CommandKeeps
  <2>3. CASE TestPath
    BY <2>3, TestPathKeeps
  <2>4. CASE FindTar
    BY <2>4, FindTarKeeps
  <2>5. CASE AskTar
    BY <2>5, AskTarKeeps
  <2>6. CASE Conclude \/ Break
    BY <2>6, EndKeeps
  <2>7. CASE Change
    BY <2>7, ChangeKeeps
  <2>8. CASE Cut
    BY <2>8, CutKeeps
  <2>9. CASE UNCHANGED vars
    BY <2>9, DoctorStands
  <2>10. QED
    BY <2>1, <2>2, <2>3, <2>4, <2>5, <2>6, <2>7, <2>8, <2>9 DEF Next
<1>2. QED
  BY DoctorStarts, <1>1, PTL DEF Spec

-----------------------------------------------------------------------------
(* What a reply says, and what doctor makes of it. *)

LEMMA ReadCommand ==
  ASSUME ObservedInv
  PROVE  /\ Reported("command") \subseteq Commands
         /\ \A c \in Reported("command") : <<"command", c, TRUE>> \in reply \/ <<"command", c, FALSE>> \in reply
         /\ \A c : <<"command", c, TRUE>> \in reply => \E i \in Told : c \in past[i].commands
         /\ \A c : <<"command", c, FALSE>> \in reply => \E i \in Told : c \notin past[i].commands
<1>1. ASSUME NEW c, NEW b, Observed(<<"command", c, b>>)
      PROVE  c \in Commands /\ \E i \in Told : b <=> c \in past[i].commands
  BY <1>1 DEF Observed
<1>2. ASSUME NEW c \in Reported("command")
      PROVE  c \in Commands /\ (<<"command", c, TRUE>> \in reply \/ <<"command", c, FALSE>> \in reply)
  <2>1. PICK r \in reply : r[1] = "command" /\ r[2] = c
    BY DEF Reported
  <2>2. Observed(r)
    BY DEF ObservedInv
  <2>3. PICK d \in Commands, b \in BOOLEAN : r = <<"command", d, b>>
    BY <2>1, <2>2 DEF Observed
  <2>4. c = d /\ (b = TRUE \/ b = FALSE)
    BY <2>1, <2>3
  <2>5. QED
    BY <2>3, <2>4
<1>3. QED
  BY <1>1, <1>2 DEF ObservedInv

LEMMA ReadPath ==
  ASSUME ObservedInv
  PROVE  /\ \A p \in Reported("path") : p \in Paths /\ \E T : <<"path", p, T>> \in reply
         /\ \A p, T : <<"path", p, T>> \in reply => p \in Paths /\ Seen(p, T, 4) /\ T \subseteq Shown(p)
         /\ \A p : \A t \in Shown(p) : \E T : <<"path", p, T>> \in reply /\ t \in T
<1>1. ASSUME NEW r \in reply, r[1] = "path"
      PROVE  \E p \in Paths : \E T \in SUBSET ToSet(PathTests) : r = <<"path", p, T>> /\ r[2] = p /\ r[3] = T
  <2>1. Observed(r)
    BY DEF ObservedInv
  <2>2. PICK p \in Paths, T \in SUBSET ToSet(PathTests) : r = <<"path", p, T>>
    BY <1>1, <2>1 DEF Observed
  <2>3. r[2] = p /\ r[3] = T
    BY <2>2
  <2>4. QED
    BY <2>2, <2>3
<1>2. \A p \in Reported("path") : p \in Paths /\ \E T : <<"path", p, T>> \in reply
  BY <1>1 DEF Reported
<1>3. ASSUME NEW p, NEW T, <<"path", p, T>> \in reply
      PROVE  p \in Paths /\ Seen(p, T, 4) /\ T \subseteq Shown(p)
  <2>1. PICK r : r = <<"path", p, T>>
    OBVIOUS
  <2>2. Observed(r) /\ r[1] = "path" /\ r[2] = p /\ r[3] = T
    BY <1>3, <2>1 DEF ObservedInv
  <2>3. PICK q \in Paths, U \in SUBSET ToSet(PathTests) : r = <<"path", q, U>> /\ Seen(q, U, 4)
    BY <2>2 DEF Observed
  <2>4. q = p /\ U = T
    BY <2>2, <2>3
  <2>5. T \subseteq Shown(p)
    BY <1>3, <2>1, <2>2 DEF Shown
  <2>6. QED
    BY <2>3, <2>4, <2>5
<1>4. \A p : \A t \in Shown(p) : \E T : <<"path", p, T>> \in reply /\ t \in T
  <2> SUFFICES ASSUME NEW p, NEW t \in Shown(p) PROVE \E T : <<"path", p, T>> \in reply /\ t \in T
    OBVIOUS
  <2>1. PICK r \in reply : r[1] = "path" /\ r[2] = p /\ t \in r[3]
    BY DEF Shown
  <2>2. QED
    BY <1>1, <2>1
<1>5. QED
  BY <1>2, <1>3, <1>4

LEMMA ReadTar ==
  ASSUME ObservedInv
  PROVE  /\ \A v \in Reported("tar-version") : \E i \in Told : v = VersionOf(past[i])
         /\ \A o \in Reported("tar-option") :
              <<"tar-option", o, TRUE>> \in reply \/ <<"tar-option", o, FALSE>> \in reply
         /\ \A o : <<"tar-option", o, TRUE>> \in reply => \E i \in Told : Offers(past[i], o)
         /\ \A o : <<"tar-option", o, FALSE>> \in reply => \E i \in Told : ~Offers(past[i], o)
<1>1. ASSUME NEW o, NEW b, Observed(<<"tar-option", o, b>>)
      PROVE  \E i \in Told : b <=> Offers(past[i], o)
  BY <1>1 DEF Observed
<1>2. ASSUME NEW v \in Reported("tar-version") PROVE \E i \in Told : v = VersionOf(past[i])
  <2>1. PICK r \in reply : r[1] = "tar-version" /\ r[2] = v
    BY DEF Reported
  <2>2. Observed(r)
    BY DEF ObservedInv
  <2>3. PICK i \in Told : r = <<"tar-version", VersionOf(past[i])>>
    BY <2>1, <2>2 DEF Observed
  <2>4. QED
    BY <2>1, <2>3
<1>3. ASSUME NEW o \in Reported("tar-option")
      PROVE  <<"tar-option", o, TRUE>> \in reply \/ <<"tar-option", o, FALSE>> \in reply
  <2>1. PICK r \in reply : r[1] = "tar-option" /\ r[2] = o
    BY DEF Reported
  <2>2. Observed(r)
    BY DEF ObservedInv
  <2>3. PICK d \in TarOptions, b \in BOOLEAN : r = <<"tar-option", d, b>>
    BY <2>1, <2>2 DEF Observed
  <2>4. o = d /\ (b = TRUE \/ b = FALSE)
    BY <2>1, <2>3
  <2>5. QED
    BY <2>3, <2>4
<1>4. QED
  BY <1>1, <1>2, <1>3 DEF ObservedInv

LEMMA Combined ==
  /\ evaluate_doctor.verdict \in Verdicts
  /\ evaluate_doctor.verdict = "compatible" =>
       /\ evaluate_tar = "compatible" /\ evaluate_root = "compatible" /\ evaluate_workdir = "compatible"
       /\ \A c \in ToSet(Required) : Available(c)
  /\ evaluate_doctor.verdict = "incompatible" <=>
       \/ evaluate_tar = "incompatible" \/ evaluate_root = "incompatible" \/ evaluate_workdir = "incompatible"
       \/ \E c \in ToSet(Required) : ~Available(c)
  /\ evaluate_doctor.verdict = "undetermined" => evaluate_tar = "undetermined" \/ evaluate_workdir = "undetermined"
<1>1. evaluate_tar \in Verdicts /\ evaluate_root \in {"compatible", "incompatible"} /\ evaluate_workdir \in Verdicts
  BY DEF evaluate_tar, evaluate_root, evaluate_workdir, Verdicts
<1>2. PICK S : S = {evaluate_tar, evaluate_root, evaluate_workdir}
                     \cup (IF \E c \in ToSet(Required) : ~Available(c) THEN {"incompatible"} ELSE {})
  OBVIOUS
<1>3. evaluate_doctor.verdict = combine_compatibility(S)
  BY <1>2 DEF evaluate_doctor
<1>4. /\ "incompatible" \in S <=>
           \/ evaluate_tar = "incompatible" \/ evaluate_root = "incompatible" \/ evaluate_workdir = "incompatible"
           \/ \E c \in ToSet(Required) : ~Available(c)
      /\ "undetermined" \in S <=> (evaluate_tar = "undetermined" \/ evaluate_workdir = "undetermined")
  BY <1>1, <1>2
<1>5. QED
  BY <1>1, <1>3, <1>4 DEF combine_compatibility, Verdicts

-----------------------------------------------------------------------------
(* The properties. *)

\* Every variable stays in its range: TypeOK.
THEOREM TypeCorrect == Spec => []TypeOK
<1>1. DoctorInv => TypeOK
  <2> SUFFICES ASSUME DoctorInv PROVE TypeOK
    OBVIOUS
  <2>1. PastInv /\ HeldInv /\ ObservedInv /\ VerdictInv /\ N \in Nat /\ Len(remote_doctor_script) = N + 12
    BY ScriptShape DEF DoctorInv
  <2>2. server \in Servers /\ past \in Seq(Servers) /\ server = Last(past)
    BY <2>1 DEF PastInv, Last
  <2>3. step \in 1..(Len(remote_doctor_script) + 1) /\ lost \in {"no", "cut", "lost"}
    BY <2>1 DEF PastInv
  <2>4. held \subseteq ToSet(PathTests) /\ (held = {} \/ Doing("test") \/ result # Pending)
    <3>1. CASE step \notin (N + 2)..(N + 9)
      BY <2>1, <3>1 DEF HeldInv
    <3>2. CASE step \in (N + 2)..(N + 9)
      <4>1. PICK p \in Paths, k \in 1..4 : step = Place(p) + k
        <5>1. Place("root") = N + 1 /\ Place("workdir") = N + 5
          BY DEF Place
        <5>2. CASE step \in (N + 2)..(N + 5)
          <6>1. step - (N + 1) \in 1..4 /\ step = Place("root") + (step - (N + 1)) /\ "root" \in Paths
            BY <2>1, <5>1, <5>2 DEF Paths
          <6>2. QED
            BY <6>1
        <5>3. CASE step \in (N + 6)..(N + 9)
          <6>1. step - (N + 5) \in 1..4 /\ step = Place("workdir") + (step - (N + 5)) /\ "workdir" \in Paths
            BY <2>1, <5>1, <5>3 DEF Paths
          <6>2. QED
            BY <6>1
        <5>4. QED
          BY <2>1, <3>2, <5>2, <5>3
      <4>2. Seen(p, held, k - 1)
        BY <2>1, <4>1 DEF HeldInv
      <4>3. held \subseteq ToSet(PathTests)
        <5>1. \A l \in 1..(k - 1) : l \in DOMAIN PathTests
          BY PathNames
        <5>2. QED
          BY <4>2, <5>1 DEF Seen, ToSet
      <4>4. result = Pending => Doing("test")
        BY <2>1, <4>1, StepKinds DEF PastInv
      <4>5. QED
        BY <4>3, <4>4
    <3>3. QED
      BY <3>1, <3>2
  <2>5. Reported("command") \subseteq Commands
    BY <2>1, ReadCommand
  <2>6. result.verdict \in Verdicts \cup {"pending", "failed"}
    BY <2>1, Combined DEF VerdictInv, Pending
  <2>7. QED
    BY <2>2, <2>3, <2>4, <2>5, <2>6 DEF TypeOK
<1>2. QED
  BY <1>1, DoctorInvHolds, PTL

LEMMA Concluded ==
  ASSUME DoctorInv, result.verdict \in Verdicts
  PROVE  Complete /\ result = evaluate_doctor
BY DEF DoctorInv, VerdictInv, Pending, Verdicts

\* The first tests of a path, by their names.
LEMMA SeenAs ==
  ASSUME NEW p, NEW T, Seen(p, T, 4), NEW t \in ToSet(PathTests)
  PROVE  \E s \in ToSet(past) : t \in T <=> t \in s.paths[p]
<1>1. PICK l \in 1..4 : t = PathTests[l]
  BY PathNames DEF ToSet
<1>2. \E j \in Told : PathTests[l] \in T <=> PathTests[l] \in past[j].paths[p]
  BY DEF Seen
<1>3. QED
  BY <1>1, <1>2 DEF Told, ToSet

LEMMA ToldPast == \A i \in Told : past[i] \in ToSet(past)
BY DEF Told, ToSet

\* What is called compatible was found, piece by piece.
LEMMA CompatibleFounded ==
  ASSUME DoctorInv, result.verdict = "compatible"
  PROVE  /\ \A c \in ToSet(Required) : \E s \in ToSet(past) : c \in s.commands
         /\ \A o \in TarOptions : \E s \in ToSet(past) : o \in s.tar.options
         /\ \E s \in ToSet(past) : s.tar.version \in TestedVersions
         /\ \A t \in {"exists", "directory", "readable"} : \E s \in ToSet(past) : t \in s.paths["root"]
         /\ \A t \in ToSet(PathTests) : \E s \in ToSet(past) : t \in s.paths["workdir"]
<1>1. Complete /\ result = evaluate_doctor /\ ObservedInv
  BY Concluded DEF DoctorInv, Verdicts
<1>2. /\ evaluate_tar = "compatible" /\ evaluate_root = "compatible" /\ evaluate_workdir = "compatible"
      /\ \A c \in ToSet(Required) : Available(c)
  BY <1>1, Combined
<1>3. ASSUME NEW c \in ToSet(Required) PROVE \E s \in ToSet(past) : c \in s.commands
  BY <1>1, <1>2, ReadCommand, ToldPast DEF Available
<1>4. /\ \A o \in TarOptions : <<"tar-option", o, TRUE>> \in reply
      /\ Reported("tar-version") \cap TestedVersions # {}
  BY <1>2 DEF evaluate_tar
<1>5. ASSUME NEW o \in TarOptions PROVE \E s \in ToSet(past) : o \in s.tar.options
  BY <1>1, <1>4, ReadTar, ToldPast DEF Offers
<1>6. \E s \in ToSet(past) : s.tar.version \in TestedVersions
  <2>1. PICK v \in Reported("tar-version") : v \in TestedVersions
    BY <1>4
  <2>2. PICK i \in Told : v = VersionOf(past[i])
    BY <1>1, ReadTar
  <2>3. "not found" \notin TestedVersions
    BY DoctorAssumption
  <2>4. v = past[i].tar.version
    BY <2>1, <2>2, <2>3 DEF VersionOf
  <2>5. QED
    BY <2>1, <2>4, ToldPast
<1>7. ASSUME NEW p, NEW t \in Shown(p), t \in ToSet(PathTests) PROVE \E s \in ToSet(past) : t \in s.paths[p]
  <2>1. PICK T : <<"path", p, T>> \in reply /\ t \in T
    BY <1>1, ReadPath
  <2>2. Seen(p, T, 4)
    BY <1>1, <2>1, ReadPath
  <2>3. QED
    BY <1>7, <2>1, <2>2, SeenAs
<1>8. {"exists", "directory", "readable"} \subseteq Shown("root") /\ ToSet(PathTests) \subseteq Shown("workdir")
  <2>1. {"exists", "directory", "readable"} \subseteq Shown("root")
    BY <1>2 DEF evaluate_root
  <2>2. "exists" \in Shown("workdir") /\ {"directory", "readable", "writable"} \subseteq Shown("workdir")
    BY <1>2 DEF evaluate_workdir
  <2>3. QED
    BY <2>1, <2>2, PathNames
<1>9. QED
  BY <1>3, <1>5, <1>6, <1>7, <1>8, PathNames

LEMMA NotShown ==
  ASSUME ObservedInv, Complete, NEW p \in Paths, NEW t \in ToSet(PathTests), t \notin Shown(p)
  PROVE  \E s \in ToSet(past) : t \notin s.paths[p]
<1>1. p \in Reported("path")
  BY DEF Complete, Paths
<1>2. PICK T : <<"path", p, T>> \in reply
  BY <1>1, ReadPath
<1>3. Seen(p, T, 4) /\ t \notin T
  BY <1>2, ReadPath
<1>4. QED
  BY <1>3, SeenAs

\* What is called incompatible lacked something.
LEMMA UnfitPieces ==
  ASSUME DoctorInv, result.verdict = "incompatible"
  PROVE  \/ evaluate_workdir = "incompatible"
         \/ \E s \in ToSet(past) :
              \/ \E c \in ToSet(Required) : c \notin s.commands
              \/ ~(TarOptions \subseteq s.tar.options)
              \/ ~({"exists", "directory", "readable"} \subseteq s.paths["root"])
<1>1. Complete /\ result = evaluate_doctor /\ ObservedInv
  BY Concluded DEF DoctorInv, Verdicts
<1>2. \/ evaluate_tar = "incompatible" \/ evaluate_root = "incompatible" \/ evaluate_workdir = "incompatible"
      \/ \E c \in ToSet(Required) : ~Available(c)
  BY <1>1, Combined
<1>3. ASSUME NEW c \in ToSet(Required), ~Available(c)
      PROVE  \E s \in ToSet(past) : c \notin s.commands
  <2>1. c \in Reported("command")
    BY <1>1, WantedCommands DEF Complete
  <2>2. <<"command", c, FALSE>> \in reply
    BY <1>1, <1>3, <2>1, ReadCommand DEF Available
  <2>3. QED
    BY <1>1, <2>2, ReadCommand, ToldPast
<1>4. "tar" \in ToSet(Required)
  BY DoctorAssumption
<1>5. CASE evaluate_tar = "incompatible" /\ Available("tar")
  <2>1. PICK o \in TarOptions : <<"tar-option", o, TRUE>> \notin reply
    BY <1>5 DEF evaluate_tar
  <2>2. o \in Reported("tar-option")
    BY <1>1, <1>5 DEF Complete
  <2>3. <<"tar-option", o, FALSE>> \in reply
    BY <1>1, <2>1, <2>2, ReadTar
  <2>4. PICK i \in Told : ~Offers(past[i], o)
    BY <1>1, <2>3, ReadTar
  <2>5. QED
    BY <1>4, <2>4, ToldPast DEF Offers
<1>6. CASE \E c \in ToSet(Required) : ~Available(c)
  BY <1>3, <1>6
<1>7. "root" \in Paths /\ {"exists", "directory", "readable"} \subseteq ToSet(PathTests)
  BY PathNames DEF Paths
<1>8. CASE evaluate_root = "incompatible"
  <2>1. PICK t \in {"exists", "directory", "readable"} : t \notin Shown("root")
    BY <1>8 DEF evaluate_root
  <2>2. \E s \in ToSet(past) : t \notin s.paths["root"]
    BY <1>1, <1>7, <2>1, NotShown
  <2>3. QED
    BY <2>2
<1>9. evaluate_tar = "incompatible" => (evaluate_tar = "incompatible" /\ Available("tar")) \/ ~Available("tar")
  OBVIOUS
<1>10. QED
  BY <1>2, <1>4, <1>5, <1>6, <1>8, <1>9

LEMMA IncompatibleFounded ==
  ASSUME DoctorInv, result.verdict = "incompatible"
  PROVE  \E s \in ToSet(past) :
           \/ \E c \in ToSet(Required) : c \notin s.commands
           \/ ~(TarOptions \subseteq s.tar.options)
           \/ ~({"exists", "directory", "readable"} \subseteq s.paths["root"])
           \/ ~({"exists", "directory", "readable", "writable"} \subseteq s.paths["workdir"])
<1>1. Complete /\ ObservedInv
  BY Concluded DEF DoctorInv, Verdicts
<1>2. CASE evaluate_workdir = "incompatible"
  <2>1. PICK t \in {"directory", "readable", "writable"} : t \notin Shown("workdir")
    BY <1>2 DEF evaluate_workdir
  <2>2. t \in ToSet(PathTests) /\ "workdir" \in Paths
    BY PathNames DEF Paths
  <2>3. \E s \in ToSet(past) : t \notin s.paths["workdir"]
    BY <1>1, <2>1, <2>2, NotShown
  <2>4. QED
    BY <2>3
<1>3. QED
  BY <1>2, UnfitPieces

\* However the server changes, a verdict is founded on something that was seen:
\* VerdictIsFounded.
THEOREM VerdictFounded == Spec => []VerdictIsFounded
<1>1. DoctorInv => VerdictIsFounded
  <2> SUFFICES ASSUME DoctorInv PROVE VerdictIsFounded
    OBVIOUS
  <2>1. ASSUME result.verdict = "compatible"
        PROVE  /\ \A c \in ToSet(Required) : \E s \in ToSet(past) : c \in s.commands
               /\ \A o \in TarOptions : \E s \in ToSet(past) : o \in s.tar.options
               /\ \E s \in ToSet(past) : s.tar.version \in TestedVersions
               /\ \A t \in {"exists", "directory", "readable"} : \E s \in ToSet(past) : t \in s.paths.root
               /\ \A t \in ToSet(PathTests) : \E s \in ToSet(past) : t \in s.paths.workdir
    BY <2>1, CompatibleFounded
  <2>2. ASSUME result.verdict = "incompatible" PROVE \E s \in ToSet(past) : VerdictOn(s) # "compatible"
    <3>1. \A s : Missing(s) \/ InDoubt(s) => VerdictOn(s) # "compatible"
      BY DEF VerdictOn
    <3>2. \A s : (\E c \in ToSet(Required) : c \notin s.commands) => Missing(s)
      BY DEF Missing
    <3>3. \A s : ~(TarOptions \subseteq s.tar.options) => Missing(s)
      BY DEF Missing
    <3>4. \A s : ~({"exists", "directory", "readable"} \subseteq s.paths["root"]) => Missing(s)
      BY DEF Missing
    <3>5. \A s : ~({"exists", "directory", "readable", "writable"} \subseteq s.paths["workdir"]) =>
               Missing(s) \/ InDoubt(s)
      BY PathNames DEF Missing, InDoubt
    <3>6. QED
      BY <2>2, <3>1, <3>2, <3>3, <3>4, <3>5, IncompatibleFounded
  <2>3. QED
    BY <2>1, <2>2 DEF VerdictIsFounded
<1>2. QED
  BY <1>1, DoctorInvHolds, PTL

\* If a record was lost there is no verdict, but for a server without tar:
\* LostMeansNoVerdict.
THEOREM LostRecords == Spec => []LostMeansNoVerdict
<1>1. DoctorInv => LostMeansNoVerdict
  <2> SUFFICES ASSUME DoctorInv, lost = "lost", result.verdict \in Verdicts
               PROVE  result.verdict = "incompatible" /\ <<"command", "tar", FALSE>> \in reply
    BY DEF LostMeansNoVerdict
  <2>1. Complete /\ result = evaluate_doctor /\ ObservedInv /\ LostInv
    BY Concluded DEF DoctorInv
  <2>2. Reported("tar-version") = {} \/ Reported("tar-option") = {}
    BY <2>1 DEF LostInv, Absent, Complete, Paths
  <2>3. ~Available("tar")
    <3>1. TarOptions # {}
      BY DoctorAssumption
    <3>2. QED
      BY <2>1, <2>2, <3>1 DEF Complete
  <2>4. "tar" \in ToSet(Required) /\ "tar" \in Reported("command")
    BY <2>1, WantedCommands, DoctorAssumption DEF Complete
  <2>5. <<"command", "tar", FALSE>> \in reply
    BY <2>1, <2>3, <2>4, ReadCommand DEF Available
  <2>6. result.verdict = "incompatible"
    BY <2>1, <2>3, <2>4, Combined
  <2>7. QED
    BY <2>5, <2>6
<1>2. QED
  BY <1>1, DoctorInvHolds, PTL

\* Two moments, of which the second is the present; one thing is different at most.
LEMMA TwoMoments ==
  ASSUME DoctorInv, Len(past) <= 2
  PROVE  \E a \in Servers :
           /\ ToSet(past) = {a, server} /\ server \in Servers
           /\ \A i \in Told : (i = 1 /\ past[i] = a) \/ past[i] = server
           /\ \A i, j \in Told : i <= j /\ past[j] # server => past[i] = a
           /\ \A c, d \in Commands :
                (c \in a.commands) # (c \in server.commands) /\ (d \in a.commands) # (d \in server.commands) => c = d
           /\ \A p, q \in Paths : a.paths[p] # server.paths[p] /\ a.paths[q] # server.paths[q] => p = q
           /\ \A c \in Commands : \A p \in Paths :
                (c \in a.commands) # (c \in server.commands) => a.paths[p] = server.paths[p]
<1>1. PastInv /\ ChangeInv
  BY DEF DoctorInv
<1>2. past \in Seq(Servers) /\ Len(past) \in {1, 2} /\ Told = 1..Len(past) /\ server = past[Len(past)] /\ server \in Servers
  <2>1. past \in Seq(Servers) /\ server \in Servers /\ Len(past) >= 1
    BY <1>1 DEF PastInv
  <2>2. Len(past) \in Nat
    BY <2>1
  <2>3. \A n \in Nat : n >= 1 /\ n <= 2 => n \in {1, 2}
    OBVIOUS
  <2>4. Len(past) \in {1, 2}
    BY <2>1, <2>2, <2>3, Zenon
  <2>5. QED
    BY <1>1, <2>1, <2>4, LastTold
<1>3. PICK a \in Servers : a = past[1]
  BY <1>2
<1>4. ToSet(past) = {past[i] : i \in Told}
  BY DEF ToSet, Told
<1>5. CASE Len(past) = 1
  <2>1. Told = {1} /\ a = server
    BY <1>2, <1>3, <1>5
  <2>2. ToSet(past) = {a, server} /\ \A i \in Told : i = 1 /\ past[i] = a
    BY <1>3, <1>4, <2>1
  <2>3. QED
    BY <1>2, <2>1, <2>2
<1>6. CASE Len(past) = 2
  <2>1. Told = {1, 2} /\ past[2] = server
    BY <1>2, <1>6
  <2>2. ToSet(past) = {a, server} /\ \A i \in Told : (i = 1 /\ past[i] = a) \/ (i = 2 /\ past[i] = server)
    BY <1>3, <1>4, <2>1
  <2>3. PICK x : Differ(server, a) = {x}
    <3>1. 1 \in 1..(Len(past) - 1) /\ 1 + 1 = 2
      BY <1>6
    <3>2. QED
      BY <1>1, <1>3, <2>1, <3>1 DEF ChangeInv
  <2>4. \A c \in Commands : (c \in a.commands) # (c \in server.commands) => c = x
    BY <2>3 DEF Differ
  <2>5. \A p \in Paths : a.paths[p] # server.paths[p] => p = x
    BY <2>3 DEF Differ
  <2>6. Commands \cap Paths = {}
    BY DoctorAssumption DEF Paths
  <2>7. \A i, j \in Told : i <= j /\ past[j] # server => past[i] = a
    BY <2>1, <2>2
  <2>8. QED
    BY <1>2, <2>2, <2>4, <2>5, <2>6, <2>7
<1>7. QED
  BY <1>2, <1>5, <1>6

\* A server that has what is required.
Fit(s) ==
  /\ ToSet(Required) \subseteq s.commands /\ TarOptions \subseteq s.tar.options
  /\ {"exists", "directory", "readable"} \subseteq s.paths["root"]
  /\ "exists" \in s.paths["workdir"] => s.paths["workdir"] = ToSet(PathTests)
Doubtful(s) == s.tar.version \notin TestedVersions \/ "exists" \notin s.paths["workdir"]

LEMMA FitVerdict ==
  \A s : VerdictOn(s) = IF ~Fit(s) THEN "incompatible" ELSE IF Doubtful(s) THEN "undetermined" ELSE "compatible"
BY DEF VerdictOn, Missing, InDoubt, Fit, Doubtful

\* The present state is no worse than what was there before, in tar and the paths.
Better == \A s \in ToSet(past) :
  s.tar = server.tar /\ \A p \in {"root", "workdir"} : s.paths[p] \subseteq server.paths[p]

\* What is called incompatible was not fit before the change, or is not after it.
LEMMA UnfitMoment ==
  ASSUME DoctorInv, Len(past) <= 2, Better, result.verdict = "incompatible"
  PROVE  \E s \in ToSet(past) : ~Fit(s)
<1>1. Complete /\ result = evaluate_doctor /\ ObservedInv
  BY Concluded DEF DoctorInv, Verdicts
<1>2. PICK a \in Servers :
        /\ ToSet(past) = {a, server}
        /\ \A i \in Told : (i = 1 /\ past[i] = a) \/ past[i] = server
        /\ \A i, j \in Told : i <= j /\ past[j] # server => past[i] = a
  BY TwoMoments
<1>3. CASE \E s \in ToSet(past) :
             \/ \E c \in ToSet(Required) : c \notin s.commands
             \/ ~(TarOptions \subseteq s.tar.options)
             \/ ~({"exists", "directory", "readable"} \subseteq s.paths["root"])
  BY <1>3 DEF Fit
<1>4. CASE evaluate_workdir = "incompatible"
  <2>1. PICK t \in {"directory", "readable", "writable"} : "exists" \in Shown("workdir") /\ t \notin Shown("workdir")
    BY <1>4 DEF evaluate_workdir
  <2>2. PICK T : <<"path", "workdir", T>> \in reply /\ "exists" \in T
    BY <1>1, <2>1, ReadPath
  <2>3. Seen("workdir", T, 4) /\ t \notin T
    BY <1>1, <2>1, <2>2, ReadPath
  <2>4. PICK l \in 2..4 : t = PathTests[l]
    <3>1. PICK l \in 1..4 : t = PathTests[l]
      BY <2>1, PathNames DEF ToSet
    <3>2. PathTests[1] = "exists"
      BY DEF PathTests
    <3>3. QED
      BY <2>1, <3>1, <3>2
  <2>5. PathTests[1] = "exists"
    BY DEF PathTests
  <2>6. PICK i \in Told, j \in Told :
          /\ "exists" \in past[i].paths["workdir"] /\ j >= i /\ t \notin past[j].paths["workdir"]
    BY <2>2, <2>3, <2>4, <2>5 DEF Seen
  <2>7. "exists" \in past[j].paths["workdir"]
    <3>1. past[i] \in ToSet(past) /\ past[i].paths["workdir"] \subseteq server.paths["workdir"]
      BY ToldPast DEF Better
    <3>2. CASE past[j] = server
      BY <2>6, <3>1, <3>2
    <3>3. CASE past[j] # server
      <4>1. i <= j
        BY <2>6 DEF Told
      <4>2. past[i] = a
        BY <1>2, <3>3, <4>1
      <4>3. past[j] = a
        BY <1>2, <3>3
      <4>4. QED
        BY <2>6, <4>2, <4>3
    <3>4. QED
      BY <3>2, <3>3
  <2>8. ~Fit(past[j])
    <3>1. t \in ToSet(PathTests)
      BY <2>1, PathNames
    <3>2. QED
      BY <2>6, <2>7, <3>1 DEF Fit
  <2>9. QED
    BY <2>8, ToldPast
<1>5. evaluate_workdir # "incompatible" =>
        \E s \in ToSet(past) :
          \/ \E c \in ToSet(Required) : c \notin s.commands
          \/ ~(TarOptions \subseteq s.tar.options)
          \/ ~({"exists", "directory", "readable"} \subseteq s.paths["root"])
  BY <1>1, UnfitPieces
<1>6. QED
  BY <1>3, <1>4, <1>5

\* If nothing seems to be missing, nothing is missing now, or nothing was before a
\* command went.
Complements(a) ==
  /\ a \in Servers /\ ToSet(past) = {a, server} /\ a.tar = server.tar
  /\ \A p \in Paths : a.paths[p] \subseteq server.paths[p]
  /\ TarOptions \subseteq server.tar.options
  /\ {"exists", "directory", "readable"} \subseteq server.paths["root"]
  /\ ToSet(Required) \subseteq a.commands \/ ToSet(Required) \subseteq server.commands
  /\ (ToSet(Required) \subseteq a.commands /\ ToSet(Required) \subseteq server.commands)
       \/ \A p \in Paths : a.paths[p] = server.paths[p]
  /\ a.paths["root"] = server.paths["root"] \/ a.paths["workdir"] = server.paths["workdir"]

LEMMA NothingMissing ==
  ASSUME DoctorInv, Len(past) <= 2, Better, result.verdict \in {"compatible", "undetermined"}
  PROVE  \E a : Complements(a)
<1>1. Complete /\ result = evaluate_doctor /\ ObservedInv
  BY Concluded DEF DoctorInv, Verdicts
<1>2. evaluate_doctor.verdict # "incompatible"
  BY <1>1
<1>3. /\ evaluate_tar # "incompatible" /\ evaluate_root # "incompatible"
      /\ \A c \in ToSet(Required) : Available(c)
  BY <1>2, Combined
<1>4. PICK a \in Servers :
        /\ ToSet(past) = {a, server}
        /\ \A i \in Told : (i = 1 /\ past[i] = a) \/ past[i] = server
        /\ \A c, d \in Commands :
             (c \in a.commands) # (c \in server.commands) /\ (d \in a.commands) # (d \in server.commands) => c = d
        /\ \A p, q \in Paths : a.paths[p] # server.paths[p] /\ a.paths[q] # server.paths[q] => p = q
        /\ \A c \in Commands : \A p \in Paths :
             (c \in a.commands) # (c \in server.commands) => a.paths[p] = server.paths[p]
  BY TwoMoments
<1>5. a.tar = server.tar /\ \A p \in Paths : a.paths[p] \subseteq server.paths[p]
  BY <1>4 DEF Better, Paths
<1>6. ASSUME NEW o \in TarOptions PROVE o \in server.tar.options
  <2>1. <<"tar-option", o, TRUE>> \in reply
    BY <1>3 DEF evaluate_tar
  <2>2. PICK i \in Told : Offers(past[i], o)
    BY <1>1, <2>1, ReadTar
  <2>3. QED
    BY <1>4, <1>5, <2>2 DEF Offers
<1>7. ASSUME NEW t \in {"exists", "directory", "readable"} PROVE t \in server.paths["root"]
  <2>1. t \in Shown("root") /\ t \in ToSet(PathTests) /\ "root" \in Paths
    BY <1>3, PathNames DEF evaluate_root, Paths
  <2>2. PICK T : <<"path", "root", T>> \in reply /\ t \in T
    BY <1>1, <2>1, ReadPath
  <2>3. Seen("root", T, 4)
    BY <1>1, <2>2, ReadPath
  <2>4. PICK s \in ToSet(past) : t \in s.paths["root"]
    BY <2>1, <2>2, <2>3, SeenAs
  <2>5. QED
    BY <1>4, <1>5, <2>1, <2>4
<1>8. \A c \in ToSet(Required) : c \in a.commands \/ c \in server.commands
  <2> SUFFICES ASSUME NEW c \in ToSet(Required) PROVE c \in a.commands \/ c \in server.commands
    OBVIOUS
  <2>1. PICK i \in Told : c \in past[i].commands
    BY <1>1, <1>3, ReadCommand DEF Available
  <2>2. QED
    BY <1>4, <2>1
<1>9. \A c \in ToSet(Required) : c \in Commands
  BY WantedCommands
<1>10. ToSet(Required) \subseteq a.commands \/ ToSet(Required) \subseteq server.commands
  <2> SUFFICES ASSUME NEW c \in ToSet(Required), c \notin a.commands,
                      NEW d \in ToSet(Required), d \notin server.commands
               PROVE  FALSE
    OBVIOUS
  <2>1. c \in server.commands /\ d \in a.commands
    BY <1>8
  <2>2. c = d
    BY <1>4, <1>9, <2>1
  <2>3. QED
    BY <2>1, <2>2
<1>11. (ToSet(Required) \subseteq a.commands /\ ToSet(Required) \subseteq server.commands)
         \/ \A p \in Paths : a.paths[p] = server.paths[p]
  <2> SUFFICES ASSUME NEW c \in ToSet(Required), c \notin a.commands \/ c \notin server.commands
               PROVE  \A p \in Paths : a.paths[p] = server.paths[p]
    OBVIOUS
  <2>1. (c \in a.commands) # (c \in server.commands)
    BY <1>8
  <2>2. QED
    BY <1>4, <1>9, <2>1
<1>12. a.paths["root"] = server.paths["root"] \/ a.paths["workdir"] = server.paths["workdir"]
  BY <1>4 DEF Paths
<1>13. QED
  BY <1>4, <1>5, <1>6, <1>7, <1>10, <1>11, <1>12 DEF Complements

LEMMA CompatibleMoment ==
  ASSUME DoctorInv, Len(past) <= 2, Better, result.verdict = "compatible"
  PROVE  \E s \in ToSet(past) : Fit(s) /\ ~Doubtful(s)
<1>1. PICK a : Complements(a)
  BY NothingMissing
<1>2. a \in ToSet(past) /\ server \in ToSet(past) /\ a.tar = server.tar
  BY <1>1 DEF Complements
<1>3. server.tar.version \in TestedVersions
  <2>1. PICK s \in ToSet(past) : s.tar.version \in TestedVersions
    BY CompatibleFounded
  <2>2. QED
    BY <1>1, <2>1 DEF Complements
<1>4. server.paths["workdir"] = ToSet(PathTests)
  <2>1. ASSUME NEW t \in ToSet(PathTests) PROVE t \in server.paths["workdir"]
    <3>1. PICK s \in ToSet(past) : t \in s.paths["workdir"]
      BY CompatibleFounded
    <3>2. s.paths["workdir"] \subseteq server.paths["workdir"]
      BY DEF Better
    <3>3. QED
      BY <3>1, <3>2
  <2>2. server \in Servers
    BY DEF DoctorInv, PastInv
  <2>3. server.paths["workdir"] \subseteq ToSet(PathTests)
    BY <2>2, DoctorAssumption
  <2>4. QED
    BY <2>1, <2>3
<1>5. "exists" \in ToSet(PathTests)
  BY PathNames
<1>6. CASE ToSet(Required) \subseteq server.commands
  BY <1>1, <1>2, <1>3, <1>4, <1>5, <1>6 DEF Complements, Fit, Doubtful
<1>7. CASE ~(ToSet(Required) \subseteq server.commands)
  <2>1. ToSet(Required) \subseteq a.commands /\ a.paths["root"] = server.paths["root"]
        /\ a.paths["workdir"] = server.paths["workdir"]
    BY <1>1, <1>7 DEF Complements, Paths
  <2>2. Fit(a) /\ ~Doubtful(a)
    BY <1>1, <1>2, <1>3, <1>4, <1>5, <2>1 DEF Complements, Fit, Doubtful
  <2>3. QED
    BY <1>2, <2>2
<1>8. QED
  BY <1>6, <1>7

\* A tar that was there, and has all options when it is asked for them, has told
\* its own version.
LEMMA VersionTold ==
  ASSUME DoctorInv, Len(past) <= 2, Better, Available("tar"),
         \A o \in TarOptions : <<"tar-option", o, TRUE>> \in reply,
         NEW v \in Reported("tar-version")
  PROVE  v = server.tar.version
<1>1. PICK a \in Servers :
        /\ ToSet(past) = {a, server}
        /\ \A i \in Told : (i = 1 /\ past[i] = a) \/ past[i] = server
        /\ \A i, j \in Told : i <= j /\ past[j] # server => past[i] = a
  BY TwoMoments
<1>2. PICK i \in Told, j \in Told :
        /\ "tar" \in past[i].commands /\ j >= i /\ v = VersionOf(past[j])
        /\ \A o \in TarOptions : \A b \in BOOLEAN : <<"tar-option", o, b>> \in reply =>
             \E k \in Told : k >= j /\ (b <=> Offers(past[k], o))
  BY DEF DoctorInv, TarInv, Available
<1>3. PICK o \in TarOptions : <<"tar-option", o, TRUE>> \in reply
  BY DoctorAssumption
<1>4. PICK k \in Told : k >= j /\ Offers(past[k], o)
  BY <1>2, <1>3
<1>5. "tar" \in past[k].commands
  BY <1>4 DEF Offers
<1>6. i <= j /\ j <= k
  BY <1>2, <1>4 DEF Told
<1>7. "tar" \in past[j].commands
  <2>1. CASE past[j] # server
    <3>1. past[i] = a /\ past[j] = a
      BY <1>1, <1>6, <2>1
    <3>2. QED
      BY <1>2, <3>1
  <2>2. CASE past[j] = server
    <3>1. CASE past[k] = server
      BY <1>5, <2>2, <3>1
    <3>2. CASE past[k] # server
      <4>1. past[j] = a /\ past[k] = a
        BY <1>1, <1>6, <3>2
      <4>2. QED
        BY <1>5, <4>1
    <3>3. QED
      BY <3>1, <3>2
  <2>3. QED
    BY <2>1, <2>2
<1>8. past[j].tar = server.tar
  BY ToldPast DEF Better
<1>9. QED
  BY <1>2, <1>7, <1>8 DEF VersionOf

LEMMA DoubtfulMoment ==
  ASSUME DoctorInv, Len(past) <= 2, Better, result.verdict = "undetermined"
  PROVE  \E s \in ToSet(past) : Fit(s) /\ Doubtful(s)
<1>1. PICK a : Complements(a)
  BY NothingMissing
<1>2. a \in ToSet(past) /\ server \in ToSet(past) /\ a.tar = server.tar
  BY <1>1 DEF Complements
<1>3. Complete /\ result = evaluate_doctor /\ ObservedInv
  BY Concluded DEF DoctorInv, Verdicts
<1>4. /\ evaluate_tar = "undetermined" \/ evaluate_workdir = "undetermined"
      /\ evaluate_tar # "incompatible" /\ evaluate_workdir # "incompatible"
      /\ \A c \in ToSet(Required) : Available(c)
  <2>1. evaluate_doctor.verdict = "undetermined" /\ evaluate_doctor.verdict # "incompatible"
    BY <1>3
  <2>2. QED
    BY <2>1, Combined
<1>5. "exists" \in ToSet(PathTests) /\ "workdir" \in Paths /\ "tar" \in ToSet(Required)
  BY PathNames, DoctorAssumption DEF Paths
<1>6. CASE "exists" \notin Shown("workdir")
  <2>1. PICK s \in ToSet(past) : "exists" \notin s.paths["workdir"]
    BY <1>3, <1>5, <1>6, NotShown
  <2>2. "exists" \notin a.paths["workdir"]
    BY <1>1, <1>5, <2>1 DEF Complements
  <2>3. CASE ToSet(Required) \subseteq a.commands /\ {"exists", "directory", "readable"} \subseteq a.paths["root"]
    <3>1. Fit(a) /\ Doubtful(a)
      BY <1>1, <1>2, <2>2, <2>3 DEF Complements, Fit, Doubtful
    <3>2. QED
      BY <1>2, <3>1
  <2>4. CASE ~(ToSet(Required) \subseteq a.commands /\ {"exists", "directory", "readable"} \subseteq a.paths["root"])
    <3>1. a.paths["workdir"] = server.paths["workdir"]
      BY <1>1, <2>4 DEF Complements, Paths
    <3>2. ToSet(Required) \subseteq server.commands
      BY <1>1, <2>4 DEF Complements, Paths
    <3>3. Fit(server) /\ Doubtful(server)
      BY <1>1, <2>2, <3>1, <3>2 DEF Complements, Fit, Doubtful
    <3>4. QED
      BY <1>2, <3>3
  <2>5. QED
    BY <2>3, <2>4
<1>7. CASE "exists" \in Shown("workdir")
  <2>1. evaluate_workdir = "compatible" /\ {"directory", "readable", "writable"} \subseteq Shown("workdir")
    BY <1>4, <1>7 DEF evaluate_workdir
  <2>2. ASSUME NEW t \in ToSet(PathTests) PROVE t \in server.paths["workdir"]
    <3>1. t \in Shown("workdir")
      BY <1>7, <2>1, PathNames
    <3>2. PICK T : <<"path", "workdir", T>> \in reply /\ t \in T
      BY <1>3, <3>1, ReadPath
    <3>3. Seen("workdir", T, 4)
      BY <1>3, <3>2, ReadPath
    <3>4. PICK s \in ToSet(past) : t \in s.paths["workdir"]
      BY <3>2, <3>3, SeenAs
    <3>5. s.paths["workdir"] \subseteq server.paths["workdir"]
      BY DEF Better
    <3>6. QED
      BY <3>4, <3>5
  <2>3. server.paths["workdir"] = ToSet(PathTests)
    <3>1. server \in Servers
      BY DEF DoctorInv, PastInv
    <3>2. server.paths["workdir"] \subseteq ToSet(PathTests)
      BY <3>1, DoctorAssumption
    <3>3. QED
      BY <2>2, <3>2
  <2>4. server.tar.version \notin TestedVersions
    <3>1. evaluate_tar = "undetermined"
      BY <1>4, <2>1
    <3>2. /\ Available("tar") /\ \A o \in TarOptions : <<"tar-option", o, TRUE>> \in reply
          /\ Reported("tar-version") \cap TestedVersions = {}
      BY <3>1 DEF evaluate_tar
    <3>3. PICK v \in Reported("tar-version") : TRUE
      BY <1>3, <3>2 DEF Complete
    <3>4. v = server.tar.version
      BY <3>2, VersionTold
    <3>5. QED
      BY <3>2, <3>3, <3>4
  <2>5. Doubtful(a) /\ Doubtful(server)
    BY <1>2, <2>4 DEF Doubtful
  <2>6. CASE ToSet(Required) \subseteq server.commands
    <3>1. Fit(server)
      BY <1>1, <2>3, <2>6 DEF Complements, Fit
    <3>2. QED
      BY <1>2, <2>5, <3>1
  <2>7. CASE ~(ToSet(Required) \subseteq server.commands)
    <3>1. ToSet(Required) \subseteq a.commands /\ a.paths["root"] = server.paths["root"]
          /\ a.paths["workdir"] = server.paths["workdir"]
      BY <1>1, <2>7 DEF Complements, Paths
    <3>2. Fit(a)
      BY <1>1, <1>2, <2>3, <3>1 DEF Complements, Fit
    <3>3. QED
      BY <1>2, <2>5, <3>2
  <2>8. QED
    BY <2>6, <2>7
<1>8. QED
  BY <1>6, <1>7

\* If one thing changes at most, the verdict is the one that the server deserves
\* before or after it: VerdictOfAMoment.
THEOREM MomentSeen == Spec => []VerdictOfAMoment
<1>1. DoctorInv => VerdictOfAMoment
  <2> SUFFICES ASSUME DoctorInv, result.verdict \in Verdicts, Len(past) <= 2, Better
               PROVE  \E s \in ToSet(past) : result.verdict = VerdictOn(s)
    BY DEF VerdictOfAMoment, Better
  <2>1. CASE result.verdict = "incompatible"
    BY <2>1, UnfitMoment, FitVerdict
  <2>2. CASE result.verdict = "undetermined"
    BY <2>2, DoubtfulMoment, FitVerdict
  <2>3. CASE result.verdict = "compatible"
    BY <2>3, CompatibleMoment, FitVerdict
  <2>4. QED
    BY <2>1, <2>2, <2>3 DEF Verdicts
<1>2. QED
  BY <1>1, DoctorInvHolds, PTL
=============================================================================
