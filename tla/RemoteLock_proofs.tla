-------------------------- MODULE RemoteLock_proofs --------------------------
(* Mutual exclusion of the remote lock, for any number of sessions and any   *)
(* number of broken connections.                                             *)
EXTENDS RemoteLock, TLAPS

\* The acquire script moves its session along AcquireSteps and records only the
\* identity of that session.
LEMMA AcquireTyped ==
  ASSUME TypeOK, NEW s \in Sessions, Acquire(s)
  PROVE  TypeOK'
BY NobodyAssumption, MaxFaultsAssumption
   DEF TypeOK, Ids, ClientStates, ScriptStates, AcquireSteps, ReleaseSteps, Client, Script,
       Acquire, StartAcquire, MakeDir, WriteOwner, WriteJson, Granted, Refused

\* The release script moves its session along ReleaseSteps and forgets the
\* recorded owner.
LEMMA ReleaseTyped ==
  ASSUME TypeOK, NEW s \in Sessions, Release(s)
  PROVE  TypeOK'
BY NobodyAssumption, MaxFaultsAssumption
   DEF TypeOK, Ids, ClientStates, ScriptStates, AcquireSteps, ReleaseSteps, Client, Script,
       Release, StartRelease, TestOwner, RemoveFiles, RemoveDir, Released

\* What comes from outside the two scripts, a broken connection or the operator
\* who removes a stale lock, stays in range too: only the former spends a fault.
LEMMA OutsideTyped ==
  ASSUME TypeOK, OperatorCleanup \/ \E s \in Sessions : Disconnect(s)
  PROVE  TypeOK'
<1> USE MaxFaultsAssumption
    DEF TypeOK, Ids, ClientStates, ScriptStates, AcquireSteps, ReleaseSteps
<1>1. CASE OperatorCleanup
  BY <1>1 DEF OperatorCleanup
<1>2. CASE \E s \in Sessions : Disconnect(s)
  <2>1. PICK s \in Sessions : Disconnect(s)
    BY <1>2
  <2>2. QED
    BY <2>1 DEF Disconnect
<1>3. QED
  BY <1>1, <1>2

\* Every variable of the lock stays in its range, whatever breaks.
THEOREM TypeCorrect == Spec => []TypeOK
<1>1. ASSUME Init PROVE TypeOK
  <2> USE <1>1 DEF Init
  <2>1. client \in [Sessions -> ClientStates] /\ script \in [Sessions -> ScriptStates]
    BY DEF ClientStates, ScriptStates
  <2>2. dir \in BOOLEAN
    OBVIOUS
  <2>3. owner \in Ids \cup {Nobody} /\ faults \in 0..MaxFaults
    BY MaxFaultsAssumption
  <2>4. QED
    BY <2>1, <2>2, <2>3 DEF TypeOK
<1>2. ASSUME TypeOK, [Next]_vars PROVE TypeOK'
  <2>1. CASE UNCHANGED vars
    BY <1>2, <2>1 DEF vars, TypeOK
  <2>2. CASE Next
    BY <1>2, <2>2, AcquireTyped, ReleaseTyped, OutsideTyped DEF Next
  <2>3. QED
    BY <1>2, <2>1, <2>2
<1>3. QED
  BY <1>1, <1>2, PTL DEF Spec

\* A step of the acquire script keeps the lock invariant: only mkdir adds a
\* claim, and it succeeds only when the directory is missing, that is, when
\* nobody has a claim.
LEMMA AcquireKeepsLock ==
  ASSUME TypeOK, LockInv, NEW s \in Sessions, Acquire(s)
  PROVE  LockInv'
<1> USE DEF TypeOK, LockInv, ScriptOfClient, Claims, Client, Script,
            ClientStates, ScriptStates, AcquireSteps, ReleaseSteps
<1>1. CASE StartAcquire(s)
  BY <1>1 DEF StartAcquire
<1>2. CASE MakeDir(s)
  BY <1>2 DEF MakeDir
<1>3. CASE WriteOwner(s)
  BY <1>3 DEF WriteOwner
<1>4. CASE WriteJson(s)
  BY <1>4 DEF WriteJson
<1>5. CASE Granted(s)
  BY <1>5 DEF Granted
<1>6. CASE Refused(s)
  BY <1>6 DEF Refused
<1>7. QED
  BY <1>1, <1>2, <1>3, <1>4, <1>5, <1>6 DEF Acquire

\* A step of the release script keeps the lock invariant: the directory is
\* removed by the session that has the only claim, which it gives up.
LEMMA ReleaseKeepsLock ==
  ASSUME TypeOK, LockInv, NEW s \in Sessions, Release(s)
  PROVE  LockInv'
<1> USE DEF TypeOK, LockInv, ScriptOfClient, Claims, Client, Script,
            ClientStates, ScriptStates, AcquireSteps, ReleaseSteps
<1>1. CASE StartRelease(s)
  BY <1>1 DEF StartRelease
<1>2. CASE TestOwner(s)
  BY <1>2 DEF TestOwner
<1>3. CASE RemoveFiles(s)
  BY <1>3 DEF RemoveFiles
<1>4. CASE RemoveDir(s)
  BY <1>4 DEF RemoveDir
<1>5. CASE Released(s)
  BY <1>5 DEF Released
<1>6. QED
  BY <1>1, <1>2, <1>3, <1>4, <1>5 DEF Release

\* The strengthened invariant: a claim on the lock keeps its directory in place,
\* and there is at most one claim.
THEOREM LockInvariant == Spec => []LockInv
<1>1. Init => LockInv
  BY DEF Init, LockInv, ScriptOfClient, Claims
<1>2. TypeOK /\ LockInv /\ [Next]_vars => LockInv'
  <2> SUFFICES ASSUME TypeOK, LockInv, [Next]_vars PROVE LockInv'
    OBVIOUS
  <2> USE DEF LockInv, ScriptOfClient, Claims, AcquireSteps, ReleaseSteps
  <2>1. ASSUME NEW s \in Sessions, Disconnect(s) PROVE LockInv'
    BY <2>1 DEF Disconnect, TypeOK, ClientStates, ScriptStates
  <2>2. CASE OperatorCleanup
    BY <2>2 DEF OperatorCleanup, Quiet
  <2>3. CASE UNCHANGED vars
    BY <2>3 DEF vars
  <2>4. QED
    BY <2>1, <2>2, <2>3, AcquireKeepsLock, ReleaseKeepsLock DEF Next
<1>3. QED
  BY <1>1, <1>2, TypeCorrect, PTL DEF Spec

\* Two sessions are never between the success of acquire() and their call of
\* release() at the same time, for any set of sessions.
THEOREM Exclusion == Spec => []MutualExclusion
<1>1. LockInv => MutualExclusion
  BY DEF LockInv, Claims, MutualExclusion
<1>2. QED
  BY <1>1, LockInvariant, PTL

-----------------------------------------------------------------------------
(* RemoteLock implements AbstractLock. *)

\* The session with the claim is the holder.
LEMMA ClaimantHolds ==
  ASSUME LockInv, NEW s \in Sessions, Claims(s)
  PROVE  Holder = s
BY DEF LockInv, Holder

\* Without a claim the directory decides.
LEMMA NobodyHolds ==
  ASSUME \A s \in Sessions : ~Claims(s)
  PROVE  Holder = IF dir THEN "left over" ELSE "free"
BY DEF Holder

\* A step that changes neither the claims nor the directory nor who is past
\* acquire() leaves the abstract lock alone.
LEMMA SameClaims ==
  ASSUME \A s \in Sessions : Claims(s)' <=> Claims(s), dir' = dir,
         \A s \in Sessions : client'[s] = "held" <=> client[s] = "held"
  PROVE  Holder' = Holder /\ Inside' = Inside
<1>1. Inside' = Inside
  BY DEF Inside
<1>2. (\E s \in Sessions : Claims(s))' <=> \E s \in Sessions : Claims(s)
  OBVIOUS
<1>3. (CHOOSE s \in Sessions : Claims(s)') = CHOOSE s \in Sessions : Claims(s)
  OBVIOUS
<1>4. Holder' = Holder
  BY <1>2, <1>3 DEF Holder
<1>5. QED
  BY <1>1, <1>4

\* What a step of one session leaves to the others.
Frame(s) ==
  \A t \in Sessions \ {s} : client'[t] = client[t] /\ script'[t] = script[t]

LEMMA OthersKeepClaims ==
  ASSUME NEW s \in Sessions, Frame(s)
  PROVE  /\ \A t \in Sessions \ {s} : Claims(t)' <=> Claims(t)
         /\ Inside' \ {s} = Inside \ {s}
BY DEF Frame, Claims, Inside

\* Every step of a session concerns its own client and script only.
LEMMA StepFrame ==
  ASSUME TypeOK, NEW s \in Sessions, Acquire(s) \/ Release(s) \/ Disconnect(s)
  PROVE  Frame(s)
<1> USE DEF TypeOK, Frame, Client, Script
<1>1. CASE Acquire(s)
  BY <1>1 DEF Acquire, StartAcquire, MakeDir, WriteOwner, WriteJson, Granted, Refused
<1>2. CASE Release(s)
  BY <1>2 DEF Release, StartRelease, TestOwner, RemoveFiles, RemoveDir, Released
<1>3. CASE Disconnect(s)
  BY <1>3 DEF Disconnect
<1>4. QED
  BY <1>1, <1>2, <1>3

\* Seen from outside, the claimant keeps the lock, enters, leaves, gives it back
\* or is lost.
LEMMA ClaimantSteps ==
  ASSUME LockInv, NEW s \in Sessions, Frame(s), Claims(s)
  PROVE  [Lock!Next]_<<Holder, Inside>>
<1>1. Holder = s
  BY ClaimantHolds
<1>2. \A t \in Sessions \ {s} : ~Claims(t)
  BY DEF LockInv
<1>3. \A t \in Sessions \ {s} : ~Claims(t)'
  BY <1>2, OthersKeepClaims
<1>4. Inside' \ {s} = Inside \ {s} /\ Inside' \subseteq Sessions /\ Inside \subseteq Sessions
  BY OthersKeepClaims DEF Inside
<1>5. CASE Claims(s)'
  <2>1. Holder' = s
    BY <1>5, <1>3 DEF Holder
  <2>2. CASE s \in Inside'
    BY <1>1, <1>4, <2>1, <2>2 DEF Lock!Next, Lock!Enter
  <2>3. CASE s \notin Inside'
    BY <1>1, <1>4, <2>1, <2>3 DEF Lock!Next, Lock!Leave
  <2>4. QED
    BY <2>2, <2>3
<1>6. CASE ~Claims(s)'
  <2>1. Holder' = IF dir' THEN "left over" ELSE "free"
    BY <1>3, <1>6 DEF Holder
  <2>2. Inside' = Inside \ {s}
    BY <1>4, <1>6 DEF Inside, Claims
  <2>3. CASE dir'
    BY <1>1, <2>1, <2>2, <2>3 DEF Lock!Next, Lock!Abandon
  <2>4. CASE ~dir'
    BY <1>1, <2>1, <2>2, <2>4 DEF Lock!Next, Lock!Give
  <2>5. QED
    BY <2>3, <2>4
<1>7. QED
  BY <1>5, <1>6

\* Without a claim a session may only take a lock that is free, or make one that
\* nobody will use.
LEMMA OtherSteps ==
  ASSUME LockInv, dir \in BOOLEAN, dir' \in BOOLEAN, NEW s \in Sessions, Frame(s), ~Claims(s),
         client'[s] # "held", Claims(s)' => ~dir, dir => dir'
  PROVE  [Lock!Next]_<<Holder, Inside>>
<1>1. Inside' = Inside
  BY OthersKeepClaims DEF Inside, Claims
<1>2. CASE Claims(s)'
  <2>1. \A t \in Sessions : ~Claims(t)
    BY <1>2 DEF LockInv
  <2>2. Holder = "free"
    BY <1>2, <2>1 DEF Holder
  <2>3. Holder' = s
    BY <1>2, <2>1, OthersKeepClaims DEF Holder
  <2>4. QED
    BY <1>1, <2>2, <2>3 DEF Lock!Next, Lock!Take
<1>3. CASE ~Claims(s)' /\ dir' = dir
  <2>1. \A t \in Sessions : Claims(t)' <=> Claims(t)
    BY <1>3, OthersKeepClaims
  <2>2. \A t \in Sessions : client'[t] = "held" <=> client[t] = "held"
    BY <1>1 DEF Inside
  <2>3. QED
    BY <1>3, <2>1, <2>2, SameClaims
<1>4. CASE ~Claims(s)' /\ dir' # dir
  <2>1. \A t \in Sessions : ~Claims(t) /\ ~Claims(t)'
    BY <1>4, OthersKeepClaims DEF LockInv
  <2>2. ~dir /\ dir'
    BY <1>4 DEF LockInv
  <2>3. Holder = "free" /\ Holder' = "left over"
    BY <2>1, <2>2 DEF Holder
  <2>4. QED
    BY <1>1, <2>3 DEF Lock!Next, Lock!Stray
<1>5. QED
  BY <1>2, <1>3, <1>4

\* A session without a claim that takes a step.
LEMMA UnclaimedSteps ==
  ASSUME TypeOK, TypeOK', LockInv, NEW s \in Sessions, ~Claims(s),
         Acquire(s) \/ Release(s) \/ Disconnect(s)
  PROVE  client'[s] # "held" /\ (Claims(s)' => ~dir) /\ (dir => dir')
<1> USE DEF TypeOK, Client, Script, Claims
<1>1. CASE Acquire(s)
  BY <1>1 DEF Acquire, StartAcquire, MakeDir, WriteOwner, WriteJson, Granted, Refused
<1>2. CASE Release(s)
  BY <1>2 DEF Release, StartRelease, TestOwner, RemoveFiles, RemoveDir, Released
<1>3. CASE Disconnect(s)
  BY <1>3 DEF Disconnect
<1>4. QED
  BY <1>1, <1>2, <1>3

\* The operator clears a lock without a claim.
LEMMA CleanupClears ==
  ASSUME LockInv, OperatorCleanup
  PROVE  Lock!Clear
<1>1. \A s \in Sessions : ~Claims(s) /\ ~Claims(s)'
  BY DEF OperatorCleanup, Quiet, Claims
<1>2. Holder = "left over" /\ Holder' = "free"
  BY <1>1 DEF OperatorCleanup, Holder
<1>3. Inside' = Inside
  BY DEF OperatorCleanup, Inside
<1>4. QED
  BY <1>2, <1>3 DEF Lock!Clear

\* The two scripts, run command by command by any number of sessions with broken
\* connections and unattended scripts, implement the atomic lock.
THEOREM LockImplemented == Spec => ImplementsLock
<1>1. Init => Lock!Init
  BY DEF Init, Lock!Init, Holder, Inside, Claims
<1>2. TypeOK /\ TypeOK' /\ LockInv /\ [Next]_vars => [Lock!Next]_<<Holder, Inside>>
  <2> SUFFICES ASSUME TypeOK, TypeOK', LockInv, [Next]_vars
               PROVE  [Lock!Next]_<<Holder, Inside>>
    OBVIOUS
  <2>1. ASSUME NEW s \in Sessions, Acquire(s) \/ Release(s) \/ Disconnect(s)
        PROVE  [Lock!Next]_<<Holder, Inside>>
    <3>1. Frame(s) /\ dir \in BOOLEAN /\ dir' \in BOOLEAN
      BY <2>1, StepFrame DEF TypeOK
    <3>2. CASE Claims(s)
      BY <3>1, <3>2, ClaimantSteps
    <3>3. CASE ~Claims(s)
      <4>1. client'[s] # "held" /\ (Claims(s)' => ~dir) /\ (dir => dir')
        BY <2>1, <3>3, UnclaimedSteps
      <4>2. QED
        BY <3>1, <3>3, <4>1, OtherSteps
    <3>4. QED
      BY <3>2, <3>3
  <2>2. CASE OperatorCleanup
    BY <2>2, CleanupClears DEF Lock!Next
  <2>3. CASE UNCHANGED vars
    BY <2>3, SameClaims DEF vars, Claims
  <2>4. QED
    BY <2>1, <2>2, <2>3 DEF Next
<1>3. QED
  BY <1>1, <1>2, TypeCorrect, LockInvariant, PTL DEF Spec, Lock!Spec, ImplementsLock

-----------------------------------------------------------------------------
(* What the scripts inherit from AbstractLock: mutual exclusion. *)

\* Every step of the abstract lock keeps the one holder, and nobody else inside.
LEMMA NextAlone ==
  ASSUME Lock!TypeOK, Lock!OnlyTheHolderInside, [Lock!Next]_<<Holder, Inside>>
  PROVE  Lock!TypeOK' /\ Lock!OnlyTheHolderInside'
<1> USE SessionsAssumption DEF Lock!TypeOK, Lock!OnlyTheHolderInside
<1>1. ASSUME NEW h \in Sessions, Lock!Take(h)
      PROVE Lock!TypeOK' /\ Lock!OnlyTheHolderInside'
  <2>1. Inside = {}
    BY <1>1 DEF Lock!Take
  <2>2. QED
    BY <1>1, <2>1 DEF Lock!Take
<1>2. ASSUME NEW h \in Sessions, Lock!Enter(h) \/ Lock!Leave(h)
      PROVE Lock!TypeOK' /\ Lock!OnlyTheHolderInside'
  BY <1>2 DEF Lock!Enter, Lock!Leave
<1>3. ASSUME NEW h \in Sessions, Lock!Give(h) \/ Lock!Abandon(h)
      PROVE Lock!TypeOK' /\ Lock!OnlyTheHolderInside'
  <2>1. Inside' = {}
    BY <1>3 DEF Lock!Give, Lock!Abandon
  <2>2. QED
    BY <1>3, <2>1 DEF Lock!Give, Lock!Abandon
<1>4. CASE Lock!Stray \/ Lock!Clear
  <2>1. Inside = {}
    BY <1>4 DEF Lock!Stray, Lock!Clear
  <2>2. QED
    BY <1>4, <2>1 DEF Lock!Stray, Lock!Clear
<1>5. CASE UNCHANGED <<Holder, Inside>>
  BY <1>5
<1>6. QED
  BY <1>1, <1>2, <1>3, <1>4, <1>5 DEF Lock!Next

\* The scripts are past acquire() only with the lock in hand, through losses,
\* stray locks and their removal: AbstractLock promises it, and the refinement
\* passes it on.
THEOREM HolderAlone == Spec => []Lock!OnlyTheHolderInside
<1>1. Lock!Init => Lock!TypeOK /\ Lock!OnlyTheHolderInside
  BY DEF Lock!Init, Lock!TypeOK, Lock!OnlyTheHolderInside
<1>2. /\ Lock!TypeOK /\ Lock!OnlyTheHolderInside /\ [Lock!Next]_<<Holder, Inside>>
      => Lock!TypeOK' /\ Lock!OnlyTheHolderInside'
  BY NextAlone
<1>3. QED
  BY <1>1, <1>2, LockImplemented, PTL DEF ImplementsLock, Lock!Spec

=============================================================================
