----------------------------- MODULE RemoteLock -----------------------------
(***************************************************************************)
(* The exclusive lock of apply and rollback (deploy.py, class RemoteLock): *)
(* a directory workdir/locks/deploy.lock made with mkdir by one remote     *)
(* shell script and removed by another one.                                *)
(*                                                                         *)
(* A session is one run of the command line.  Each of its two lock scripts *)
(* runs on the server, one command at a time, while the session waits for  *)
(* the answer of ssh.  The connection may break: the session then goes on  *)
(* without an answer, and the script either dies with its connection or    *)
(* runs on, an unattended script.  The owner file holds a transaction id,  *)
(* which has a resolution of one second: sessions may share one.           *)
(***************************************************************************)
EXTENDS Naturals

CONSTANTS
  Sessions,   \* the runs of apply and rollback that contend for the lock
  IdOf,       \* IdOf[s]: the transaction id of s, the same for two sessions
              \* that were started within one second
  Nobody,     \* what the owner file says when there is no owner file
  MaxFaults   \* bound: broken connections and crashes in one behaviour

Ids == {IdOf[s] : s \in Sessions}

ASSUME NobodyAssumption == Nobody \notin Ids
ASSUME SessionsAssumption == {"free", "left over"} \cap Sessions = {}
ASSUME MaxFaultsAssumption == MaxFaults \in Nat

VARIABLES
  client,   \* client[s]: what the local process of s is doing
  script,   \* script[s]: the next command of the remote script of s
  dir,      \* the directory deploy.lock exists
  owner,    \* the transaction id in deploy.lock/owner
  faults    \* faults so far

vars == <<client, script, dir, owner, faults>>

ClientStates == {"idle", "acquiring", "held", "releasing", "done"}
AcquireSteps == {"mkdir", "owner", "json", "granted", "refused"}
ReleaseSteps == {"test", "rm", "rmdir", "finished"}
ScriptStates == {"none"} \cup AcquireSteps \cup ReleaseSteps

\* Every variable stays in its range.
TypeOK ==
  /\ client \in [Sessions -> ClientStates]
  /\ script \in [Sessions -> ScriptStates]
  /\ dir \in BOOLEAN
  /\ owner \in Ids \cup {Nobody}
  /\ faults \in 0..MaxFaults

Init ==
  /\ client = [s \in Sessions |-> "idle"]
  /\ script = [s \in Sessions |-> "none"]
  /\ dir = FALSE
  /\ owner = Nobody
  /\ faults = 0

Client(s, from, to) == client[s] = from /\ client' = [client EXCEPT ![s] = to]
Script(s, from, to) == script[s] = from /\ script' = [script EXCEPT ![s] = to]

-----------------------------------------------------------------------------
(* The script of acquire(). *)

StartAcquire(s) ==
  /\ Client(s, "idle", "acquiring")
  /\ script' = [script EXCEPT ![s] = "mkdir"]
  /\ UNCHANGED <<dir, owner, faults>>

\* mkdir is atomic: it makes the directory or fails, and the script exits 78.
MakeDirs(s) == \* mutant: mkdir -p
  Script(s, "mkdir", "owner") /\ dir' = TRUE /\ UNCHANGED <<client, owner, faults>>
MakeDir(s) ==
  /\ \/ ~dir /\ Script(s, "mkdir", "owner")
     \/ dir /\ Script(s, "mkdir", "refused")
  /\ dir' = TRUE
  /\ UNCHANGED <<client, owner, faults>>

\* The redirection into the owner file overwrites it, and fails (set -e) when
\* the directory is gone.
WriteOwner(s) ==
  /\ \/ /\ dir
        /\ Script(s, "owner", "json")
        /\ owner' = IdOf[s]
     \/ /\ ~dir
        /\ Script(s, "owner", "refused")
        /\ UNCHANGED owner
  /\ UNCHANGED <<client, dir, faults>>

\* lock.json is written to a temporary name and renamed; nothing reads it.
WriteJsonAndWait(s) == \* mutant: the script waits for something before it exits
  Script(s, "json", "json") /\ UNCHANGED <<client, dir, owner, faults>>
WriteJson(s) ==
  /\ \/ dir /\ Script(s, "json", "granted")
     \/ ~dir /\ Script(s, "json", "refused")
  /\ UNCHANGED <<client, dir, owner, faults>>

\* self.acquired = True, only after the script is known to have succeeded.
GrantedTyped(s) == \* mutant: a state that nothing else knows
  Client(s, "acquiring", "acquired") /\ Script(s, "granted", "none") /\ UNCHANGED <<dir, owner, faults>>
Granted(s) ==
  /\ Client(s, "acquiring", "held")
  /\ Script(s, "granted", "none")
  /\ UNCHANGED <<dir, owner, faults>>

\* acquire() raises: the session ends, and never calls release().
RefusedInTry(s) == \* mutant: acquire() inside the try block, acquired set beforehand
  /\ Client(s, "acquiring", "releasing")
  /\ Script(s, "refused", "test")
  /\ UNCHANGED <<dir, owner, faults>>
Refused(s) ==
  /\ Client(s, "acquiring", "done")
  /\ Script(s, "refused", "none")
  /\ UNCHANGED <<dir, owner, faults>>

-----------------------------------------------------------------------------
(* The script of release(). *)

ForgetRelease(s) == \* mutant: release() returns early
  Client(s, "held", "done") /\ UNCHANGED <<script, dir, owner, faults>>
StartRelease(s) ==
  /\ Client(s, "held", "releasing")
  /\ script' = [script EXCEPT ![s] = "test"]
  /\ UNCHANGED <<dir, owner, faults>>

\* [ -f owner ] && [ "$(cat owner)" = "$expected" ]
TestOwner(s) ==
  /\ \/ owner = IdOf[s] /\ Script(s, "test", "rm")
     \/ owner # IdOf[s] /\ Script(s, "test", "finished")
  /\ UNCHANGED <<client, dir, owner, faults>>

\* rm -rf is not atomic: first the files of the directory ...
RemoveFiles(s) ==
  /\ Script(s, "rm", "rmdir")
  /\ owner' = Nobody
  /\ UNCHANGED <<client, dir, faults>>

\* ... then the directory, which must be empty by then.
RemoveDir(s) ==
  /\ Script(s, "rmdir", "finished")
  /\ dir' = (owner # Nobody)
  /\ UNCHANGED <<client, owner, faults>>

\* check=False: the session ends whatever the script did.
Released(s) ==
  /\ Client(s, "releasing", "done")
  /\ Script(s, "finished", "none")
  /\ UNCHANGED <<dir, owner, faults>>

-----------------------------------------------------------------------------
(* What goes wrong around the two scripts. *)

\* The connection breaks, or the local process dies: the session is over, and
\* its remote script, if one runs, is killed with it or runs on unattended.
Disconnect(s) ==
  /\ faults < MaxFaults
  /\ faults' = faults + 1
  /\ client[s] \in {"acquiring", "held", "releasing"}
  /\ client' = [client EXCEPT ![s] = "done"]
  /\ script' \in {script, [script EXCEPT ![s] = "none"]}
  /\ UNCHANGED <<dir, owner>>

\* The tool has no forced cleanup: a left-over lock is removed by an operator,
\* by hand.  The operator makes sure that no session is running and that no
\* release script is still at work, but does not see an unattended acquire.
Quiet ==
  \A s \in Sessions : /\ client[s] \in {"idle", "done"}
                      /\ script[s] \notin {"test", "rm", "rmdir"}

OperatorCleanup ==
  /\ dir
  /\ Quiet
  /\ dir' = FALSE
  /\ owner' = Nobody
  /\ UNCHANGED <<client, script, faults>>

-----------------------------------------------------------------------------

Acquire(s) ==
  \/ StartAcquire(s) \/ MakeDir(s) \/ WriteOwner(s) \/ WriteJson(s)
  \/ Granted(s) \/ Refused(s)

Release(s) ==
  \/ StartRelease(s) \/ TestOwner(s) \/ RemoveFiles(s) \/ RemoveDir(s)
  \/ Released(s)

Next ==
  \/ \E s \in Sessions : Acquire(s) \/ Release(s) \/ Disconnect(s)
  \/ OperatorCleanup

Spec == Init /\ [][Next]_vars

\* A script that has started runs on, and a session reads the answer of ssh and
\* calls release() from its finally block.  Nothing makes a session start, a
\* connection break or an operator act.
Fairness ==
  \A s \in Sessions :
    WF_vars(\/ MakeDir(s) \/ WriteOwner(s) \/ WriteJson(s)
            \/ Granted(s) \/ Refused(s) \/ Release(s))

FairSpec == Spec /\ Fairness

-----------------------------------------------------------------------------
(* Properties. *)

\* The critical section of apply and rollback is exclusive: acquire() returns
\* in two sessions at once only if the first one has already called release().
MutualExclusion ==
  \A s, t \in Sessions : client[s] = "held" /\ client[t] = "held" => s = t

\* The session is on its way into the critical section, in it, or its release
\* script still works on the directory, attended or not.
Claims(s) ==
  \/ client[s] = "held"
  \/ client[s] = "acquiring" /\ script[s] \in {"owner", "json", "granted"}
  \/ script[s] \in {"test", "rm", "rmdir"}

\* What the running script of a session says of the session itself.
ScriptOfClient ==
  \A s \in Sessions :
    /\ client[s] = "idle" => script[s] = "none"
    /\ client[s] = "acquiring" => script[s] \in AcquireSteps
    /\ client[s] = "held" => script[s] = "none"
    /\ client[s] = "releasing" => script[s] \in ReleaseSteps

\* Why the lock is exclusive.  While a session has a claim on it, from its mkdir
\* to the end of its rm -rf, the directory exists, so that no other mkdir can
\* succeed: neither an unattended script nor the release of another session
\* takes it away; and at most one session has a claim.
LockInv ==
  /\ ScriptOfClient
  /\ \A s \in Sessions : Claims(s) => dir
  /\ \A s, t \in Sessions : Claims(s) /\ Claims(t) => s = t

\* No live session and no running script stands behind the lock directory.
Orphaned ==
  \A s \in Sessions : client[s] \in {"idle", "done"} /\ script[s] \in {"none", "granted", "refused", "finished"}

\* A lock directory is removed in the end, unless the session that made it
\* lost its connection or died: without a fault no lock is ever left behind.
LockFreedOrFault == dir ~> (~dir \/ faults > 0)

\* After faults too, the lock is free again or recognisably orphaned: it is
\* never held up by a session that waits for another one.
LockFreedOrOrphaned == dir ~> (~dir \/ Orphaned)

-----------------------------------------------------------------------------
(* The lock as its users see it. *)

\* The session that has a claim has the lock; a directory without a claim is
\* left over: its session is lost, or never learnt that it had the lock.
Holder ==
  IF \E s \in Sessions : Claims(s) THEN CHOOSE s \in Sessions : Claims(s)
  ELSE IF dir THEN "left over" ELSE "free"

Inside == {s \in Sessions : client[s] = "held"}

Lock == INSTANCE AbstractLock WITH
  Holders <- Sessions, Free <- "free", LeftOver <- "left over",
  holder <- Holder, inside <- Inside

\* The scripts implement a lock that is taken, given back, lost and cleared in
\* one step each, with the claims of RemoteLock as its holder: a mkdir that
\* succeeds takes it, the end of the claimant's rm -rf gives it back.
ImplementsLock == Lock!Spec

=============================================================================
