---------------------------- MODULE AbstractLock ----------------------------
(***************************************************************************)
(* What the lock of apply and rollback promises, whatever breaks: it has   *)
(* one holder at most, only the holder works on the document root, it      *)
(* passes from one holder to another only through being free, and a lock   *)
(* whose holder is lost stays until an operator clears it.                 *)
(*                                                                         *)
(* RemoteLock (the two remote scripts) and Deploy (the sessions that use   *)
(* the lock as one step) both implement it, each with a mapping of its     *)
(* own: this is what lets Deploy take the lock for one step.               *)
(***************************************************************************)

CONSTANTS
  Holders,    \* those who contend for the lock
  Free,       \* holder of a lock that is free
  LeftOver    \* holder of a lock that nobody stands behind any more

VARIABLES
  holder,   \* who has the lock
  inside    \* who works under its protection

TypeOK == holder \in Holders \cup {Free, LeftOver} /\ inside \in SUBSET Holders

Init == holder = Free /\ inside = {}

\* acquire() gets the lock; it may return at once or later.
Take(h) ==
  /\ holder = Free
  /\ holder' = h
  /\ inside' \in {inside, inside \cup {h}}

Enter(h) == holder = h /\ inside' = inside \cup {h} /\ UNCHANGED holder

\* The holder is done, and gives the lock back at once or later.
Leave(h) == inside' = inside \ {h} /\ UNCHANGED holder
Give(h) == holder = h /\ holder' = Free /\ inside' = inside \ {h}

\* The holder is lost, or the lock was made for somebody who never learns of it.
Abandon(h) == holder = h /\ holder' = LeftOver /\ inside' = inside \ {h}
Stray == holder = Free /\ holder' = LeftOver /\ UNCHANGED inside

\* Only a lock that nobody stands behind is removed by hand.
Clear == holder = LeftOver /\ holder' = Free /\ UNCHANGED inside

Next ==
  \/ \E h \in Holders : Take(h) \/ Enter(h) \/ Leave(h) \/ Give(h) \/ Abandon(h)
  \/ Stray
  \/ Clear

Spec == Init /\ [][Next]_<<holder, inside>>

\* Who works under the protection of the lock has it.
OnlyTheHolderInside == inside \subseteq {holder}

=============================================================================
