---------------------------- MODULE MCRemoteLock ----------------------------
(* TLC instances of RemoteLock: the first two of three sessions were started *)
(* in the same second with the same archive, and share a transaction id.     *)
EXTENDS RemoteLock

MCSessions == {"s1", "s2", "s3"}
MCIdOf == [s \in MCSessions |-> IF s = "s3" THEN "t2" ELSE "t1"]

=============================================================================
