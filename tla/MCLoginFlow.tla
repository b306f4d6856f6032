---------------------------- MODULE MCLoginFlow ----------------------------
(***************************************************************************)
(* Instances of LoginFlow for TLC.                                         *)
(***************************************************************************)
EXTENDS LoginFlow, TLC

CONSTANTS c1, u1, u2, b1, b2, t1, t2, read

MCAllowed == [c \in Clients |-> {"openid", read}]
MCPermissions == [u \in Subjects |-> IF u = u1 THEN {read} ELSE {}]
MCRequested == {{"openid", read}}
MCHints == {NoID}
MCHinted == {u2}

ThreadSymmetry == Permutations(Threads)
LoginSymmetry == Permutations(Threads) \cup Permutations(Browsers)
============================================================================
