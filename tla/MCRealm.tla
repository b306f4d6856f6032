------------------------------ MODULE MCRealm ------------------------------
(***************************************************************************)
(* An instance of Realm for TLC.                                           *)
(***************************************************************************)
EXTENDS Realm, TLC

CONSTANTS c1, s1, u1, u2, b1, b2, t1, t2, read

MCAllowed == [c \in Clients |-> {"openid", "offline_access", read}]
MCPermissions == [u \in Subjects |-> IF u = u2 THEN {} ELSE {read}]
MCRequested == {{"openid", "offline_access", read}}
MCHints == {u2}

BrowserSymmetry == Permutations(Browsers)
============================================================================
