-------------------------- MODULE MCTokenEndpoint --------------------------
(***************************************************************************)
(* Instances of TokenEndpoint for TLC.                                     *)
(***************************************************************************)
EXTENDS TokenEndpoint, GrantsOfStore, TLC

CONSTANTS c1, c2, s1, u1, u2, t1, t2, read

MCAllowed == [c \in Clients |->
    IF c \in SPAClients THEN Scopes ELSE AppScopes]
MCPermissions == [u \in Subjects |-> IF u \in Users THEN {read} ELSE AppScopes]
MCGrants == {{"openid"}, {"openid", "offline_access", read}}
MCOffline == {{"openid", "offline_access"}}

ThreadSymmetry == Permutations(Threads)
============================================================================
