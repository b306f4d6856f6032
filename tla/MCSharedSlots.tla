--------------------------- MODULE MCSharedSlots ---------------------------
(***************************************************************************)
(* An instance of SharedSlots for TLC.                                     *)
(***************************************************************************)
EXTENDS SharedSlots, TLC

CONSTANTS c1, u1, b1, t1, t2

MCAllowed == [c \in SPAClients |-> {"openid"}]
MCPermissions == [u \in Users |-> {}]
MCRequested == {{"openid"}}
MCHints == {""}
============================================================================
