-------------------------- MODULE MCProtocolGates --------------------------
(***************************************************************************)
(* An instance of ProtocolGates for TLC.                                   *)
(***************************************************************************)
EXTENDS ProtocolGates

MCOrigins == [c \in SPAClients |-> IF c = "spa1" THEN {"origin1"} ELSE {"origin2"}]
============================================================================
