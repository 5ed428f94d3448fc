------------------------- MODULE MCClientConnection -------------------------
(***************************************************************************)
(* Small instances of ClientConnection for TLC.                            *)
(***************************************************************************)
EXTENDS ClientConnection
=============================================================================
