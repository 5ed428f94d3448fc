-------------------------- MODULE MCServerRegistry --------------------------
(***************************************************************************)
(* Small instances of ServerRegistry for TLC: two processes that may use   *)
(* the same address one after the other, or at the same time.              *)
(***************************************************************************)
EXTENDS ServerRegistry
=============================================================================
