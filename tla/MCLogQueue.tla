----------------------------- MODULE MCLogQueue -----------------------------
(***************************************************************************)
(* Small instances of LogQueue for TLC.                                    *)
(***************************************************************************)
EXTENDS LogQueue
=============================================================================
