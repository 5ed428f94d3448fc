----------------------------- MODULE MCMovement -----------------------------
(***************************************************************************)
(* Small instances of Movement for TLC.                                    *)
(***************************************************************************)
EXTENDS Movement
=============================================================================
