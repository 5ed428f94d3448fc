---------------------------- MODULE MCAuthServer ----------------------------
(***************************************************************************)
(* Small instances of AuthServer for TLC.                                  *)
(***************************************************************************)
EXTENDS AuthServer, TLC

\* Endpoints, accounts, characters and keys are interchangeable.
Symmetric ==
    Permutations(Endpoints) \cup Permutations(Accounts)
        \cup Permutations(Chars) \cup Permutations(Keys)
=============================================================================
