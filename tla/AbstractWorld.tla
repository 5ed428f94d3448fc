---------------------------- MODULE AbstractWorld ----------------------------
(***************************************************************************)
(* What a game server promises about where characters are: a character is  *)
(* in the world at most once, it comes in where the table has it, and goes *)
(* out leaving the table where it stands; a stop leaves the table where    *)
(* everybody stands, after which nobody comes in or walks.  Only a crash   *)
(* loses steps, and only those since the character came in.                *)
(* There are no sessions, packets, zones or Player objects here.           *)
(* GameWorld implements it in its ordinary environment.                    *)
(***************************************************************************)
EXTENDS Functions

CONSTANTS
    Chars,    \* the characters
    Positions \* where they can stand

VARIABLES
    phase, \* "running", "stopping", "exited" or "crashed"
    world, \* character -> position, for the characters in the world
    saved  \* character -> position, the table

vars == <<phase, world, saved>>

Nobody == [c \in {} |-> c]

Init ==
    /\ phase = "running"
    /\ world = Nobody
    /\ saved \in [Chars -> Positions]

\* A character comes in where it was saved.
Enter(c) ==
    /\ phase = "running"
    /\ c \notin DOMAIN world
    /\ world' = [d \in DOMAIN world \cup {c} |-> IF d = c THEN saved[c] ELSE world[d]]
    /\ UNCHANGED <<phase, saved>>

Walk(c, to) ==
    /\ phase = "running"
    /\ c \in DOMAIN world
    /\ world' = [world EXCEPT ![c] = to]
    /\ UNCHANGED <<phase, saved>>

\* A character goes out and is saved where it stands.
Leave(c) ==
    /\ phase \in {"running", "stopping"}
    /\ c \in DOMAIN world
    /\ world' = Restrict(world, DOMAIN world \ {c})
    /\ saved' = [saved EXCEPT ![c] = world[c]]
    /\ UNCHANGED phase

\* All are saved where they stand, and the world stands still.
Stop ==
    /\ phase = "running"
    /\ phase' = "stopping"
    /\ saved' = [c \in Chars |-> IF c \in DOMAIN world THEN world[c] ELSE saved[c]]
    /\ UNCHANGED world

Exit ==
    /\ phase = "stopping"
    /\ phase' = "exited"
    /\ world' = Nobody
    /\ UNCHANGED saved

Crash ==
    /\ phase \in {"running", "stopping"}
    /\ phase' = "crashed"
    /\ world' = Nobody
    /\ UNCHANGED saved

Restart ==
    /\ phase \in {"exited", "crashed"}
    /\ phase' = "running"
    /\ UNCHANGED <<world, saved>>

Next ==
    \/ \E c \in Chars : Enter(c) \/ Leave(c) \/ \E to \in Positions : Walk(c, to)
    \/ Stop
    \/ Exit
    \/ Crash
    \/ Restart

Spec == Init /\ [][Next]_vars
=============================================================================
