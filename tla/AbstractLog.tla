----------------------------- MODULE AbstractLog -----------------------------
(***************************************************************************)
(* What the logger promises to the threads that call it: there is one      *)
(* order of all entries, in which an entry takes its place when Log        *)
(* accepts it, and the entries are written in that order, each once and,   *)
(* in time, all of them.  LogQueue implements it.                          *)
(***************************************************************************)
EXTENDS Integers, Sequences

CONSTANTS
    Threads,   \* the threads that log
    MaxEntries \* entries each of them logs: a bound for TLC

VARIABLES
    accepted, \* every entry that was logged, in the order of the log
    logged,   \* thread -> number of entries it has logged
    done      \* how many entries of accepted are written

vars == <<accepted, logged, done>>

Init ==
    /\ accepted = <<>>
    /\ logged = [t \in Threads |-> 0]
    /\ done = 0

\* A thread logs its next entry.
Accept(t) ==
    /\ logged[t] < MaxEntries
    /\ logged' = [logged EXCEPT ![t] = @ + 1]
    /\ accepted' = Append(accepted, [thread |-> t, n |-> logged[t] + 1])
    /\ UNCHANGED done

\* The next entry is written.
Write ==
    /\ done < Len(accepted)
    /\ done' = done + 1
    /\ UNCHANGED <<accepted, logged>>

Next == Write \/ \E t \in Threads : Accept(t)

\* What the log promises of its order, without the promise to write.
SafeSpec == Init /\ [][Next]_vars

Spec == SafeSpec /\ WF_vars(Write)
=============================================================================
