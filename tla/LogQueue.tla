------------------------------ MODULE LogQueue ------------------------------
(***************************************************************************)
(* The asynchronous logger every server uses (Log.h): any thread pushes    *)
(* entries to a queue under a mutex and notifies a condition variable; one *)
(* worker takes them out one by one, keeps the latest in a buffer for the  *)
(* web GUI and writes them.                                                *)
(*                                                                         *)
(* A step is what happens between two points at which another thread can   *)
(* run.  The worker gives up the mutex while it handles an entry, and      *)
(* holds it from the test of its wait condition until it is asleep.        *)
(* StopLogThread is left out: it is called by the destructor of a server,  *)
(* and every main ends in std::_Exit before that.                          *)
(***************************************************************************)
EXTENDS Integers, Sequences

CONSTANTS
    Threads,    \* the threads that log
    MaxEntries, \* entries each of them logs: a bound for TLC
    BufferMax   \* LOG_BUFFER_MAX

ASSUME LogQueueAssumption == MaxEntries \in Nat /\ BufferMax \in Nat \ {0}

VARIABLES
    queue,    \* log_queue
    held,     \* the worker holds log_queue_mutex
    worker,   \* where the worker is
    entry,    \* the entry in the worker's hands, as a sequence of at most one
    buffer,   \* log_buffer
    written,  \* every entry the worker has handled, in order
    logged,   \* thread -> entries it has pushed
    notifying \* threads that have pushed and not yet called notify_one

vars == <<queue, held, worker, entry, buffer, written, logged, notifying>>

Entry == [thread : Threads, n : 1 .. MaxEntries]

Init ==
    /\ queue = <<>>
    /\ held = FALSE
    /\ worker = "locking"
    /\ entry = <<>>
    /\ buffer = <<>>
    /\ written = <<>>
    /\ logged = [t \in Threads |-> 0]
    /\ notifying = {}

-----------------------------------------------------------------------------
(* Log                                                                     *)

\* log_queue_mutex is free for a thread that logs.
\* Mutant: the queue is pushed to without the mutex.
QueueUnguarded == TRUE
QueueFree == ~held

\* log_queue after a push.
Queued(q, e) == Append(q, e)

\* Log, the scope of the lock_guard.
Push(t) ==
    /\ QueueFree
    /\ t \notin notifying
    /\ logged[t] < MaxEntries
    /\ logged' = [logged EXCEPT ![t] = @ + 1]
    /\ queue' = Queued(queue, [thread |-> t, n |-> logged[t] + 1])
    /\ notifying' = notifying \cup {t}
    /\ UNCHANGED <<held, worker, entry, buffer, written>>

\* Log, notify_one: a worker that is not asleep does not notice.
Notify(t) ==
    /\ t \in notifying
    /\ notifying' = notifying \ {t}
    /\ worker' = IF worker = "asleep" THEN "waking" ELSE worker
    /\ UNCHANGED <<queue, held, entry, buffer, written, logged>>

-----------------------------------------------------------------------------
(* LogWorker                                                               *)

\* It takes the mutex: at the head of the loop, on waking, or to go on after an
\* entry.
Lock ==
    /\ ~held
    /\ \/ worker \in {"locking", "waking"} /\ worker' = "testing"
       \/ worker = "relocking" /\ worker' = "draining"
    /\ held' = TRUE
    /\ UNCHANGED <<queue, entry, buffer, written, logged, notifying>>

\* The wait condition.
Test ==
    /\ worker = "testing"
    /\ worker' = IF queue = <<>> THEN "dozing" ELSE "draining"
    /\ UNCHANGED <<queue, held, entry, buffer, written, logged, notifying>>

\* wait falls asleep and releases the mutex.
Sleep ==
    /\ worker = "dozing"
    /\ worker' = "asleep"
    /\ held' = FALSE
    /\ UNCHANGED <<queue, entry, buffer, written, logged, notifying>>

\* A condition variable may wake up unasked.
WakeSpuriously ==
    /\ worker = "asleep"
    /\ worker' = "waking"
    /\ UNCHANGED <<queue, held, entry, buffer, written, logged, notifying>>

\* log_queue after pop.
Popped(q) == Tail(q)

\* The inner loop takes an entry and unlocks, or ends with the queue empty and
\* the scope of the unique_lock with it.
Take ==
    /\ worker = "draining"
    /\ \/ /\ queue # <<>>
          /\ entry' = <<Head(queue)>>
          /\ queue' = Popped(queue)
          /\ worker' = "handling"
       \/ /\ queue = <<>>
          /\ worker' = "locking"
          /\ UNCHANGED <<queue, entry>>
    /\ held' = FALSE
    /\ UNCHANGED <<buffer, written, logged, notifying>>

\* log_buffer after an entry.
\* Mutant: nothing is ever dropped.
BufferedUnbounded(b, e) == Append(b, e)
\* Mutant: the entry that was just added is dropped when the buffer is full.
BufferedNewestLost(b, e) == IF Len(b) = BufferMax THEN b ELSE Append(b, e)
Buffered(b, e) ==
    IF Len(b) = BufferMax THEN Append(Tail(b), e) ELSE Append(b, e)

Handle ==
    /\ worker = "handling"
    /\ buffer' = Buffered(buffer, entry[1])
    /\ written' = Append(written, entry[1])
    /\ entry' = <<>>
    /\ worker' = "relocking"
    /\ UNCHANGED <<queue, held, logged, notifying>>

-----------------------------------------------------------------------------
LogWorker == Lock \/ Test \/ Sleep \/ Take \/ Handle

Next == (\E t \in Threads : Push(t) \/ Notify(t)) \/ LogWorker \/ WakeSpuriously

\* A thread that has pushed goes on to notify, and the worker goes on: only it
\* keeps the mutex beyond a step, so the mutex is free whenever it asks for it.
Spec ==
    /\ Init
    /\ [][Next]_vars
    /\ \A t \in Threads : WF_vars(Notify(t))
    /\ WF_vars(LogWorker)

-----------------------------------------------------------------------------
(* Properties                                                              *)

\* Every variable has the type the code gives it.
TypeOK ==
    /\ queue \in Seq(Entry)
    /\ held \in BOOLEAN
    /\ worker \in {"locking", "testing", "dozing", "asleep", "waking", "draining",
                   "handling", "relocking"}
    /\ entry \in Seq(Entry)
    /\ buffer \in Seq(Entry) /\ Len(buffer) <= BufferMax
    /\ written \in Seq(Entry)
    /\ logged \in [Threads -> 0 .. MaxEntries]
    /\ notifying \subseteq Threads

\* What the web GUI is shown are the latest entries, without a gap.
BufferIsLatest ==
    LET kept == IF Len(written) < BufferMax THEN Len(written) ELSE BufferMax
    IN  buffer = SubSeq(written, Len(written) - kept + 1, Len(written))

\* The logger is one log: wherever an entry is between Log and the output, the
\* written entries, the one in the worker's hands and the queue make up one
\* sequence that only grows at its end, and all of it gets written: nothing is lost,
\* doubled or overtaken, and no notification between the worker's test of the queue
\* and its falling asleep.
Abstract ==
    INSTANCE AbstractLog WITH
        accepted <- written \o entry \o queue,
        done <- Len(written)

ImplementsAbstractLog == Abstract!Spec
=============================================================================
