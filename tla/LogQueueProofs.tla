--------------------------- MODULE LogQueueProofs ---------------------------
(***************************************************************************)
(* The logger for any number of threads and entries and any buffer size:   *)
(* types, the buffer of the web GUI, and that it is the one log AbstractLog *)
(* describes.                                                              *)
(***************************************************************************)
EXTENDS LogQueue, SequenceTheorems, TLAPS

\* The worker has an entry in its hands exactly while it handles one.
EntryInHand ==
    IF worker = "handling" THEN Len(entry) = 1 ELSE entry = <<>>

IInv == TypeOK /\ EntryInHand

\* What a handling worker holds.
LEMMA HandlingHolds ==
    ASSUME IInv, Handle
    PROVE  /\ written \in Seq(Entry) /\ Len(written) \in Nat
           /\ entry[1] \in Entry /\ entry = <<entry[1]>>
<1>1. entry \in Seq(Entry) /\ Len(entry) = 1 /\ written \in Seq(Entry)
  BY DEF IInv, TypeOK, EntryInHand, Handle
<1>2. entry[1] \in Entry
  BY <1>1
<1>3. entry = <<entry[1]>>
  BY <1>1
<1>4. Len(written) \in Nat
  BY <1>1, LenProperties
<1> QED
  BY <1>1, <1>2, <1>3, <1>4

-----------------------------------------------------------------------------
(* Types                                                                   *)

LEMMA InitTypes == Init => IInv
<1>1. <<>> \in Seq(Entry) /\ Len(<<>>) = 0
  BY EmptySeq
<1>2. Init => logged \in [Threads -> 0 .. MaxEntries] /\ 0 <= BufferMax
  BY LogQueueAssumption DEF Init
<1> QED
  BY <1>1, <1>2 DEF Init, IInv, TypeOK, EntryInHand

LEMMA PushTypes ==
    ASSUME IInv, NEW t \in Threads, Push(t)
    PROVE  IInv'
<1> DEFINE e == [thread |-> t, n |-> logged[t] + 1]
<1>1. logged[t] \in 0 .. MaxEntries /\ logged[t] + 1 \in 1 .. MaxEntries
  BY LogQueueAssumption DEF IInv, TypeOK, Push
<1>2. e \in Entry
  BY <1>1 DEF Entry
<1>3. queue' \in Seq(Entry)
  BY <1>2 DEF IInv, TypeOK, Push, Queued
<1>4. logged' \in [Threads -> 0 .. MaxEntries]
  BY <1>1, LogQueueAssumption DEF IInv, TypeOK, Push
<1> QED
  BY <1>3, <1>4 DEF IInv, TypeOK, EntryInHand, Push

LEMMA NotifyTypes ==
    ASSUME IInv, NEW t \in Threads, Notify(t)
    PROVE  IInv'
BY DEF IInv, TypeOK, EntryInHand, Notify

\* What a taken entry leaves, and that it is an entry.
LEMMA PoppedTypes ==
    ASSUME NEW S, NEW q \in Seq(S), q # <<>>
    PROVE  /\ Popped(q) \in Seq(S)
           /\ Head(q) \in S
           /\ q = <<Head(q)>> \o Popped(q)
<1>1. Len(q) \in Nat \ {0} /\ Head(q) = q[1]
  BY EmptySeq
<1>2. q = <<q[1]>> \o SubSeq(q, 2, Len(q))
  BY <1>1, SubSeqFull, SubSeqRecursiveFirst
<1> QED
  BY <1>1, <1>2, TailIsSubSeq, HeadTailProperties DEF Popped

LEMMA TakeTypes ==
    ASSUME IInv, Take
    PROVE  IInv'
<1>1. CASE queue # <<>> /\ worker' = "handling"
  <2>1. Head(queue) \in Entry /\ Popped(queue) \in Seq(Entry)
    BY <1>1, PoppedTypes DEF IInv, TypeOK
  <2>2. entry' = <<Head(queue)>> /\ queue' = Popped(queue)
    BY <1>1 DEF Take
  <2> QED
    <3>1. <<Head(queue)>> \in Seq(Entry) /\ Len(<<Head(queue)>>) = 1
      BY <2>1
    <3> QED
      BY <1>1, <2>1, <2>2, <3>1 DEF IInv, TypeOK, EntryInHand, Take
<1>2. CASE queue = <<>> /\ worker' = "locking"
  BY <1>2 DEF IInv, TypeOK, EntryInHand, Take
<1> QED
  BY <1>1, <1>2 DEF Take

\* The buffer stays within its bound.
LEMMA BufferedTypes ==
    ASSUME NEW S, NEW b \in Seq(S), Len(b) <= BufferMax, NEW e \in S
    PROVE  /\ Buffered(b, e) \in Seq(S)
           /\ Len(Buffered(b, e)) = IF Len(b) = BufferMax THEN BufferMax ELSE Len(b) + 1
<1>1. CASE Len(b) = BufferMax
  <2>1. b # <<>>
    BY <1>1, LogQueueAssumption
  <2>2. Tail(b) \in Seq(S) /\ Len(Tail(b)) = Len(b) - 1
    BY <2>1, HeadTailProperties
  <2> QED
    BY <1>1, <2>2, LogQueueAssumption DEF Buffered
<1>2. CASE Len(b) # BufferMax
  BY <1>2 DEF Buffered
<1> QED
  BY <1>1, <1>2

LEMMA HandleTypes ==
    ASSUME IInv, Handle
    PROVE  IInv'
<1>1. entry[1] \in Entry /\ written \in Seq(Entry)
  BY HandlingHolds
<1>2. /\ Buffered(buffer, entry[1]) \in Seq(Entry)
      /\ Len(Buffered(buffer, entry[1])) <= BufferMax
  <2>1. buffer \in Seq(Entry) /\ Len(buffer) <= BufferMax
    BY DEF IInv, TypeOK
  <2>2. Len(buffer) \in Nat
    BY <2>1, LenProperties
  <2>3. /\ Buffered(buffer, entry[1]) \in Seq(Entry)
        /\ Len(Buffered(buffer, entry[1]))
              = IF Len(buffer) = BufferMax THEN BufferMax ELSE Len(buffer) + 1
    BY <1>1, <2>1, BufferedTypes
  <2> QED
    BY <2>1, <2>2, <2>3, LogQueueAssumption
<1>3. Append(written, entry[1]) \in Seq(Entry)
  BY <1>1
<1> QED
  BY <1>2, <1>3 DEF IInv, TypeOK, EntryInHand, Handle

LEMMA WorkerTypes ==
    ASSUME IInv, Lock \/ Test \/ Sleep \/ WakeSpuriously
    PROVE  IInv'
<1>1. CASE Lock
  BY <1>1 DEF IInv, TypeOK, EntryInHand, Lock
<1>2. CASE Test
  BY <1>2 DEF IInv, TypeOK, EntryInHand, Test
<1>3. CASE Sleep
  BY <1>3 DEF IInv, TypeOK, EntryInHand, Sleep
<1>4. CASE WakeSpuriously
  BY <1>4 DEF IInv, TypeOK, EntryInHand, WakeSpuriously
<1> QED
  BY <1>1, <1>2, <1>3, <1>4

LEMMA StepTypes == IInv /\ [Next]_vars => IInv'
<1> SUFFICES ASSUME IInv, [Next]_vars PROVE IInv'
  OBVIOUS
<1>1. CASE \E t \in Threads : Push(t) \/ Notify(t)
  BY <1>1, PushTypes, NotifyTypes
<1>2. CASE Lock \/ Test \/ Sleep \/ WakeSpuriously
  BY <1>2, WorkerTypes
<1>3. CASE Take
  BY <1>3, TakeTypes
<1>4. CASE Handle
  BY <1>4, HandleTypes
<1>5. CASE UNCHANGED vars
  BY <1>5 DEF IInv, TypeOK, EntryInHand, vars
<1> QED
  BY <1>1, <1>2, <1>3, <1>4, <1>5 DEF Next, LogWorker

\* Every variable has its type, whatever the number of threads and entries.
THEOREM LogTypeCorrect == Spec => []TypeOK
<1>1. Spec => []IInv
  BY InitTypes, StepTypes, PTL DEF Spec
<1>2. IInv => TypeOK
  BY DEF IInv
<1> QED
  BY <1>1, <1>2, PTL

-----------------------------------------------------------------------------
(* The buffer                                                              *)

\* The end of a sequence after an element was appended.
LEMMA SubSeqOfAppend ==
    ASSUME NEW S, NEW w \in Seq(S), NEW e \in S, NEW m \in 1 .. Len(w) + 1
    PROVE  SubSeq(Append(w, e), m, Len(w) + 1) = Append(SubSeq(w, m, Len(w)), e)
<1> DEFINE a == Append(w, e)
<1>1. /\ a \in Seq(S) /\ Len(a) = Len(w) + 1 /\ a[Len(w) + 1] = e
      /\ a = w \o <<e>> /\ Len(w) \in Nat /\ <<e>> \in Seq(S)
  BY AppendProperties, AppendIsConcat, LenProperties
<1>2. SubSeq(a, m, Len(w) + 1) = SubSeq(a, m, Len(w)) \o <<e>>
  BY <1>1, SubSeqRecursiveSecond
<1>3. SubSeq(a, m, Len(w)) = SubSeq(w, m, Len(w))
  <2>1. CASE m = Len(w) + 1
    BY <1>1, <2>1, SubSeqEmpty
  <2>2. CASE m # Len(w) + 1
    BY <1>1, <2>2, SubSeqOfConcat1
  <2> QED
    BY <2>1, <2>2
<1>4. SubSeq(w, m, Len(w)) \in Seq(S)
  BY <1>1, SubSeqProperties, ElementOfSeq
<1> QED
  BY <1>1, <1>2, <1>3, <1>4, AppendIsConcat

LEMMA HandleBuffer ==
    ASSUME IInv, BufferIsLatest, Handle
    PROVE  BufferIsLatest'
<1> DEFINE e == entry[1]
           L == Len(written)
           kept == IF L < BufferMax THEN L ELSE BufferMax
           m == L - kept + 1
<1>1. /\ e \in Entry /\ written \in Seq(Entry) /\ L \in Nat
      /\ kept \in 0 .. L /\ m \in 1 .. L + 1
  BY HandlingHolds, LogQueueAssumption
<1>a. kept = BufferMax => L >= BufferMax /\ m \in 1 .. L /\ m + 1 \in 1 .. L + 1
  <2>1. L \in Nat
    BY <1>1
  <2> HIDE DEF L
  <2> QED
    BY <2>1, LogQueueAssumption
<1>2. buffer = SubSeq(written, m, L) /\ Len(buffer) = kept
  <2>1. buffer = SubSeq(written, m, L)
    BY DEF BufferIsLatest
  <2>2. \A i \in m .. L : written[i] \in Entry
    BY <1>1, ElementOfSeq
  <2>3. Len(SubSeq(written, m, L)) = IF m <= L THEN L - m + 1 ELSE 0
    BY <1>1, <2>2, SubSeqProperties
  <2> QED
    BY <1>1, <2>1, <2>3
<1>3. /\ written' = Append(written, e) /\ Len(written') = L + 1
      /\ buffer' = Buffered(buffer, e)
  BY <1>1, AppendProperties DEF Handle
<1>4. CASE kept = BufferMax
  <2>1. L >= BufferMax /\ m \in 1 .. L /\ m + 1 \in 1 .. L + 1
    BY <1>4, <1>a
  <2>2. Tail(buffer) = SubSeq(written, m + 1, L)
    <3>1. L \in m .. L
      BY <1>1, <2>1
    <3> HIDE DEF m, L
    <3> QED
      BY <1>1, <1>2, <2>1, <3>1, HeadTailOfSubSeq
  <2>3. SubSeq(written', m + 1, L + 1) = Append(SubSeq(written, m + 1, L), e)
    BY <1>1, <1>3, <2>1, SubSeqOfAppend
  <2>4. buffer' = SubSeq(written', m + 1, L + 1)
    BY <1>2, <1>3, <1>4, <2>2, <2>3 DEF Buffered
  <2>5. m + 1 = (L + 1) - BufferMax + 1 /\ ~(L + 1 < BufferMax)
    <3> HIDE DEF L
    <3> QED
      BY <1>1, <1>4, <2>1, LogQueueAssumption
  <2> QED
    BY <1>3, <2>4, <2>5 DEF BufferIsLatest
<1>5. CASE kept # BufferMax
  <2>1. kept = L /\ L < BufferMax /\ m = 1
    BY <1>1, <1>5
  <2>2. SubSeq(written', 1, L + 1) = Append(SubSeq(written, 1, L), e)
    BY <1>1, <1>3, <2>1, SubSeqOfAppend
  <2>3. buffer' = SubSeq(written', 1, L + 1)
    BY <1>2, <1>3, <1>5, <2>1, <2>2 DEF Buffered
  <2>4. /\ (IF L + 1 < BufferMax THEN L + 1 ELSE BufferMax) = L + 1
        /\ (L + 1) - (L + 1) + 1 = 1
    BY <1>1, <2>1, LogQueueAssumption
  <2> QED
    BY <1>3, <2>3, <2>4 DEF BufferIsLatest
<1> QED
  BY <1>4, <1>5

\* The web GUI is shown the latest LOG_BUFFER_MAX entries, whatever their number.
THEOREM BufferShowsLatest == Spec => []BufferIsLatest
<1>1. Init => BufferIsLatest
  BY EmptySeq, SubSeqEmpty, LogQueueAssumption DEF Init, BufferIsLatest
<1>2. IInv /\ BufferIsLatest /\ [Next]_vars => BufferIsLatest'
  <2> SUFFICES ASSUME IInv, BufferIsLatest, [Next]_vars PROVE BufferIsLatest'
    OBVIOUS
  <2>1. CASE Handle
    BY <2>1, HandleBuffer
  <2>2. CASE UNCHANGED <<buffer, written>>
    BY <2>2 DEF BufferIsLatest
  <2> QED
    BY <2>1, <2>2 DEF Next, LogWorker, Push, Notify, Lock, Test, Sleep, Take,
                      WakeSpuriously, vars
<1>3. Init => IInv
  BY InitTypes
<1>4. IInv /\ [Next]_vars => IInv'
  BY StepTypes
<1> QED
  BY <1>1, <1>2, <1>3, <1>4, PTL DEF Spec

-----------------------------------------------------------------------------
(* The abstract log                                                        *)

\* What is accepted, on explicit values.
TheLog(w, e, q) == w \o e \o q

\* An entry that moves from the queue to the hands, or from there to the output,
\* stays where it is in the log.
LEMMA LogUnmoved ==
    ASSUME NEW S, NEW w \in Seq(S), NEW q \in Seq(S), NEW e \in S
    PROVE  /\ q # <<>> => TheLog(w, <<Head(q)>>, Popped(q)) = TheLog(w, <<>>, q)
           /\ TheLog(Append(w, e), <<>>, q) = TheLog(w, <<e>>, q)
<1>1. TheLog(w, <<>>, q) = w \o q
  BY ConcatEmptySeq DEF TheLog
<1>2. ASSUME q # <<>>
      PROVE  TheLog(w, <<Head(q)>>, Popped(q)) = w \o q
  <2>1. Head(q) \in S /\ Popped(q) \in Seq(S) /\ q = <<Head(q)>> \o Popped(q)
    BY <1>2, PoppedTypes
  <2>2. ASSUME NEW h \in S, NEW p \in Seq(S), q = <<h>> \o p
        PROVE  TheLog(w, <<h>>, p) = w \o q
    BY <2>2, ConcatAssociative DEF TheLog
  <2> QED
    BY <2>1, <2>2
<1>3. TheLog(Append(w, e), <<>>, q) = TheLog(w, <<e>>, q)
  BY AppendIsConcat, AppendProperties, ConcatEmptySeq DEF TheLog
<1> QED
  BY <1>1, <1>2, <1>3

\* What a push adds comes last.
LEMMA LogGrows ==
    ASSUME NEW S, NEW w \in Seq(S), NEW h \in Seq(S), NEW q \in Seq(S), NEW e \in S
    PROVE  TheLog(w, h, Append(q, e)) = Append(TheLog(w, h, q), e)
<1>1. <<e>> \in Seq(S) /\ w \o h \in Seq(S) /\ (w \o h) \o q \in Seq(S)
  BY ConcatProperties
<1>2. (w \o h) \o (q \o <<e>>) = ((w \o h) \o q) \o <<e>>
  BY <1>1, ConcatAssociative
<1> QED
  BY <1>1, <1>2, AppendIsConcat DEF TheLog

LEMMA InitImplements == Init => Abstract!Init
BY EmptySeq, ConcatEmptySeq DEF Init, Abstract!Init

LEMMA StepImplements == IInv /\ [Next]_vars => [Abstract!Next]_(Abstract!vars)
<1> SUFFICES ASSUME IInv, [Next]_vars PROVE [Abstract!Next]_(Abstract!vars)
  OBVIOUS
<1> DEFINE log == TheLog(written, entry, queue)
<1>1. /\ written \in Seq(Entry) /\ entry \in Seq(Entry) /\ queue \in Seq(Entry)
      /\ Len(written) \in Nat
  BY LenProperties DEF IInv, TypeOK
<1>2. ASSUME NEW t \in Threads, Push(t)
      PROVE  Abstract!Accept(t)
  <2> DEFINE e == [thread |-> t, n |-> logged[t] + 1]
  <2>1. e \in Entry
    BY <1>2, LogQueueAssumption DEF IInv, TypeOK, Push, Entry
  <2>2. TheLog(written', entry', queue') = Append(log, e)
    <3>1. written' = written /\ entry' = entry /\ queue' = Append(queue, e)
      BY <1>2 DEF Push, Queued
    <3> HIDE DEF e
    <3>2. TheLog(written, entry, Append(queue, e)) = Append(TheLog(written, entry, queue), e)
      BY <1>1, <2>1, LogGrows
    <3> QED
      BY <3>1, <3>2
  <2> QED
    BY <1>2, <2>2 DEF Push, Abstract!Accept, TheLog
<1>3. ASSUME Take
      PROVE  UNCHANGED Abstract!vars
  <2>1. entry = <<>>
    BY <1>3 DEF IInv, EntryInHand, Take
  <2>2. TheLog(written', entry', queue') = log
    <3>1. CASE queue # <<>> /\ entry' = <<Head(queue)>> /\ queue' = Popped(queue)
      <4>1. Head(queue) \in Entry
        BY <1>1, <3>1, PoppedTypes
      <4> QED
        BY <1>1, <1>3, <2>1, <3>1, <4>1, LogUnmoved DEF Take
    <3>2. CASE UNCHANGED <<queue, entry>>
      BY <1>3, <3>2 DEF Take
    <3> QED
      BY <1>3, <3>1, <3>2 DEF Take
  <2> QED
    BY <1>3, <2>2 DEF Take, Abstract!vars, TheLog
<1>4. ASSUME Handle
      PROVE  Abstract!Write
  <2> DEFINE e == entry[1]
  <2>1. e \in Entry /\ entry = <<e>>
    BY <1>4, HandlingHolds
  <2>2. TheLog(written', entry', queue') = log
    <3>1. written' = Append(written, e) /\ entry' = <<>> /\ queue' = queue
      BY <1>4 DEF Handle
    <3> HIDE DEF e
    <3> QED
      BY <1>1, <2>1, <3>1, LogUnmoved
  <2>3. Len(written) < Len(log)
    <3>1. /\ Len(written \o entry) = Len(written) + 1
          /\ written \o entry \in Seq(Entry)
      <4>1. Len(entry) = 1
        BY <2>1
      <4>2. /\ Len(written \o entry) = Len(written) + Len(entry)
            /\ written \o entry \in Seq(Entry)
        BY <1>1, ConcatProperties
      <4> QED
        BY <4>1, <4>2
    <3>2. Len(log) = Len(written \o entry) + Len(queue) /\ Len(queue) \in Nat
      BY <1>1, <3>1, ConcatProperties, LenProperties DEF TheLog
    <3> QED
      BY <1>1, <3>1, <3>2
  <2>4. Len(written') = Len(written) + 1
    BY <1>1, <1>4, <2>1, AppendProperties DEF Handle
  <2> QED
    BY <1>4, <2>2, <2>3, <2>4 DEF Handle, Abstract!Write, TheLog
<1>5. CASE UNCHANGED <<written, entry, queue, logged>>
  BY <1>5 DEF Abstract!vars
<1> QED
  BY <1>2, <1>3, <1>4, <1>5 DEF Next, LogWorker, Notify, Lock, Test, Sleep,
                                WakeSpuriously, vars, Abstract!Next

\* LogQueue implements the order AbstractLog describes: no entry is lost, doubled
\* or overtaken between Log and the output.  (That all are written is checked by
\* TLC: ImplementsAbstractLog.)
THEOREM LogImplementsAbstractLog == Spec => Abstract!SafeSpec
<1>1. Init => Abstract!Init
  BY InitImplements
<1>2. IInv /\ [Next]_vars => [Abstract!Next]_(Abstract!vars)
  BY StepImplements
<1>3. Init => IInv
  BY InitTypes
<1>4. IInv /\ [Next]_vars => IInv'
  BY StepTypes
<1> QED
  BY <1>1, <1>2, <1>3, <1>4, PTL DEF Spec, Abstract!SafeSpec
=============================================================================
