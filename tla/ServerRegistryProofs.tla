------------------------ MODULE ServerRegistryProofs ------------------------
(***************************************************************************)
(* The registration of game servers, for any number of processes and       *)
(* addresses, any expiry and period, and any number of sessions.  What is  *)
(* invariant is the relation of a process to its own hash (ProcOK), which  *)
(* every action keeps for the process it is about and Tick for all, and    *)
(* what the auth server still has to look at (SelectionOK).                *)
(***************************************************************************)
EXTENDS ServerRegistry, TLAPS

Unregistered == {"unborn", "useless", "redis", "mysql", "installing", "registering"}
InLoop == {"expiring", "looping", "body"}

\* The time that is left to a hash is at least what is left to its server to renew it.
InTime(p, e) ==
    p.phase \in InLoop /\ p.redis = "open" /\ p.due > Period - Ttl
        => \/ e.ttl = Never
           \/ e.ttl >= p.due + (Ttl - Period)
           \/ p.held /\ e.ttl = 0 /\ p.phase # "expiring"

\* A hash without an expiry waits for it, or never gets it.
NeverIsCut(p, e) ==
    e.ttl = Never => p.cut \/ (p.phase = "expiring" /\ p.redis = "open")

\* What is left of a hash outlives its process by the expiry at most.
GoneInTime(p, e) ==
    p.phase = "gone" /\ ~p.cut => e.ttl # Never /\ e.ttl + p.ended <= Ttl

ProcOK(p, e) ==
    /\ p \in Proc /\ e \in Entry
    /\ p.phase \in Unregistered => e.ttl = 0
    /\ p.phase \in InLoop \cup {"registering"} => p.handler
    /\ p.phase # "gone" => p.ended = 0
    /\ InTime(p, e) /\ NeverIsCut(p, e) /\ GoneInTime(p, e)

SelectionOK ==
    /\ auth \in Auth /\ steady \subseteq Procs
    /\ auth.redis = "open" /\ auth.phase = "choosing" => steady \subseteq auth.todo
    /\ auth.redis = "open" /\ auth.phase = "refusing" => steady = {}
    /\ auth.phase = "idle" => steady = {}

ProcsOK ==
    /\ proc \in [Procs -> Proc] /\ registry \in [Procs -> Entry]
    /\ \A k \in Procs : ProcOK(proc[k], registry[k])

IInv ==
    /\ up \subseteq {"redis", "mysql"}
    /\ ProcsOK
    /\ SelectionOK

-----------------------------------------------------------------------------
(* One process and its hash                                                *)

Phases == {"unborn", "useless", "redis", "mysql", "installing", "registering",
           "expiring", "looping", "body", "gone"}

LEMMA EndedType == ASSUME NEW p \in Proc PROVE Ended(p) \in Proc
<1>1. Period \in -Ttl .. Period /\ 0 \in 0 .. MaxSessions
  BY ServerRegistryAssumption
<1>2. (p.cut \/ p.phase = "expiring") \in BOOLEAN /\ "gone" \in Phases
  BY DEF Phases
<1>3. [p EXCEPT !.phase = "gone", !.running = FALSE, !.handler = FALSE, !.redis = "none",
               !.sessions = 0, !.counted = 0, !.due = Period, !.held = FALSE,
               !.cut = p.cut \/ p.phase = "expiring"] \in Proc
  BY <1>1, <1>2 DEF Proc, Phases
<1> QED
  BY <1>3 DEF Ended

LEMMA RenewedType ==
    ASSUME NEW p \in Proc
    PROVE  [p EXCEPT !.phase = "looping", !.due = Period,
                     !.held = p.due <= Period - Ttl] \in Proc
<1>1. ASSUME NEW ph \in Phases, NEW d \in -Ttl .. Period, NEW held \in BOOLEAN
      PROVE  [p EXCEPT !.phase = ph, !.due = d, !.held = held] \in Proc
  BY DEF Proc, Phases
<1>2. /\ Period \in -Ttl .. Period /\ (p.due <= Period - Ttl) \in BOOLEAN
      /\ "looping" \in Phases
  BY ServerRegistryAssumption DEF Phases
<1> QED
  BY <1>1, <1>2

LEMMA LaterType == ASSUME NEW p \in Proc PROVE Later(p) \in Proc
<1>1. ASSUME NEW d \in -Ttl .. Period, NEW n \in 0 .. Ttl
      PROVE  [p EXCEPT !.due = d, !.ended = n] \in Proc
  BY DEF Proc
<1>2. (IF p.phase \in {"looping", "body", "expiring"} /\ p.due > -Ttl
       THEN p.due - 1 ELSE p.due) \in -Ttl .. Period
  BY ServerRegistryAssumption DEF Proc
<1>3. (IF p.phase = "gone" /\ p.ended < Ttl THEN p.ended + 1 ELSE p.ended) \in 0 .. Ttl
  BY ServerRegistryAssumption DEF Proc
<1> QED
  BY <1>1, <1>2, <1>3 DEF Later

LEMMA PhaseChange ==
    ASSUME NEW p, NEW e, ProcOK(p, e), NEW ph, NEW c, NEW h, NEW a \in Addresses,
           p.phase \in Unregistered \ {"registering"},
           ph \in Unregistered \ {"unborn"}, c \in {"none", "open", "broken"},
           h \in BOOLEAN, ph = "registering" => h
    PROVE  ProcOK([p EXCEPT !.at = a, !.phase = ph, !.redis = c, !.handler = h], e)
BY ServerRegistryAssumption
   DEF ProcOK, Proc, Entry, Unregistered, InLoop, InTime, NeverIsCut, GoneInTime, Never

LEMMA EndedOK ==
    ASSUME NEW p, NEW e, ProcOK(p, e), p.phase # "gone"
    PROVE  ProcOK(Ended(p), e)
<1> DEFINE q == Ended(p)
<1> SUFFICES ProcOK(q, e)
  OBVIOUS
<1>1. /\ q \in Proc
      /\ q.phase = "gone" /\ q.ended = 0 /\ (q.cut <=> p.cut \/ p.phase = "expiring")
  <2>1. p \in Proc /\ p.ended = 0
    BY DEF ProcOK
  <2>2. q \in Proc
    BY <2>1, EndedType
  <2> QED
    <3>1. q.phase = "gone" /\ q.ended = 0
      BY <2>1 DEF Proc, Ended
    <3>2. q.cut <=> p.cut \/ p.phase = "expiring"
      BY <2>1 DEF Proc, Ended
    <3> QED
      BY <2>2, <3>1, <3>2
<1>2. e \in Entry /\ (e.ttl = Never => q.cut)
  BY <1>1 DEF ProcOK, NeverIsCut
<1>3. ~q.cut => e.ttl # Never /\ e.ttl + q.ended <= Ttl
  BY <1>1, <1>2, ServerRegistryAssumption DEF Entry, Never
<1> HIDE DEF q
<1>4. InTime(q, e) /\ NeverIsCut(q, e) /\ GoneInTime(q, e)
  BY <1>1, <1>2, <1>3 DEF InLoop, InTime, NeverIsCut, GoneInTime
<1>5. q.phase \notin Unregistered /\ q.phase \notin InLoop \cup {"registering"}
  BY <1>1 DEF Unregistered, InLoop
<1> QED
  BY <1>1, <1>2, <1>4, <1>5 DEF ProcOK

LEMMA HsetOK ==
    ASSUME NEW p, NEW e, ProcOK(p, e),
           p.phase = "registering" \/ p.phase = "body"
    PROVE  /\ p.redis = "open" => ProcOK([p EXCEPT !.phase = "expiring"], Hset(e, p.counted))
           /\ p.redis # "open" => ProcOK([p EXCEPT !.phase = "expiring"], e)
BY ServerRegistryAssumption
   DEF ProcOK, Proc, Entry, Unregistered, InLoop, InTime, NeverIsCut, GoneInTime, Never, Hset

LEMMA ExpireOK ==
    ASSUME NEW p, NEW e, ProcOK(p, e), p.phase = "expiring"
    PROVE  LET q == [p EXCEPT !.phase = "looping", !.due = Period,
                              !.held = p.due <= Period - Ttl]
           IN  /\ p.redis = "open" => ProcOK(q, Expire(e))
               /\ p.redis # "open" => ProcOK(q, e)
<1> DEFINE q == [p EXCEPT !.phase = "looping", !.due = Period,
                          !.held = p.due <= Period - Ttl]
<1> SUFFICES /\ p.redis = "open" => ProcOK(q, Expire(e))
             /\ p.redis # "open" => ProcOK(q, e)
  OBVIOUS
<1>1. /\ q \in Proc /\ q.phase = "looping" /\ q.due = Period /\ q.handler
      /\ q.ended = 0 /\ q.redis = p.redis /\ (q.cut <=> p.cut)
      /\ q.held <=> p.due <= Period - Ttl
  <2>1. p \in Proc /\ p.ended = 0 /\ p.handler
    BY DEF ProcOK, InLoop
  <2>2. q \in Proc
    BY <2>1, RenewedType
  <2> QED
    BY <2>1, <2>2 DEF Proc
<1>2. e \in Entry /\ NeverIsCut(p, e) /\ InTime(p, e) /\ p.due \in Int
  BY ServerRegistryAssumption DEF ProcOK, Proc
<1> HIDE DEF q
<1>5. /\ q \in Proc /\ q.phase \notin Unregistered /\ q.ended = 0
      /\ q.phase \in InLoop \cup {"registering"} => q.handler
  BY <1>1 DEF Unregistered
<1>3. CASE p.redis = "open"
  <2>1. Expire(e) \in Entry /\ Expire(e).ttl # Never
    BY <1>2, ServerRegistryAssumption DEF Expire, Entry, Never
  <2>2. InTime(q, Expire(e))
    <3>1. CASE e.ttl = 0
      BY <1>1, <1>2, <1>3, <3>1, ServerRegistryAssumption DEF Expire, InTime, InLoop, Never
    <3>2. CASE e.ttl # 0
      BY <1>1, <1>2, <3>2, ServerRegistryAssumption DEF Expire, InTime, Entry
    <3> QED
      BY <3>1, <3>2
  <2>3. NeverIsCut(q, Expire(e)) /\ GoneInTime(q, Expire(e))
    BY <1>1, <2>1 DEF NeverIsCut, GoneInTime
  <2> QED
    BY <1>3, <1>5, <2>1, <2>2, <2>3 DEF ProcOK
<1>4. CASE p.redis # "open"
  <2>1. InTime(q, e) /\ NeverIsCut(q, e) /\ GoneInTime(q, e)
    BY <1>1, <1>2, <1>4 DEF InTime, NeverIsCut, GoneInTime
  <2> QED
    BY <1>2, <1>4, <1>5, <2>1 DEF ProcOK
<1> QED
  BY <1>3, <1>4

LEMMA LoopOK ==
    ASSUME NEW p, NEW e, ProcOK(p, e), NEW ph \in {"looping", "body"},
           p.phase \in {"looping", "body"}
    PROVE  ProcOK([p EXCEPT !.phase = ph], e)
BY ServerRegistryAssumption
   DEF ProcOK, Proc, Entry, Unregistered, InLoop, InTime, NeverIsCut, GoneInTime, Never

\* The numbers of sessions do not matter to the registration.
LEMMA CountedOK ==
    ASSUME NEW p, NEW e, ProcOK(p, e), NEW q \in Proc,
           q.phase = p.phase \/ (p.phase = "looping" /\ q.phase = "body"),
           q.ended = p.ended, (q.cut <=> p.cut), (q.held <=> p.held), q.due = p.due,
           q.redis = p.redis, (q.handler <=> p.handler)
    PROVE  ProcOK(q, e)
BY DEF ProcOK, Unregistered, InLoop, InTime, NeverIsCut, GoneInTime

LEMMA OtherOK ==
    ASSUME NEW p, NEW e, ProcOK(p, e)
    PROVE  /\ ProcOK([p EXCEPT !.running = FALSE], e)
           /\ \A n \in 0 .. MaxSessions : ProcOK([p EXCEPT !.sessions = n], e)
           /\ p.redis = "open" =>
                ProcOK([p EXCEPT !.redis = "broken", !.cut = @ \/ p.phase = "expiring"], e)
<1>1. [p EXCEPT !.running = FALSE] \in Proc => ProcOK([p EXCEPT !.running = FALSE], e)
  BY CountedOK DEF ProcOK, Proc
<1>2. [p EXCEPT !.running = FALSE] \in Proc
  BY DEF ProcOK, Proc
<1>3. ASSUME NEW n \in 0 .. MaxSessions PROVE ProcOK([p EXCEPT !.sessions = n], e)
  <2> DEFINE q == [p EXCEPT !.sessions = n]
  <2>1. /\ q \in Proc /\ q.phase = p.phase /\ q.ended = p.ended /\ (q.cut <=> p.cut)
        /\ (q.held <=> p.held) /\ q.due = p.due /\ q.redis = p.redis /\ (q.handler <=> p.handler)
    BY DEF ProcOK, Proc
  <2> HIDE DEF q
  <2>2. ProcOK(q, e)
    BY <2>1, CountedOK
  <2> QED
    BY <2>2 DEF q
<1>4. ASSUME p.redis = "open"
      PROVE  ProcOK([p EXCEPT !.redis = "broken", !.cut = @ \/ p.phase = "expiring"], e)
  <2> DEFINE q == [p EXCEPT !.redis = "broken", !.cut = @ \/ p.phase = "expiring"]
  <2>1. /\ q \in Proc /\ q.phase = p.phase /\ q.ended = p.ended /\ q.redis = "broken"
        /\ (q.handler <=> p.handler) /\ (q.cut <=> p.cut \/ p.phase = "expiring")
    BY DEF ProcOK, Proc
  <2> HIDE DEF q
  <2>2. ProcOK(q, e)
    BY <1>4, <2>1 DEF ProcOK, InTime, NeverIsCut, GoneInTime
  <2> QED
    BY <2>2 DEF q
<1> QED
  BY <1>1, <1>2, <1>3, <1>4

LEMMA LaterOK ==
    ASSUME NEW p, NEW e, ProcOK(p, e)
    PROVE  ProcOK(Later(p), Aged(e))
<1> DEFINE q == Later(p)
           f == Aged(e)
<1> SUFFICES ProcOK(q, f)
  OBVIOUS
<1>1. /\ p \in Proc /\ e \in Entry /\ p.due \in -Ttl .. Period /\ p.ended \in 0 .. Ttl
      /\ e.ttl \in 0 .. Never
  BY DEF ProcOK, Proc, Entry
<1>2. /\ q \in Proc
      /\ q.phase = p.phase /\ q.redis = p.redis /\ (q.handler <=> p.handler)
      /\ (q.cut <=> p.cut) /\ (q.held <=> p.held)
      /\ q.due = IF p.phase \in InLoop /\ p.due > -Ttl THEN p.due - 1 ELSE p.due
      /\ q.ended = IF p.phase = "gone" /\ p.ended < Ttl THEN p.ended + 1 ELSE p.ended
  <2>1. q \in Proc
    BY <1>1, LaterType
  <2> QED
    BY <1>1, <2>1 DEF Later, Proc, InLoop
<1>3. /\ f \in Entry
      /\ f.ttl = IF e.ttl \in {0, Never} THEN e.ttl ELSE e.ttl - 1
  BY <1>1, ServerRegistryAssumption DEF Aged, Entry, NoEntry, Never
<1> HIDE DEF q, f
<1>4. InTime(q, f)
  <2>1. InTime(p, e)
    BY DEF ProcOK
  <2> QED
    BY <1>1, <1>2, <1>3, <2>1, ServerRegistryAssumption DEF InTime, Never
<1>5. NeverIsCut(q, f)
  <2>1. NeverIsCut(p, e)
    BY DEF ProcOK
  <2> QED
    BY <1>1, <1>2, <1>3, <2>1, ServerRegistryAssumption DEF NeverIsCut, Never
<1>6. GoneInTime(q, f)
  <2>1. GoneInTime(p, e)
    BY DEF ProcOK
  <2> QED
    BY <1>1, <1>2, <1>3, <2>1, ServerRegistryAssumption DEF GoneInTime, Never
<1>7. /\ q.phase \in Unregistered => f.ttl = 0
      /\ q.phase \in InLoop \cup {"registering"} => q.handler
      /\ q.phase # "gone" => q.ended = 0
  BY <1>2, <1>3 DEF ProcOK
<1>8. q \in Proc /\ f \in Entry
  BY <1>2, <1>3
<1> QED
  BY <1>4, <1>5, <1>6, <1>7, <1>8 DEF ProcOK

-----------------------------------------------------------------------------
(* All processes                                                           *)

LEMMA OneProcess ==
    ASSUME ProcsOK, NEW k \in Procs, NEW p, NEW e, ProcOK(p, e),
           proc' = [proc EXCEPT ![k] = p], registry' = [registry EXCEPT ![k] = e]
    PROVE  ProcsOK'
<1>1. p \in Proc /\ e \in Entry
  BY DEF ProcOK
<1>2. proc' \in [Procs -> Proc] /\ registry' \in [Procs -> Entry]
  BY <1>1 DEF ProcsOK
<1>3. ASSUME NEW l \in Procs
      PROVE  ProcOK(proc'[l], registry'[l])
  <2>1. CASE l = k
    BY <2>1 DEF ProcsOK
  <2>2. CASE l # k
    BY <2>2 DEF ProcsOK
  <2> QED
    BY <2>1, <2>2
<1> QED
  BY <1>2, <1>3 DEF ProcsOK

\* The registry may be left as it is.
LEMMA OneProcessOnly ==
    ASSUME ProcsOK, NEW k \in Procs, NEW p, ProcOK(p, registry[k]),
           proc' = [proc EXCEPT ![k] = p], registry' = registry
    PROVE  ProcsOK'
<1>1. registry' = [registry EXCEPT ![k] = registry[k]]
  BY DEF ProcsOK
<1> QED
  BY <1>1, OneProcess

LEMMA StartOK == ASSUME ProcsOK, NEW k \in Procs, Start(k) PROVE ProcsOK'
<1> DEFINE p == proc[k]
           e == registry[k]
<1>1. PICK a \in Addresses, phase \in {"useless", "redis"} :
          proc' = [proc EXCEPT ![k].at = a, ![k].phase = phase]
  BY DEF Start
<1>2. ProcOK(p, e) /\ p.phase = "unborn" /\ proc \in [Procs -> Proc]
  BY DEF ProcsOK, Start
<1>3. ProcOK([p EXCEPT !.at = a, !.phase = phase, !.redis = p.redis,
                       !.handler = p.handler], e)
  <2>1. p.redis \in {"none", "open", "broken"} /\ p.handler \in BOOLEAN
    BY <1>2 DEF Proc
  <2>2. phase \in Unregistered \ {"unborn"} /\ phase # "registering"
        /\ p.phase \in Unregistered \ {"registering"}
    BY <1>2 DEF Unregistered
  <2> QED
    BY <1>2, <2>1, <2>2, PhaseChange
<1>4. proc' = [proc EXCEPT ![k] = [p EXCEPT !.at = a, !.phase = phase, !.redis = p.redis,
                                            !.handler = p.handler]]
  BY <1>1, <1>2 DEF Proc
<1> QED
  BY <1>3, <1>4, OneProcessOnly DEF Start

LEMMA BootOK == ASSUME ProcsOK, NEW k \in Procs, Boot(k) PROVE ProcsOK'
<1> DEFINE p == proc[k]
           e == registry[k]
           To(ph, c, h) == [p EXCEPT !.at = p.at, !.phase = ph, !.redis = c, !.handler = h]
<1>1. ProcOK(p, e) /\ proc \in [Procs -> Proc] /\ p \in Proc /\ p.at \in Addresses
  BY DEF ProcsOK, Proc
<1>2. ASSUME NEW ph, NEW c, NEW h,
             p.phase \in Unregistered \ {"registering"},
             ph \in Unregistered \ {"unborn"}, c \in {"none", "open", "broken"},
             h \in BOOLEAN, ph = "registering" => h,
             proc' = [proc EXCEPT ![k] = To(ph, c, h)], registry' = registry
      PROVE  ProcsOK'
  BY <1>1, <1>2, PhaseChange, OneProcessOnly
<1>3. CASE ConnectRedis(k)
  <2>1. PICK c \in {"open", "none"} :
            proc' = [proc EXCEPT ![k].phase = "mysql", ![k].redis = c]
    BY <1>3 DEF ConnectRedis
  <2>2. proc' = [proc EXCEPT ![k] = To("mysql", c, p.handler)] /\ p.handler \in BOOLEAN
    BY <1>1, <2>1 DEF Proc
  <2>3. p.phase \in Unregistered \ {"registering"} /\ registry' = registry
    BY <1>3 DEF ConnectRedis, Unregistered
  <2>4. "mysql" \in Unregistered \ {"unborn"} /\ c \in {"none", "open", "broken"}
    BY DEF Unregistered
  <2>5. "mysql" = "registering" => p.handler
    OBVIOUS
  <2> HIDE DEF To, p
  <2> QED
    BY <1>2, <2>2, <2>3, <2>4, <2>5
<1>4. CASE ConnectMySQL(k)
  <2>1. /\ proc' = [proc EXCEPT ![k] = To("installing", p.redis, p.handler)]
        /\ p.handler \in BOOLEAN /\ p.redis \in {"none", "open", "broken"}
    BY <1>1, <1>4 DEF Proc, ConnectMySQL, AfterMySQL
  <2>2. p.phase \in Unregistered \ {"registering"} /\ registry' = registry
    BY <1>4 DEF ConnectMySQL, Unregistered
  <2>3. "installing" \in Unregistered \ {"unborn"}
    BY DEF Unregistered
  <2>4. "installing" = "registering" => p.handler
    OBVIOUS
  <2> HIDE DEF To, p
  <2> QED
    BY <1>2, <2>1, <2>2, <2>3, <2>4
<1>5. CASE InstallHandlers(k)
  <2>1. /\ proc' = [proc EXCEPT ![k] = To("registering", p.redis, TRUE)]
        /\ p.redis \in {"none", "open", "broken"}
    BY <1>1, <1>5 DEF Proc, InstallHandlers
  <2>2. p.phase \in Unregistered \ {"registering"} /\ registry' = registry
    BY <1>5 DEF InstallHandlers, Unregistered
  <2>3. "registering" \in Unregistered \ {"unborn"} /\ TRUE \in BOOLEAN
    BY DEF Unregistered
  <2> HIDE DEF To
  <2> QED
    BY <1>2, <2>1, <2>2, <2>3
<1> QED
  BY <1>3, <1>4, <1>5 DEF Boot

LEMMA RunLoopOK == ASSUME ProcsOK, NEW k \in Procs, Loop(k) PROVE ProcsOK'
<1> DEFINE p == proc[k]
           e == registry[k]
<1>1. ProcOK(p, e) /\ proc \in [Procs -> Proc] /\ registry \in [Procs -> Entry]
  BY DEF ProcsOK
<1>2. CASE TestRunning(k)
  <2>1. CASE p.running
    <3>1. p.phase = "looping" /\ registry' = registry
          /\ proc' = [proc EXCEPT
                         ![k] = [p EXCEPT !.phase = "body", !.counted = p.sessions]]
      BY <1>1, <1>2, <2>1 DEF TestRunning, ProcOK, Unregistered
    <3> DEFINE q == [p EXCEPT !.phase = "body", !.counted = p.sessions]
    <3>2. /\ q \in Proc /\ q.phase = "body" /\ q.ended = p.ended /\ (q.cut <=> p.cut)
          /\ (q.held <=> p.held) /\ q.due = p.due /\ q.redis = p.redis /\ (q.handler <=> p.handler)
      BY <1>1 DEF ProcOK, Proc
    <3> HIDE DEF q
    <3>3. ProcOK(q, e)
      BY <1>1, <3>1, <3>2, CountedOK
    <3> QED
      BY <1>1, <3>1, <3>3, OneProcessOnly DEF q
  <2>2. CASE ~p.running
    <3>1. p.phase # "gone" /\ registry' = registry /\ proc' = [proc EXCEPT ![k] = Ended(p)]
      BY <1>1, <1>2, <2>2 DEF TestRunning
    <3> QED
      BY <1>1, <3>1, EndedOK, OneProcessOnly
  <2> QED
    BY <2>1, <2>2
<1>3. CASE NextIteration(k)
  <2>1. p.phase = "body" /\ registry' = registry
        /\ proc' = [proc EXCEPT ![k] = [p EXCEPT !.phase = "looping"]]
    BY <1>1, <1>3 DEF NextIteration
  <2> QED
    BY <1>1, <2>1, LoopOK, OneProcessOnly
<1>4. CASE RegisterHset(k)
  <2> DEFINE q == [p EXCEPT !.phase = "expiring"]
  <2>1. /\ p.phase = "registering" \/ p.phase = "body"
        /\ proc' = [proc EXCEPT ![k] = q]
    BY <1>1, <1>4 DEF RegisterHset
  <2>2. CASE p.redis = "open"
    <3>1. registry' = [registry EXCEPT ![k] = Hset(e, p.counted)]
      BY <1>1, <1>4, <2>2 DEF RegisterHset
    <3> QED
      BY <1>1, <2>1, <2>2, <3>1, HsetOK, OneProcess
  <2>3. CASE p.redis # "open"
    <3>1. registry' = registry
      BY <1>4, <2>3 DEF RegisterHset
    <3> QED
      BY <1>1, <2>1, <2>3, <3>1, HsetOK, OneProcessOnly
  <2> QED
    BY <2>2, <2>3
<1>5. CASE RegisterExpire(k)
  <2> DEFINE q == [p EXCEPT !.phase = "looping", !.due = Period,
                            !.held = p.due <= Period - Ttl]
  <2>1. p.phase = "expiring" /\ proc' = [proc EXCEPT ![k] = q]
    BY <1>1, <1>5 DEF RegisterExpire
  <2>2. /\ p.redis = "open" => ProcOK(q, Expire(e))
        /\ p.redis # "open" => ProcOK(q, e)
    BY <1>1, <2>1, ExpireOK
  <2> HIDE DEF q
  <2>3. CASE p.redis = "open"
    <3>1. registry' = [registry EXCEPT ![k] = Expire(e)]
      BY <1>1, <1>5, <2>3 DEF RegisterExpire
    <3> QED
      BY <2>1, <2>2, <2>3, <3>1, OneProcess
  <2>4. CASE p.redis # "open"
    <3>1. registry' = registry
      BY <1>5, <2>4 DEF RegisterExpire
    <3> QED
      BY <2>1, <2>2, <2>4, <3>1, OneProcessOnly
  <2> QED
    BY <2>3, <2>4
<1> QED
  BY <1>2, <1>3, <1>4, <1>5 DEF Loop

LEMMA EventOK ==
    ASSUME ProcsOK, NEW k \in Procs,
           Signal(k) \/ Crash(k) \/ DropSilent(k) \/ Join(k) \/ Leave(k) \/ Break(k)
    PROVE  ProcsOK'
<1> DEFINE p == proc[k]
           e == registry[k]
<1>1. /\ ProcOK(p, e) /\ proc \in [Procs -> Proc]
      /\ registry' = registry /\ p \in Proc
  BY DEF ProcsOK, Signal, Crash, DropSilent, Join, Leave, Break
<1>2. CASE Signal(k)
  BY <1>1, <1>2, OtherOK, OneProcessOnly DEF Signal
<1>3. CASE Crash(k)
  BY <1>1, <1>3, EndedOK, OneProcessOnly DEF Crash, Alive
<1>4. CASE Join(k) \/ Leave(k)
  <2>1. PICK n \in 0 .. MaxSessions : proc' = [proc EXCEPT ![k] = [p EXCEPT !.sessions = n]]
    <3>1. p.sessions \in 0 .. MaxSessions
      BY <1>1 DEF Proc
    <3>2. CASE Join(k)
      <4>1. /\ p.sessions + 1 \in 0 .. MaxSessions
            /\ proc' = [proc EXCEPT ![k] = [p EXCEPT !.sessions = p.sessions + 1]]
        BY <1>1, <3>1, <3>2, ServerRegistryAssumption DEF Join
      <4> QED
        BY <4>1
    <3>3. CASE Leave(k)
      <4>1. /\ p.sessions - 1 \in 0 .. MaxSessions
            /\ proc' = [proc EXCEPT ![k] = [p EXCEPT !.sessions = p.sessions - 1]]
        BY <1>1, <3>1, <3>3, ServerRegistryAssumption DEF Leave
      <4> QED
        BY <4>1
    <3> QED
      BY <1>4, <3>2, <3>3
  <2> QED
    BY <1>1, <2>1, OtherOK, OneProcessOnly
<1>5. CASE Break(k)
  <2>1. /\ p.redis = "open"
        /\ proc' = [proc EXCEPT ![k] = [p EXCEPT !.redis = "broken",
                                                !.cut = @ \/ p.phase = "expiring"]]
    BY <1>1, <1>5 DEF Break
  <2> QED
    BY <1>1, <2>1, OtherOK, OneProcessOnly
<1>6. CASE DropSilent(k)
  <2> DEFINE n == p.sessions - 1
  <2>1. /\ n \in 0 .. MaxSessions
        /\ proc' = [proc EXCEPT ![k] = [p EXCEPT !.sessions = n, !.counted = n]]
    <3>1. p.sessions \in 0 .. MaxSessions /\ p.sessions > 0
      BY <1>1, <1>6 DEF Proc, DropSilent
    <3>2. proc' = [proc EXCEPT ![k].sessions = @ - 1, ![k].counted = n]
      BY <1>6 DEF DropSilent
    <3>3. proc' = [proc EXCEPT ![k] = [p EXCEPT !.sessions = n, !.counted = n]]
      BY <1>1, <3>2
    <3> QED
      BY <3>1, <3>3, ServerRegistryAssumption
  <2> HIDE DEF n
  <2> DEFINE q == [p EXCEPT !.sessions = n, !.counted = n]
  <2>2. /\ q \in Proc /\ q.phase = p.phase /\ q.ended = p.ended /\ (q.cut <=> p.cut)
        /\ (q.held <=> p.held) /\ q.due = p.due /\ q.redis = p.redis /\ (q.handler <=> p.handler)
    BY <1>1, <2>1 DEF ProcOK, Proc
  <2> HIDE DEF q
  <2>3. ProcOK(q, e)
    BY <1>1, <2>2, CountedOK
  <2> QED
    BY <1>1, <2>1, <2>3, OneProcessOnly DEF q
<1> QED
  BY <1>2, <1>3, <1>4, <1>5, <1>6

LEMMA TickOK == ASSUME ProcsOK, Tick PROVE ProcsOK'
<1>1. \A k \in Procs : ProcOK(Later(proc[k]), Aged(registry[k]))
  BY LaterOK DEF ProcsOK
<1>2. \A k \in Procs : Later(proc[k]) \in Proc /\ Aged(registry[k]) \in Entry
  BY <1>1 DEF ProcOK
<1> QED
  BY <1>1, <1>2 DEF ProcsOK, Tick

LEMMA AuthStepOK ==
    ASSUME ProcsOK, UNCHANGED <<proc, registry>>
    PROVE  ProcsOK'
BY DEF ProcsOK

-----------------------------------------------------------------------------
(* The selection                                                           *)

LEMMA SteadyRoomy ==
    ASSUME SelectionOK, KeepSteady
    PROVE  /\ steady' \subseteq Procs
           /\ auth.phase # "idle" => steady' \subseteq steady \cap Roomy(registry')
           /\ auth'.phase \in {"idle", "dead"} => steady' = {}
           /\ auth.phase = "idle" /\ auth'.phase \notin {"idle", "dead"}
                 => steady' = Roomy(registry)
BY DEF SelectionOK, KeepSteady, Roomy

\* As long as the auth server does nothing.
LEMMA WaitingOK ==
    ASSUME SelectionOK, KeepSteady, auth' = auth \/ BreakAuth
    PROVE  SelectionOK'
<1>1. /\ auth' \in Auth /\ auth'.phase = auth.phase /\ auth'.todo = auth.todo
      /\ auth'.redis = "open" => auth.redis = "open"
  BY DEF SelectionOK, Auth, BreakAuth
<1>2. steady' \subseteq Procs /\ (auth.phase # "idle" => steady' \subseteq steady)
      /\ (auth'.phase = "idle" => steady' = {})
  BY SteadyRoomy
<1> QED
  BY <1>1, <1>2 DEF SelectionOK

LEMMA AskKeysOK == ASSUME SelectionOK, AskKeys PROVE SelectionOK'
<1> DEFINE known == {k \in Procs : Registered(k)}
<1>1. /\ auth' \in Auth /\ auth'.todo = known /\ registry' = registry
      /\ auth'.phase = IF known = {} THEN "refusing" ELSE "choosing"
  BY DEF SelectionOK, Auth, AskKeys
<1>2. auth.phase = "idle" /\ KeepSteady
  BY DEF AskKeys
<1>3. steady' \subseteq known /\ steady' \subseteq Procs
  BY <1>1, <1>2, SteadyRoomy DEF Roomy, Registered
<1> QED
  BY <1>1, <1>3 DEF SelectionOK

LEMMA LookOK == ASSUME SelectionOK, NEW k \in Procs, Look(k) PROVE SelectionOK'
<1>1. /\ auth \in Auth /\ auth.phase = "choosing" /\ k \in auth.todo
      /\ registry' = registry /\ KeepSteady
  BY DEF SelectionOK, Look
<1>2. steady' \subseteq steady \cap Roomy(registry) /\ steady' \subseteq Procs
  BY <1>1, SteadyRoomy
<1>3. CASE auth'.phase \in {"idle", "dead"}
  <2>1. auth' \in Auth
    BY <1>1, <1>3 DEF Look, Auth, Pass
  <2>2. steady' = {}
    BY <1>1, <1>3, SteadyRoomy
  <2> QED
    BY <2>1, <2>2 DEF SelectionOK
<1>4. CASE auth' = Pass(k) /\ (auth.redis = "open" => k \notin Roomy(registry))
  <2>1. /\ auth' \in Auth /\ auth'.redis = auth.redis /\ auth'.todo = auth.todo \ {k}
        /\ auth'.phase = IF auth.todo = {k} THEN "refusing" ELSE "choosing"
    BY <1>1, <1>4 DEF Auth, Pass
  <2>2. auth.redis = "open" => steady' \subseteq auth.todo \ {k}
    BY <1>1, <1>2, <1>4 DEF SelectionOK
  <2> QED
    BY <1>2, <2>1, <2>2 DEF SelectionOK
<1> QED
  BY <1>1, <1>3, <1>4 DEF Look, Auth, Roomy, Registered

LEMMA RefuseOK == ASSUME SelectionOK, Refuse PROVE SelectionOK'
<1>1. auth' \in Auth /\ auth'.phase = "idle"
  BY DEF SelectionOK, Auth, Refuse
<1>2. steady' = {}
  BY <1>1, SteadyRoomy DEF Refuse
<1> QED
  BY <1>1, <1>2 DEF SelectionOK

-----------------------------------------------------------------------------
(* The theorems                                                            *)

LEMMA InitInvariant == Init => IInv
<1> SUFFICES ASSUME Init PROVE IInv
  OBVIOUS
<1> DEFINE first == CHOOSE a \in Addresses : TRUE
<1>1. first \in Addresses
  BY ServerRegistryAssumption
<1>2. ASSUME NEW a \in Addresses, NEW n \in 0 .. MaxSessions, NEW d \in -Ttl .. Period,
             NEW m \in 0 .. Ttl
      PROVE  [ phase |-> "unborn", at |-> a, running |-> TRUE, handler |-> FALSE,
               redis |-> "none", sessions |-> n, counted |-> n, due |-> d, ended |-> m,
               cut |-> FALSE, held |-> FALSE ] \in Proc
  BY DEF Proc
<1>3. /\ 0 \in 0 .. MaxSessions /\ Period \in -Ttl .. Period /\ 0 \in 0 .. Ttl
      /\ NoEntry \in Entry /\ NoEntry.ttl = 0 /\ Never # 0
  BY ServerRegistryAssumption DEF NoEntry, Entry, Never
<1> HIDE DEF first
<1>4. ASSUME NEW k \in Procs
      PROVE  proc[k] \in Proc /\ ProcOK(proc[k], registry[k])
  <2>1. /\ proc[k] \in Proc /\ registry[k] = NoEntry
        /\ proc[k].phase = "unborn" /\ proc[k].ended = 0
    BY <1>1, <1>2, <1>3 DEF Init, first
  <2> QED
    BY <1>3, <2>1 DEF ProcOK, Unregistered, InLoop, InTime, NeverIsCut, GoneInTime
<1>5. ProcsOK
  BY <1>3, <1>4 DEF Init, ProcsOK
<1>6. SelectionOK
  BY DEF Init, SelectionOK, Auth
<1> QED
  BY <1>5, <1>6 DEF IInv, Init

LEMMA StepInvariant == IInv /\ [Next]_vars => IInv'
<1> SUFFICES ASSUME IInv, [Next]_vars PROVE IInv'
  OBVIOUS
<1>1. up' = up
  BY DEF Next, vars, Start, Boot, ConnectRedis, ConnectMySQL, InstallHandlers, Loop,
         TestRunning, NextIteration, RegisterHset, RegisterExpire, Signal, Crash,
         DropSilent, Join,
         Leave, Look, Break, AskKeys, Refuse, BreakAuth, Tick
<1>2. CASE \E k \in Procs : \/ Start(k) \/ Boot(k) \/ Loop(k) \/ Signal(k)
                            \/ Crash(k) \/ DropSilent(k) \/ Join(k) \/ Leave(k)
                            \/ Break(k)
  <2>1. auth' = auth /\ KeepSteady
    BY <1>2 DEF Start, Boot, ConnectRedis, ConnectMySQL, InstallHandlers, Loop,
                TestRunning, NextIteration, RegisterHset, RegisterExpire, Signal, Crash,
                DropSilent, Join, Leave, Break
  <2>2. ProcsOK'
    BY <1>2, StartOK, BootOK, RunLoopOK, EventOK DEF IInv
  <2>3. SelectionOK'
    BY <2>1, WaitingOK DEF IInv
  <2> QED
    BY <1>1, <2>2, <2>3 DEF IInv
<1>3. CASE Tick
  <2>1. ProcsOK'
    BY <1>3, TickOK DEF IInv
  <2>2. SelectionOK'
    BY <1>3, WaitingOK DEF IInv, Tick
  <2> QED
    BY <1>1, <2>1, <2>2 DEF IInv
<1>4. CASE (\E k \in Procs : Look(k)) \/ AskKeys \/ Refuse \/ BreakAuth
  <2>1. UNCHANGED <<proc, registry>>
    BY <1>4 DEF Look, AskKeys, Refuse, BreakAuth
  <2>2. ProcsOK'
    BY <2>1, AuthStepOK DEF IInv
  <2>3. SelectionOK'
    BY <1>4, LookOK, AskKeysOK, RefuseOK, WaitingOK DEF IInv, BreakAuth
  <2> QED
    BY <1>1, <2>2, <2>3 DEF IInv
<1>5. CASE UNCHANGED vars
  BY <1>5, AuthStepOK DEF IInv, vars, SelectionOK
<1> QED
  BY <1>2, <1>3, <1>4, <1>5 DEF Next

LEMMA Invariant == Spec => []IInv
BY InitInvariant, StepInvariant, PTL DEF Spec

\* Every variable has its type.
THEOREM RegistryTypeCorrect == Spec => []TypeOK
<1>1. IInv => TypeOK
  BY DEF IInv, ProcsOK, SelectionOK, TypeOK
<1> QED
  BY <1>1, Invariant, PTL

\* A server whose loop is on time is known in Redis, for every expiry and period.
THEOREM RegisteredInTime == Spec => []RegisteredUnlessStalled
<1>1. IInv => RegisteredUnlessStalled
  <2> SUFFICES ASSUME IInv, NEW k \in Procs,
                      proc[k].phase \in {"looping", "body"}, proc[k].redis = "open",
                      ~proc[k].held, proc[k].due > Period - Ttl
               PROVE  Registered(k)
    BY DEF RegisteredUnlessStalled
  <2>1. ProcOK(proc[k], registry[k]) /\ proc[k].due \in Int
    BY ServerRegistryAssumption DEF IInv, ProcsOK, Proc
  <2>2. InTime(proc[k], registry[k]) /\ registry[k] \in Entry
    BY <2>1 DEF ProcOK
  <2> QED
    BY <2>1, <2>2, ServerRegistryAssumption DEF InTime, InLoop, Registered, Entry, Never
<1> QED
  BY <1>1, Invariant, PTL

\* A server that has ended is forgotten within the expiry, unless it was cut off
\* between HSET and EXPIRE.
THEOREM DeadForgotten == Spec => []DeadServerForgotten
<1>1. IInv => DeadServerForgotten
  <2> SUFFICES ASSUME IInv, NEW k \in Procs, Registered(k),
                      proc[k].phase = "gone", ~proc[k].cut
               PROVE  proc[k].ended < Ttl
    BY DEF DeadServerForgotten
  <2>1. ProcOK(proc[k], registry[k]) /\ proc[k].ended \in Nat
    BY DEF IInv, ProcsOK, Proc
  <2>2. GoneInTime(proc[k], registry[k]) /\ registry[k] \in Entry
    BY <2>1 DEF ProcOK
  <2> QED
    BY <2>1, <2>2, ServerRegistryAssumption DEF GoneInTime, Registered, Entry
<1> QED
  BY <1>1, Invariant, PTL

\* No server is known in Redis before it handles packets.
THEOREM KnownServersHandle == Spec => []RegisteredHandles
<1>1. IInv => RegisteredHandles
  <2> SUFFICES ASSUME IInv, NEW k \in Procs, Registered(k), proc[k].phase # "gone"
               PROVE  proc[k].handler
    BY DEF RegisteredHandles
  <2>1. ProcOK(proc[k], registry[k]) /\ proc[k] \in Proc
    BY DEF IInv, ProcsOK
  <2>2. proc[k].phase \in InLoop
    BY <2>1 DEF ProcOK, Registered, Proc, Unregistered, InLoop
  <2> QED
    BY <2>1, <2>2 DEF ProcOK
<1> QED
  BY <1>1, Invariant, PTL

\* A client is not turned away while a server stays registered with room.
THEOREM ClientFindsRoom == Spec => []RoomIsFound
<1>1. IInv => RoomIsFound
  BY DEF IInv, SelectionOK, RoomIsFound
<1> QED
  BY <1>1, Invariant, PTL

-----------------------------------------------------------------------------
(* The exception that ends the auth server                                 *)

\* Whoever has registered does not go back to before that.
Begun(k) == proc[k].phase \notin Unregistered

LEMMA BegunStays ==
    ASSUME ProcsOK, [Next]_vars, NEW k \in Procs, Begun(k)
    PROVE  Begun(k)'
<1> DEFINE onward == {"expiring", "looping", "body", "gone"}
<1> USE DEF Begun
<1>1. proc \in [Procs -> Proc] /\ proc[k] \in Proc
  BY DEF ProcsOK
<1>2. \A x : x \in onward => x \notin Unregistered
  BY DEF Unregistered
<1>3. ASSUME NEW l \in Procs,
             Start(l) \/ ConnectRedis(l) \/ ConnectMySQL(l) \/ InstallHandlers(l)
      PROVE  proc'[k].phase \notin Unregistered
  <2>1. l # k
    BY <1>3 DEF Start, ConnectRedis, ConnectMySQL, InstallHandlers, Unregistered
  <2> QED
    BY <1>1, <1>3, <2>1 DEF Start, ConnectRedis, ConnectMySQL, InstallHandlers
<1>4. ASSUME NEW l \in Procs, TestRunning(l) \/ Crash(l)
      PROVE  proc'[k].phase \notin Unregistered
  <2>1. proc'[k].phase \in {proc[k].phase, "body", "gone"}
    <3> DEFINE q == [proc[l] EXCEPT !.phase = "body", !.counted = proc[l].sessions]
    <3>1. Ended(proc[l]).phase = "gone" /\ q.phase = "body"
      BY <1>1 DEF Ended, Proc, ProcsOK
    <3>2. proc' = [proc EXCEPT ![l] = Ended(proc[l])] \/ proc' = [proc EXCEPT ![l] = q]
      BY <1>1, <1>4 DEF TestRunning, Crash
    <3> HIDE DEF q
    <3> QED
      BY <1>1, <3>1, <3>2
  <2> QED
    BY <1>2, <2>1
<1>5. ASSUME NEW l \in Procs, NextIteration(l) \/ RegisterHset(l) \/ RegisterExpire(l)
      PROVE  proc'[k].phase \notin Unregistered
  <2>1. proc'[k].phase \in {proc[k].phase, "looping", "expiring"}
    <3>1. CASE NextIteration(l)
      BY <1>1, <3>1 DEF NextIteration
    <3>2. CASE RegisterHset(l)
      BY <1>1, <3>2 DEF RegisterHset
    <3>3. CASE RegisterExpire(l)
      <4>1. proc' = [proc EXCEPT ![l] = [proc[l] EXCEPT !.phase = "looping", !.due = Period,
                                             !.held = proc[l].due <= Period - Ttl]]
        BY <1>1, <3>3 DEF RegisterExpire
      <4> QED
        BY <1>1, <4>1 DEF Proc
    <3> QED
      BY <1>5, <3>1, <3>2, <3>3
  <2> QED
    BY <1>2, <2>1
<1>6. ASSUME NEW l \in Procs,
             Signal(l) \/ DropSilent(l) \/ Join(l) \/ Leave(l) \/ Break(l)
      PROVE  proc'[k].phase \notin Unregistered
  BY <1>1, <1>6 DEF Signal, DropSilent, Join, Leave, Break, Proc
<1>7. CASE Tick
  BY <1>1, <1>7 DEF Tick, Later, Proc
<1>8. CASE UNCHANGED proc
  BY <1>8
<1>9. (\E l \in Procs : Look(l)) \/ AskKeys \/ Refuse \/ BreakAuth \/ UNCHANGED vars
          => UNCHANGED proc
  BY DEF Look, AskKeys, Refuse, BreakAuth, vars
<1>10. Next \/ UNCHANGED vars
  OBVIOUS
<1> QED
  BY <1>3, <1>4, <1>5, <1>6, <1>7, <1>8, <1>9, <1>10 DEF Next, Boot, Loop

\* The auth server only asks for servers that have registered.
TodoOK == \A k \in auth.todo : k \in Procs /\ Begun(k)

LEMMA TodoStep == IInv /\ TodoOK /\ [Next]_vars => TodoOK'
<1> SUFFICES ASSUME IInv, TodoOK, [Next]_vars, NEW k \in auth'.todo
             PROVE  k \in Procs /\ Begun(k)'
  BY DEF TodoOK
<1>1. ProcsOK /\ auth \in Auth
  BY DEF IInv, SelectionOK
<1>2. CASE AskKeys
  <2>1. k \in Procs /\ Registered(k) /\ proc' = proc
    BY <1>1, <1>2 DEF AskKeys, Auth
  <2>2. Begun(k)
    BY <1>1, <2>1 DEF Begun, Registered, ProcsOK, ProcOK
  <2> QED
    BY <2>1, <2>2 DEF Begun
<1>3. CASE auth'.todo \subseteq auth.todo
  BY <1>1, <1>3, BegunStays DEF TodoOK
<1>4. ASSUME NEW l \in Procs, Look(l) PROVE auth'.todo \subseteq auth.todo
  BY <1>1, <1>4 DEF Look, Pass, Auth
<1>5. Refuse \/ BreakAuth => auth'.todo \subseteq auth.todo
  BY <1>1 DEF Refuse, BreakAuth, Auth
<1>6. ASSUME ~AskKeys, ~(\E l \in Procs : Look(l)), ~Refuse, ~BreakAuth
      PROVE  auth' = auth
  BY <1>6 DEF Next, vars, Start, Boot, ConnectRedis, ConnectMySQL, InstallHandlers,
       Loop, TestRunning, NextIteration, RegisterHset, RegisterExpire, Signal, Crash,
         DropSilent, Join,
       Leave, Break, Tick
<1> QED
  BY <1>2, <1>3, <1>4, <1>5, <1>6

\* A search does not end the auth server while the servers it goes through renew
\* their registrations in time, however they interleave with it.
THEOREM AbortsOverLostOnly == Spec => AbortsOnlyOverLostServer
<1>1. Init => TodoOK
  <2>1. Init => auth = [phase |-> "idle", redis |-> "open", todo |-> {}]
    BY DEF Init
  <2>2. Init => auth.todo = {}
    BY <2>1
  <2> QED
    BY <2>2 DEF TodoOK
<1>2. IInv /\ TodoOK /\ [Next]_vars
          => [auth.phase # "dead" /\ auth'.phase = "dead" =>
                 \E k \in auth.todo :
                     \/ proc[k].phase = "gone" \/ proc[k].redis # "open"
                     \/ proc[k].held \/ proc[k].due <= Period - Ttl]_vars
  <2> SUFFICES ASSUME IInv, TodoOK, Next, auth.phase # "dead", auth'.phase = "dead"
               PROVE  \E k \in auth.todo :
                          \/ proc[k].phase = "gone" \/ proc[k].redis # "open"
                          \/ proc[k].held \/ proc[k].due <= Period - Ttl
    OBVIOUS
  <2>1. auth \in Auth
    BY DEF IInv, SelectionOK
  <2>2. \E k \in Procs : Look(k)
    BY <2>1 DEF Next, Start, Boot, ConnectRedis, ConnectMySQL, InstallHandlers, Loop,
         TestRunning, NextIteration, RegisterHset, RegisterExpire, Signal, Crash,
         DropSilent, Join,
         Leave, Break, Tick, AskKeys, Refuse, BreakAuth, Auth
  <2>3. PICK k \in Procs : Look(k)
    BY <2>2
  <2>4. k \in auth.todo /\ ~Registered(k)
    BY <2>1, <2>3 DEF Look, Pass, Auth
  <2>5. /\ ProcOK(proc[k], registry[k]) /\ proc[k] \in Proc
        /\ proc[k].phase \notin Unregistered /\ registry[k].ttl = 0
    BY <2>4 DEF IInv, ProcsOK, TodoOK, Begun, Registered
  <2>6. proc[k].phase \in InLoop \cup {"gone"}
    BY <2>5 DEF Proc, Unregistered, InLoop
  <2>7. InTime(proc[k], registry[k]) /\ proc[k].due \in Int
    BY <2>5, ServerRegistryAssumption DEF ProcOK, Proc
  <2>8. proc[k].due > Period - Ttl => 0 < proc[k].due + (Ttl - Period)
    BY <2>7, ServerRegistryAssumption
  <2>9. CASE proc[k].phase \in InLoop /\ proc[k].redis = "open" /\ proc[k].due > Period - Ttl
    BY <2>4, <2>5, <2>7, <2>8, <2>9, ServerRegistryAssumption DEF InTime, Never
  <2> QED
    BY <2>4, <2>6, <2>7, <2>9, ServerRegistryAssumption
<1> QED
  BY <1>1, <1>2, TodoStep, Invariant, PTL DEF Spec, AbortsOnlyOverLostServer
=============================================================================
