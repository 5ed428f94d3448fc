--------------------------- MODULE MovementProofs ---------------------------
(***************************************************************************)
(* Movement for any positions, any number of steps and any number of       *)
(* datagrams under way: types, and that those who are at rest agree.       *)
(***************************************************************************)
EXTENDS Movement, SequenceTheorems, TLAPS

\* Whoever takes over the datagrams s in their order ends at p.
EndsAt(s, stored, p) == IF s = <<>> THEN stored = p ELSE s[Len(s)] = p

\* On a leg that is not spoilt the receiver ends where the sender is.
LegsEndRight ==
    /\ hasSent /\ "report" \notin spoilt => EndsAt(leg["report"], server, lastSent)
    /\ "relay" \notin spoilt => EndsAt(leg["relay"], shown, server)

IInv == TypeOK /\ LegsEndRight

-----------------------------------------------------------------------------
(* Sequences                                                               *)

LEMMA WithoutProperties ==
    ASSUME NEW S, NEW s \in Seq(S), NEW i \in 1 .. Len(s)
    PROVE  /\ Without(s, i) \in Seq(S)
           /\ Len(Without(s, i)) = Len(s) - 1
           /\ Without(s, i) = <<>> <=> Len(s) = 1
           /\ i # Len(s) => Without(s, i)[Len(Without(s, i))] = s[Len(s)]
<1> DEFINE n == Len(s) - 1
           w == Without(s, i)
<1>1. Len(s) \in Nat /\ n \in Nat /\ i \in 1 .. n + 1
  BY LenProperties
<1>2. \A j \in 1 .. n : (IF j < i THEN s[j] ELSE s[j + 1]) \in S
  <2>1. \A j \in 1 .. Len(s) : s[j] \in S
    BY ElementOfSeq
  <2> QED
    BY <1>1, <2>1
<1>3. w \in Seq(S) /\ Len(w) = n
  BY <1>1, <1>2 DEF Without
<1>4. w = <<>> <=> Len(s) = 1
  BY <1>1, <1>3, EmptySeq
<1>5. ASSUME i # Len(s) PROVE w[n] = s[Len(s)]
  BY <1>1, <1>5 DEF Without
<1> QED
  BY <1>3, <1>4, <1>5

\* A leg ends with what was sent last.
LEMMA AppendEnds ==
    ASSUME NEW s \in Seq(Positions), NEW p \in Positions, NEW stored
    PROVE  /\ Append(s, p) \in Seq(Positions) /\ Len(Append(s, p)) = Len(s) + 1
           /\ EndsAt(Append(s, p), stored, p)
BY AppendProperties, LenProperties DEF EndsAt

\* A datagram that is taken off the leg, its position being taken over or not.
LEMMA TakenOff ==
    ASSUME NEW S, NEW s \in Seq(S), NEW i \in 1 .. Len(s), NEW stored, NEW p,
           EndsAt(s, stored, p)
    PROVE  /\ ~(i = Len(s) /\ i # 1) => EndsAt(Without(s, i), s[i], p)
           /\ i # Len(s) => EndsAt(Without(s, i), stored, p)
<1>1. Len(s) \in Nat /\ s # <<>> /\ s[Len(s)] = p
  BY LenProperties, EmptySeq DEF EndsAt
<1>2. /\ Without(s, i) = <<>> <=> Len(s) = 1
      /\ i # Len(s) => Without(s, i)[Len(Without(s, i))] = p
  BY <1>1, WithoutProperties
<1> DEFINE w == Without(s, i)
<1> HIDE DEF w
<1>3. CASE i = Len(s)
  <2>1. s[i] = p /\ (i = 1 => w = <<>>)
    BY <1>1, <1>2, <1>3 DEF w
  <2> QED
    BY <1>3, <2>1 DEF EndsAt, w
<1>4. CASE i # Len(s)
  <2>1. w # <<>> /\ w[Len(w)] = p
    BY <1>1, <1>2, <1>4 DEF w
  <2> QED
    BY <1>4, <2>1 DEF EndsAt, w
<1> QED
  BY <1>3, <1>4

-----------------------------------------------------------------------------
(* Steps                                                                   *)

\* A leg that loses its i-th datagram still has its type.
LEMMA WithoutTypes ==
    ASSUME TypeOK, NEW l \in Legs, NEW i \in 1 .. Len(leg[l])
    PROVE  /\ leg[l] \in Seq(Positions) /\ leg[l][i] \in Positions
           /\ Without(leg[l], i) \in Seq(Positions)
           /\ Len(Without(leg[l], i)) <= Window
           /\ leg[l] # <<>>
<1>1. leg[l] \in Seq(Positions) /\ Len(leg[l]) <= Window
  BY DEF TypeOK
<1>2. Len(leg[l]) \in Nat /\ leg[l][i] \in Positions
  BY <1>1, LenProperties, ElementOfSeq
<1>3. /\ Without(leg[l], i) \in Seq(Positions)
      /\ Len(Without(leg[l], i)) = Len(leg[l]) - 1
  BY <1>1, WithoutProperties
<1> QED
  BY <1>1, <1>2, <1>3, EmptySeq, MovementAssumption

LEMMA InitInvariant == Init => IInv
<1> SUFFICES ASSUME Init PROVE IInv
  OBVIOUS
<1>1. <<>> \in Seq(Positions) /\ Len(<<>>) = 0
  BY EmptySeq
<1>2. TypeOK
  <2>1. {actor, server, shown, lastSent} \subseteq Positions
    BY MovementAssumption DEF Init
  <2>2. leg \in [Legs -> Seq(Positions)] /\ \A l \in Legs : Len(leg[l]) <= Window
    BY <1>1, MovementAssumption DEF Init
  <2>3. leg["report"] = <<>> /\ lastSent = Origin
    BY DEF Init, Legs
  <2>4. walks \in 0 .. MaxWalks
    BY MovementAssumption DEF Init
  <2>5. bound \in BOOLEAN /\ hasSent \in BOOLEAN /\ calm \in BOOLEAN
    BY DEF Init
  <2> QED
    BY <2>1, <2>2, <2>3, <2>4, <2>5 DEF Init, TypeOK
<1>3. LegsEndRight
  BY DEF Init, LegsEndRight, EndsAt, Legs
<1> QED
  BY <1>2, <1>3 DEF IInv

LEMMA MoverOK ==
    ASSUME IInv, (\E p \in Positions : Walk(p)) \/ StartMoveTimer \/ NetworkCalms
    PROVE  IInv'
<1>1. UNCHANGED <<lastSent, hasSent, server, shown, leg, spoilt>>
  BY DEF Walk, StartMoveTimer, NetworkCalms
<1>2. /\ actor' \in Positions /\ bound' \in BOOLEAN /\ calm' \in BOOLEAN
      /\ walks' \in 0 .. MaxWalks
  <2>1. CASE \E p \in Positions : Walk(p)
    BY <2>1, MovementAssumption DEF IInv, TypeOK, Walk
  <2>2. CASE StartMoveTimer \/ NetworkCalms
    BY <2>2 DEF IInv, TypeOK, StartMoveTimer, NetworkCalms
  <2> QED
    BY <2>1, <2>2
<1>3. TypeOK'
  BY <1>1, <1>2 DEF IInv, TypeOK
<1>4. LegsEndRight'
  BY <1>1 DEF IInv, LegsEndRight
<1> QED
  BY <1>3, <1>4 DEF IInv

LEMMA MoveTickOK == ASSUME IInv, MoveTick PROVE IInv'
<1> DEFINE s == leg["report"]
<1>1. /\ s \in Seq(Positions) /\ actor \in Positions /\ Len(s) \in Nat
      /\ "report" \in Legs
  BY LenProperties DEF IInv, TypeOK, Legs
<1>2. Len(s) < Window
  BY <1>1, EmptySeq, MovementAssumption DEF MoveTick
<1>3. /\ leg' = [leg EXCEPT !["report"] = Append(s, actor)]
      /\ lastSent' = actor /\ hasSent' = TRUE /\ spoilt' = spoilt \ {"report"}
      /\ UNCHANGED <<actor, bound, server, shown, walks, calm>>
  BY DEF MoveTick, Reported, Validated
<1>4. /\ Append(s, actor) \in Seq(Positions) /\ Len(Append(s, actor)) <= Window
      /\ EndsAt(Append(s, actor), server, actor)
  BY <1>1, <1>2, AppendEnds, MovementAssumption
<1>5. TypeOK'
  BY <1>1, <1>3, <1>4 DEF IInv, TypeOK
<1>6. LegsEndRight'
  <2>1. leg'["report"] = Append(s, actor) /\ leg'["relay"] = leg["relay"]
    BY <1>1, <1>3 DEF IInv, TypeOK, Legs
  <2> QED
    BY <1>3, <1>4, <2>1 DEF IInv, LegsEndRight
<1> QED
  BY <1>5, <1>6 DEF IInv

LEMMA LoseOK == ASSUME IInv, NEW l \in Legs, Lose(l) PROVE IInv'
<1>1. PICK i \in 1 .. Len(leg[l]) :
          /\ leg' = [leg EXCEPT ![l] = Without(leg[l], i)]
          /\ spoilt' = IF i = Len(leg[l]) THEN spoilt \cup {l} ELSE spoilt
  BY DEF Lose
<1>2. UNCHANGED <<actor, bound, lastSent, hasSent, server, shown, walks, calm>>
  BY DEF Lose
<1>3. /\ leg[l] \in Seq(Positions) /\ Without(leg[l], i) \in Seq(Positions)
      /\ Len(Without(leg[l], i)) <= Window /\ leg[l] # <<>>
  BY WithoutTypes DEF IInv
<1>4. TypeOK'
  BY <1>1, <1>2, <1>3 DEF IInv, TypeOK
<1>5. /\ leg'[l] = Without(leg[l], i) /\ \A m \in Legs \ {l} : leg'[m] = leg[m]
      /\ l \notin spoilt' => i # Len(leg[l])
      /\ spoilt \subseteq spoilt'
  BY <1>1 DEF IInv, TypeOK
<1>6. \A stored, p : l \notin spoilt' /\ EndsAt(leg[l], stored, p)
                         => EndsAt(leg'[l], stored, p)
  BY <1>3, <1>5, TakenOff
<1>7. LegsEndRight'
  BY <1>2, <1>5, <1>6 DEF IInv, LegsEndRight, Legs
<1> QED
  BY <1>4, <1>7 DEF IInv

LEMMA ServerMovesOK == ASSUME IInv, ServerMoves PROVE IInv'
<1>1. PICK i \in 1 .. Len(leg["report"]) :
          /\ server' = leg["report"][i]
          /\ leg' = [l \in Legs |->
                        IF l = "report" THEN Without(leg[l], i)
                        ELSE Append(leg[l], leg["report"][i])]
          /\ spoilt' = (spoilt \ {"echo", "relay"}) \cup Overtaking("report", i)
  BY DEF ServerMoves, Arriving, Told, Legs
<1> DEFINE p == leg["report"][i]
<1>2. /\ UNCHANGED <<actor, bound, lastSent, hasSent, shown, walks, calm>>
      /\ Len(leg["echo"]) < Window /\ Len(leg["relay"]) < Window
  BY DEF ServerMoves
<1>3. /\ leg["report"] \in Seq(Positions) /\ p \in Positions
      /\ Without(leg["report"], i) \in Seq(Positions)
      /\ Len(Without(leg["report"], i)) <= Window /\ leg["report"] # <<>>
  BY WithoutTypes DEF IInv, Legs
<1>4. /\ leg["echo"] \in Seq(Positions) /\ leg["relay"] \in Seq(Positions)
      /\ Len(leg["echo"]) \in Nat /\ Len(leg["relay"]) \in Nat
  BY LenProperties DEF IInv, TypeOK, Legs
<1>5. /\ Append(leg["echo"], p) \in Seq(Positions) /\ Len(Append(leg["echo"], p)) <= Window
      /\ Append(leg["relay"], p) \in Seq(Positions)
      /\ Len(Append(leg["relay"], p)) <= Window
      /\ EndsAt(Append(leg["relay"], p), shown, p)
  BY <1>2, <1>3, <1>4, AppendEnds, MovementAssumption
<1>6. /\ leg'["report"] = Without(leg["report"], i) /\ leg'["echo"] = Append(leg["echo"], p)
      /\ leg'["relay"] = Append(leg["relay"], p) /\ leg' \in [Legs -> Seq(Positions)]
  BY <1>1, <1>3, <1>5 DEF Legs
<1>7. TypeOK'
  <2>1. \A l \in Legs : Len(leg'[l]) <= Window
    BY <1>3, <1>5, <1>6 DEF Legs
  <2>2. spoilt' \subseteq Legs
    BY <1>1 DEF IInv, TypeOK, Overtaking, Legs
  <2>3. hasSent
    BY <1>3 DEF IInv, TypeOK
  <2> QED
    BY <1>1, <1>2, <1>3, <1>6, <2>1, <2>2, <2>3 DEF IInv, TypeOK
<1>8. LegsEndRight'
  <2>1. ASSUME "report" \notin spoilt', hasSent
        PROVE  EndsAt(leg'["report"], server', lastSent)
    <3>1. "report" \notin spoilt /\ ~(i = Len(leg["report"]) /\ i # 1)
      BY <1>1, <2>1 DEF Overtaking
    <3>2. EndsAt(leg["report"], server, lastSent)
      BY <2>1, <3>1 DEF IInv, LegsEndRight
    <3> QED
      BY <1>1, <1>3, <1>6, <3>1, <3>2, TakenOff
  <2> QED
    BY <1>1, <1>2, <1>5, <1>6, <2>1 DEF LegsEndRight
<1> QED
  BY <1>7, <1>8 DEF IInv

LEMMA HearOK == ASSUME IInv, HearConfirmed PROVE IInv'
<1>1. PICK i \in 1 .. Len(leg["echo"]) :
          /\ actor' = IF bound THEN leg["echo"][i] ELSE actor
          /\ leg' = [leg EXCEPT !["echo"] = Without(leg["echo"], i)]
          /\ spoilt' = spoilt \cup Overtaking("echo", i)
  BY DEF HearConfirmed, Arriving
<1>2. UNCHANGED <<bound, lastSent, hasSent, server, shown, walks, calm>>
  BY DEF HearConfirmed
<1>3. /\ leg["echo"][i] \in Positions /\ Without(leg["echo"], i) \in Seq(Positions)
      /\ Len(Without(leg["echo"], i)) <= Window
  BY WithoutTypes DEF IInv, Legs
<1>4. /\ leg'["echo"] = Without(leg["echo"], i) /\ leg' \in [Legs -> Seq(Positions)]
      /\ leg'["report"] = leg["report"] /\ leg'["relay"] = leg["relay"]
  BY <1>1, <1>3 DEF IInv, TypeOK, Legs
<1>5. TypeOK'
  <2>1. actor' \in Positions
    BY <1>1, <1>3 DEF IInv, TypeOK
  <2>2. \A l \in Legs : Len(leg'[l]) <= Window
    BY <1>3, <1>4 DEF IInv, TypeOK, Legs
  <2>3. spoilt' \subseteq Legs
    BY <1>1 DEF IInv, TypeOK, Overtaking, Legs
  <2> QED
    BY <1>2, <1>4, <2>1, <2>2, <2>3 DEF IInv, TypeOK
<1>6. LegsEndRight'
  BY <1>1, <1>2, <1>4 DEF IInv, LegsEndRight
<1> QED
  BY <1>5, <1>6 DEF IInv

LEMMA ObserveOK == ASSUME IInv, Observe PROVE IInv'
<1>1. PICK i \in 1 .. Len(leg["relay"]) :
          /\ shown' = leg["relay"][i]
          /\ leg' = [leg EXCEPT !["relay"] = Without(leg["relay"], i)]
          /\ spoilt' = spoilt \cup Overtaking("relay", i)
  BY DEF Observe, Arriving
<1>2. UNCHANGED <<actor, bound, lastSent, hasSent, server, walks, calm>>
  BY DEF Observe
<1>3. /\ leg["relay"] \in Seq(Positions) /\ leg["relay"][i] \in Positions
      /\ Without(leg["relay"], i) \in Seq(Positions)
      /\ Len(Without(leg["relay"], i)) <= Window
  BY WithoutTypes DEF IInv, Legs
<1>4. /\ leg'["relay"] = Without(leg["relay"], i) /\ leg' \in [Legs -> Seq(Positions)]
      /\ leg'["report"] = leg["report"] /\ leg'["echo"] = leg["echo"]
  BY <1>1, <1>3 DEF IInv, TypeOK, Legs
<1>5. TypeOK'
  <2>1. \A l \in Legs : Len(leg'[l]) <= Window
    BY <1>3, <1>4 DEF IInv, TypeOK, Legs
  <2>2. spoilt' \subseteq Legs
    BY <1>1 DEF IInv, TypeOK, Overtaking, Legs
  <2> QED
    BY <1>1, <1>2, <1>3, <1>4, <2>1, <2>2 DEF IInv, TypeOK
<1>6. ASSUME "relay" \notin spoilt' PROVE EndsAt(leg'["relay"], shown', server)
  <2>1. "relay" \notin spoilt /\ ~(i = Len(leg["relay"]) /\ i # 1)
    BY <1>1, <1>6 DEF Overtaking
  <2>2. EndsAt(leg["relay"], shown, server)
    BY <2>1 DEF IInv, LegsEndRight
  <2> QED
    BY <1>1, <1>3, <1>4, <2>1, <2>2, TakenOff
<1>7. LegsEndRight'
  BY <1>1, <1>2, <1>4, <1>6 DEF IInv, LegsEndRight
<1> QED
  BY <1>5, <1>7 DEF IInv

LEMMA StepInvariant == IInv /\ [Next]_vars => IInv'
<1> SUFFICES ASSUME IInv, [Next]_vars PROVE IInv'
  OBVIOUS
<1>1. CASE UNCHANGED vars
  BY <1>1 DEF vars, IInv, TypeOK, LegsEndRight
<1>2. CASE Next
  BY <1>2, MoverOK, MoveTickOK, LoseOK, ServerMovesOK, HearOK, ObserveOK DEF Next
<1> QED
  BY <1>1, <1>2

LEMMA Invariant == Spec => []IInv
BY InitInvariant, StepInvariant, PTL DEF Spec

-----------------------------------------------------------------------------
(* The theorems                                                            *)

\* Every variable has its type, and nothing is sent before bHasSentValidPosition.
THEOREM MovementTypeCorrect == Spec => []TypeOK
<1>1. IInv => TypeOK
  BY DEF IInv
<1> QED
  BY <1>1, Invariant, PTL

\* A player who stands still is where the server and the observer have it, unless the
\* last datagram of a leg was lost or overtook another: earlier losses and any number
\* of corrections by the echo do not matter.
THEOREM RestingAgree == Spec => []RestMeansAgreement
<1>1. IInv => RestMeansAgreement
  BY DEF IInv, LegsEndRight, EndsAt, AtRest, RestMeansAgreement
<1> QED
  BY <1>1, Invariant, PTL
=============================================================================
