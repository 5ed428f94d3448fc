------------------------------ MODULE Movement ------------------------------
(***************************************************************************)
(* How a step of a player reaches the server and the other clients: the    *)
(* movement component of the player's own client (the mover) reports where *)
(* its actor stands, the server takes over what it is told and sends it to *)
(* every player near, the mover among them, and whoever hears of it takes  *)
(* it over in turn.                                                        *)
(*                                                                         *)
(* One entity is followed, with one other client that sees it (the         *)
(* observer).  Positions differ by more than the tolerances of the code,   *)
(* and all are near each other: zones are those of GameWorld.  A datagram  *)
(* may be late, lost or overtaken until the network calms down; from then  *)
(* on a report and its echo take less time than the move timer.            *)
(***************************************************************************)
EXTENDS Integers, Sequences

CONSTANTS
    Positions,
    Origin,   \* (0, 0, 0)
    MaxWalks, \* a bound for TLC: steps of the player
    Window    \* a bound for TLC: datagrams under way on one leg

ASSUME MovementAssumption ==
    Origin \in Positions /\ MaxWalks \in Nat /\ Window \in Nat \ {0}

\* C_Move to the server, S_Move back to the mover and on to the observer.
Legs == {"report", "echo", "relay"}

VARIABLES
    actor,    \* where the mover's actor stands
    bound,    \* the move timer runs and OnMoveResponse is bound
    lastSent, \* LastSentPos
    hasSent,  \* bHasSentValidPosition
    server,   \* the position of the server's entity
    shown,    \* Location in the observer's FNetworkedEntityInfo
    leg,      \* leg -> the positions under way on it
    walks,    \* steps of the player so far
    calm,     \* the network has calmed down
    spoilt    \* history: the legs whose newest datagram was lost or overtook another

vars == <<actor, bound, lastSent, hasSent, server, shown, leg, walks, calm, spoilt>>

\* The mover and the observer are told of the entity where the server has it.
Init ==
    /\ server \in Positions /\ actor = server /\ shown = server
    /\ bound = FALSE
    /\ lastSent = Origin /\ hasSent = FALSE
    /\ leg = [l \in Legs |-> <<>>]
    /\ walks = 0
    /\ calm = FALSE
    /\ spoilt = {}

-----------------------------------------------------------------------------
(* The mover                                                               *)

\* The player steps, falls or is pushed.
Walk(p) ==
    /\ walks < MaxWalks /\ p # actor
    /\ actor' = p
    /\ walks' = walks + 1
    /\ UNCHANGED <<bound, lastSent, hasSent, server, shown, leg, calm, spoilt>>

\* The poll of BeginPlay that finds the entity's id equal to the selected character.
StartMoveTimer ==
    /\ ~bound
    /\ bound' = TRUE
    /\ UNCHANGED <<actor, lastSent, hasSent, server, shown, leg, walks, calm, spoilt>>

\* Where the actor stands is reported when that has changed, but not as long as the
\* actor has never left the origin.
\* Mutant: every tick reports.
WorthSendingAlways == actor # Origin \/ hasSent
WorthSending == (actor # Origin \/ hasSent) /\ actor # lastSent

\* Mutant: the position before is reported.
ReportedBefore == lastSent
Reported == actor

\* bHasSentValidPosition after a report.
\* Mutant: it is not set.
ValidatedNever == hasSent
Validated == TRUE

\* SendCurrentPositionToServer, every 50 ms: what was sent is taken for arrived.
MoveTick ==
    /\ bound /\ WorthSending
    /\ IF calm THEN \A l \in Legs : leg[l] = <<>> ELSE Len(leg["report"]) < Window
    /\ leg' = [leg EXCEPT !["report"] = Append(@, Reported)]
    /\ spoilt' = spoilt \ {"report"}
    /\ hasSent' = Validated
    /\ lastSent' = actor
    /\ UNCHANGED <<actor, bound, server, shown, walks, calm>>

-----------------------------------------------------------------------------
(* Datagrams                                                               *)

\* s without its i-th element.
Without(s, i) == [j \in 1 .. Len(s) - 1 |-> IF j < i THEN s[j] ELSE s[j + 1]]

\* The datagrams of a leg that may come out of the network next.
Arriving(l) == {i \in 1 .. Len(leg[l]) : calm => i = 1}

\* Whether the i-th datagram going spoils the leg: the newest overtakes another.
Overtaking(l, i) == IF i = Len(leg[l]) /\ i # 1 THEN {l} ELSE {}

Lose(l) ==
    /\ ~calm
    /\ \E i \in 1 .. Len(leg[l]) :
          /\ leg' = [leg EXCEPT ![l] = Without(@, i)]
          /\ spoilt' = IF i = Len(leg[l]) THEN spoilt \cup {l} ELSE spoilt
    /\ UNCHANGED <<actor, bound, lastSent, hasSent, server, shown, walks, calm>>

NetworkCalms ==
    /\ ~calm
    /\ calm' = TRUE
    /\ UNCHANGED <<actor, bound, lastSent, hasSent, server, shown, leg, walks, spoilt>>

-----------------------------------------------------------------------------
(* The server and those who hear of it                                     *)

\* The players who are told that the entity has moved to p.
\* Mutant: a position that the entity has already is not told.
ToldOfChange(p) == IF p = server THEN {} ELSE {"echo", "relay"}
Told(p) == {"echo", "relay"}

\* PACKET_C_MOVE: Entity::MoveTo takes the position over and tells the players near.
ServerMoves ==
    /\ Len(leg["echo"]) < Window /\ Len(leg["relay"]) < Window
    /\ \E i \in Arriving("report") :
          LET p == leg["report"][i]
          IN  /\ server' = p
              /\ leg' = [l \in Legs |->
                            IF l = "report" THEN Without(leg[l], i)
                            ELSE IF l \in Told(p) THEN Append(leg[l], p) ELSE leg[l]]
              /\ spoilt' = (spoilt \ Told(p)) \cup Overtaking("report", i)
    /\ UNCHANGED <<actor, bound, lastSent, hasSent, shown, walks, calm>>

\* PACKET_S_MOVE on the mover's client: OnMoveResponse puts the actor where the server
\* has it, if it is bound by then.
HearConfirmed ==
    /\ \E i \in Arriving("echo") :
          /\ actor' = IF bound THEN leg["echo"][i] ELSE actor
          /\ leg' = [leg EXCEPT !["echo"] = Without(@, i)]
          /\ spoilt' = spoilt \cup Overtaking("echo", i)
    /\ UNCHANGED <<bound, lastSent, hasSent, server, shown, walks, calm>>

\* PACKET_S_MOVE on another client: MoveEntity.
Observe ==
    /\ \E i \in Arriving("relay") :
          /\ shown' = leg["relay"][i]
          /\ leg' = [leg EXCEPT !["relay"] = Without(@, i)]
          /\ spoilt' = spoilt \cup Overtaking("relay", i)
    /\ UNCHANGED <<actor, bound, lastSent, hasSent, server, walks, calm>>

Next ==
    \/ \E p \in Positions : Walk(p)
    \/ \E l \in Legs : Lose(l)
    \/ StartMoveTimer \/ MoveTick \/ ServerMoves \/ HearConfirmed \/ Observe
    \/ NetworkCalms

\* The poll and the move timer repeat, and the queues of the sockets are read.
Spec ==
    /\ Init
    /\ [][Next]_vars
    /\ WF_vars(StartMoveTimer) /\ WF_vars(MoveTick)
    /\ WF_vars(ServerMoves) /\ WF_vars(HearConfirmed) /\ WF_vars(Observe)

-----------------------------------------------------------------------------
(* Properties                                                              *)

\* Every variable has the type the code gives it, and nothing was sent as long as
\* bHasSentValidPosition says so.
TypeOK ==
    /\ {actor, server, shown, lastSent} \subseteq Positions
    /\ {bound, hasSent, calm} \subseteq BOOLEAN
    /\ leg \in [Legs -> Seq(Positions)]
    /\ \A l \in Legs : Len(leg[l]) <= Window
    /\ walks \in 0 .. MaxWalks
    /\ spoilt \subseteq Legs
    /\ ~hasSent => lastSent = Origin /\ leg["report"] = <<>>

\* Nothing is under way on the legs from the mover to the observer, and the move timer
\* has nothing to report.
AtRest == hasSent /\ actor = lastSent /\ leg["report"] = <<>> /\ leg["relay"] = <<>>

\* When the mover stands still after a report, and neither the last report nor the last
\* broadcast was lost or overtaken, the three have the same position, whatever was
\* lost before and however often the echo has thrown the actor back.
RestMeansAgreement ==
    AtRest /\ spoilt \cap {"report", "relay"} = {} => actor = server /\ shown = server

\* On a calm network the echoes stop once the player does.
ComesToRest ==
    calm /\ walks = MaxWalks
        ~> bound /\ ~WorthSending /\ \A l \in Legs : leg[l] = <<>>

\* A report on a calm network makes the observer agree with the server, also after
\* losses that had them differ.
ReportHeals ==
    calm /\ leg["report"] # <<>>
        ~> leg["report"] = <<>> /\ leg["relay"] = <<>> /\ shown = server
=============================================================================
