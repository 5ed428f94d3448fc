-------------------------- MODULE ClientConnection --------------------------
(***************************************************************************)
(* The Unreal client's connection to the auth server and then to a game    *)
(* server (MMOClient.cpp): its state, the two UDP sockets, their heartbeat *)
(* timers and the retry counter, driven by four things on the game thread: *)
(* the receive timer, which handles every datagram that has arrived, the   *)
(* heartbeat timers, TickSockets once a second, and calls from Blueprint.  *)
(*                                                                         *)
(* A socket that is closed and opened again has another port, so datagrams *)
(* to and from the old one are gone.  The host addresses parse, the engine *)
(* has a world, and an open UDP socket reports SCS_Connected.              *)
(* The chat socket is left out: no address is ever given to it, and it     *)
(* shares nothing with the others.  So are the packets that only pass data *)
(* on, from Blueprint too.  Blueprint calls between two handlers and names *)
(* the same two servers; what it might call from a delegate that a handler *)
(* broadcasts is left out.                                                 *)
(***************************************************************************)
EXTENDS Integers

CONSTANTS
    Timeout,    \* HEARTBEAT_TIMEOUT, in seconds
    Interval,   \* HEARTBEAT_INTERVAL, in seconds
    MaxRetries, \* the 5 TickSockets compares gameRetryCount with
    Faults      \* what may happen beyond the ordinary

FaultKinds ==
    { "dup",        \* a datagram arrives again
      "late",       \* an answer takes more than a second, or never comes
      "refuse",     \* the game server refuses a connect request
      "game_down",  \* the game server dies for good
      "blueprint" } \* anything that is BlueprintCallable is called at any time

ASSUME ClientConnectionAssumption ==
    /\ Timeout \in Nat /\ Interval \in Nat \ {0} /\ MaxRetries \in Nat
    /\ Faults \subseteq FaultKinds

Servers == {"Auth", "Game"}
States == {"DISCONNECTED", "CONNECTING_AUTH", "AUTH", "CONNECTING_GAME", "GAME"}
Requests == {"connect", "heartbeat", "select"}
Replies == {"heartbeat", "select_ok", "connect_ok", "connect_fail"}

VARIABLES
    client, \* the members of UMMOClient
    batch,  \* datagrams that OnReceive has read and not yet handled
    up,     \* whether a server runs
    prompt  \* whether the environment is prompt, for good: nothing is lost, no answer
            \* takes more than a second, and Blueprint only selects characters in AUTH

vars == <<client, batch, up, prompt>>

May(fault) == fault \in Faults /\ (prompt => fault \in {"dup", "refuse", "game_down"})


\* open, out, in: a socket and the datagrams to and from it; oldOut, oldIn: those of
\* them that were under way, or were asked for, before the last second began;
\* beating, due: its heartbeat timer and the seconds until it fires; age: seconds
\* since LastReceivedTimestamp.  hostKnown: LastGameHost is set.  ticking: the timer
\* of TickSockets runs.  fresh and cut are history: whether the game socket was opened
\* after the last second began, and whether Blueprint has closed a socket or set the
\* state since the client last connected.  Seconds stop at Timeout + 1.
Client ==
    [ state : States, retries : 0 .. MaxRetries, hostKnown : BOOLEAN, ticking : BOOLEAN,
      open : [Servers -> BOOLEAN],
      out : [Servers -> SUBSET Requests], in : [Servers -> SUBSET Replies],
      oldOut : [Servers -> SUBSET Requests], oldIn : [Servers -> SUBSET Replies],
      beating : [Servers -> BOOLEAN], due : [Servers -> 0 .. Interval],
      age : [Servers -> 0 .. Timeout + 1],
      fresh : BOOLEAN, cut : BOOLEAN ]

-----------------------------------------------------------------------------
(* What the handlers are made of                                           *)

SetClientState(c, st) == [c EXCEPT !.state = st]

\* Close and Reset of a socket.
Closed(c, s) ==
    [c EXCEPT !.open[s] = FALSE, !.out[s] = {}, !.in[s] = {}, !.oldOut[s] = {}, !.oldIn[s] = {}]

StopHeartbeat(c, s) == [c EXCEPT !.beating[s] = FALSE, !.due[s] = 0]

\* Mutant: the time of the last answer is not set.
StartHeartbeatStale(c, s) == [c EXCEPT !.beating[s] = TRUE, !.due[s] = Interval]
StartHeartbeat(c, s) ==
    [c EXCEPT !.beating[s] = TRUE, !.due[s] = Interval, !.age[s] = 0]

\* DisconnectAuth, DisconnectGame.
\* Mutant: the heartbeat timer goes on.
DisconnectBeating(c, s) == IF c.open[s] THEN Closed(c, s) ELSE c
Disconnect(c, s) ==
    IF c.open[s] THEN StopHeartbeat(Closed(c, s), s) ELSE c

\* SendToAuth, SendToGame.
Send(c, s, r) == IF c.open[s] THEN [c EXCEPT !.out[s] = @ \cup {r}] ELSE c

Opened(c, s) == [c EXCEPT !.open[s] = TRUE]

ConnectAuth(c) ==
    LET opened == [Opened(c, "Auth") EXCEPT !.ticking = TRUE, !.cut = FALSE]
    IN  Send(Disconnect(SetClientState(opened, "CONNECTING_AUTH"), "Game"),
             "Auth", "connect")

\* ConnectGame up to its call of DisconnectAuth.
GameOpened(c) ==
    [Opened(c, "Game") EXCEPT
        !.hostKnown = TRUE, !.cut = FALSE, !.fresh = @ \/ ~c.open["Game"]]

\* Mutant: the auth socket stays open.
ConnectGameKeepingAuth(c) == Send(SetClientState(GameOpened(c), "GAME"), "Game", "connect")
\* Mutant: every connection has all its retries.
ConnectGameRetrying(c) ==
    Send(SetClientState(Disconnect([GameOpened(c) EXCEPT !.retries = 0], "Auth"), "GAME"),
         "Game", "connect")
\* CONNECTING_GAME is set and replaced before anything else can run.
ConnectGame(c) ==
    Send(SetClientState(Disconnect(GameOpened(c), "Auth"), "GAME"), "Game", "connect")

\* CheckHeartbeatTimeout.
\* Mutant: the state is left as it is.
CheckTimeoutSilently(c, s) ==
    IF c.age[s] > Timeout THEN StopHeartbeat(Closed(c, s), s) ELSE c
CheckTimeout(c, s) ==
    IF c.age[s] > Timeout
    THEN SetClientState(StopHeartbeat(Closed(c, s), s),
                        IF s = "Auth" THEN "CONNECTING_AUTH" ELSE "CONNECTING_GAME")
    ELSE c

-----------------------------------------------------------------------------
\* Init of UMMOGameInstance: the first ConnectAuth.  LastReceivedTimestamp is 0,
\* in 1970.
Init ==
    /\ client = ConnectAuth(
          [ state |-> "DISCONNECTED", retries |-> 0, hostKnown |-> FALSE, ticking |-> FALSE,
            open |-> [s \in Servers |-> FALSE],
            out |-> [s \in Servers |-> {}], in |-> [s \in Servers |-> {}],
            oldOut |-> [s \in Servers |-> {}], oldIn |-> [s \in Servers |-> {}],
            beating |-> [s \in Servers |-> FALSE], due |-> [s \in Servers |-> 0],
            age |-> [s \in Servers |-> Timeout + 1],
            fresh |-> FALSE, cut |-> FALSE ])
    /\ batch = [s \in Servers |-> {}]
    /\ up = [s \in Servers |-> TRUE]
    /\ prompt \in BOOLEAN

\* The game thread is between two handlers.
Idle == \A s \in Servers : batch[s] = {}

-----------------------------------------------------------------------------
(* Datagrams that arrive                                                   *)

\* OnReceive: everything that is pending is read, and then handled.
Receive(s) ==
    /\ Idle
    /\ client.open[s] /\ client.in[s] # {}
    /\ batch' = [batch EXCEPT ![s] = client.in[s]]
    /\ client' = [client EXCEPT !.in[s] = {}, !.oldIn[s] = {}]
    /\ UNCHANGED <<up, prompt>>

\* HandleAuthPacket.
AfterAuthPacket(c, p) ==
    CASE p = "select_ok" -> ConnectGame(c)
      [] p = "heartbeat" ->
            LET heard == [c EXCEPT !.age["Auth"] = 0]
            IN  IF c.state = "CONNECTING_AUTH"
                THEN StartHeartbeat(SetClientState(heard, "AUTH"), "Auth")
                ELSE heard

\* HandleGamePacket.
AfterGamePacket(c, p) ==
    CASE p = "connect_ok" ->
            IF c.state = "GAME" THEN StartHeartbeat(c, "Game") ELSE c
      [] p = "connect_fail" -> SetClientState(c, "CONNECTING_AUTH")
      [] p = "heartbeat" ->
            LET heard == [c EXCEPT !.age["Game"] = 0]
            IN  IF c.state = "CONNECTING_GAME"
                THEN Send(StartHeartbeat(SetClientState(heard, "GAME"), "Game"),
                          "Game", "connect")
                ELSE heard

\* The packets of a batch are handled even if one of them closed the socket.
HandlePacket(s) ==
    \E p \in batch[s] :
        /\ client' = IF s = "Auth" THEN AfterAuthPacket(client, p)
                     ELSE AfterGamePacket(client, p)
        /\ batch' = [batch EXCEPT ![s] = @ \ {p}]
        /\ UNCHANGED <<up, prompt>>

-----------------------------------------------------------------------------
(* Timers                                                                  *)

\* The heartbeat timer of a socket.
SendHeartbeat(s) ==
    /\ Idle
    /\ client.beating[s] /\ client.due[s] = 0
    /\ LET again == [client EXCEPT !.due[s] = Interval]
       IN  client' = IF client.open[s]
                     THEN CheckTimeout(Send(again, s, "heartbeat"), s) ELSE again
    /\ UNCHANGED <<batch, up, prompt>>

\* Mutant: one try too many.
MayRetryOnceMore(c) == c.retries <= MaxRetries
MayRetry(c) == c.retries < MaxRetries

TickSockets(c) ==
    CASE c.state = "CONNECTING_AUTH" ->
            IF c.open["Auth"] THEN c ELSE ConnectAuth(Disconnect(c, "Game"))
      [] c.state = "AUTH" -> CheckTimeout(c, "Auth")
      [] c.state = "CONNECTING_GAME" ->
            IF MayRetry(c)
            THEN LET counted == [c EXCEPT !.retries = @ + 1]
                 IN  IF ~c.open["Game"] /\ c.hostKnown THEN ConnectGame(counted) ELSE counted
            ELSE SetClientState([c EXCEPT !.retries = 0], "CONNECTING_AUTH")
      [] c.state = "GAME" -> CheckTimeout(c, "Game")
      [] c.state = "DISCONNECTED" -> c

Later(seconds) == IF seconds <= Timeout THEN seconds + 1 ELSE seconds

\* What a second does to the client.
Aged(c) ==
    [c EXCEPT
        !.age = [s \in Servers |-> Later(c.age[s])],
        !.due = [s \in Servers |-> IF c.beating[s] THEN c.due[s] - 1 ELSE c.due[s]],
        !.fresh = FALSE,
        !.oldOut = IF May("late") THEN @ ELSE c.out,
        !.oldIn = IF May("late") THEN @ ELSE c.in]

\* A second passes, and TickSockets runs at the end of it.  No heartbeat is overdue.
\* The timers are not in phase with anything: datagrams are under way, but unless
\* answers are late none that was under way a second ago.
Tick ==
    /\ Idle
    /\ \A s \in Servers :
        /\ client.beating[s] => client.due[s] > 0
        /\ ~May("late") => client.oldOut[s] = {} /\ client.oldIn[s] = {}
    /\ client' = IF client.ticking THEN TickSockets(Aged(client)) ELSE Aged(client)
    /\ UNCHANGED <<batch, up, prompt>>

-----------------------------------------------------------------------------
(* Calls from Blueprint                                                    *)

\* SelectCharacter: the packet is only sent if the auth socket is open.
SelectCharacter ==
    /\ Idle
    /\ client.state = "AUTH" \/ May("blueprint")
    /\ client' = Send(client, "Auth", "select")
    /\ UNCHANGED <<batch, up, prompt>>

Called(after) ==
    /\ May("blueprint")
    /\ Idle
    /\ client' = after
    /\ UNCHANGED <<batch, up, prompt>>

CallConnectAuth == Called(ConnectAuth(client))
CallConnectGame == Called(ConnectGame(client))

\* What closes a socket leaves the state as it is, and so does the reverse.
CallDisconnect(s) == Called([Disconnect(client, s) EXCEPT !.cut = TRUE])
CallSetClientState(st) == Called([SetClientState(client, st) EXCEPT !.cut = TRUE])

Stopped(c) == StopHeartbeat(StopHeartbeat(c, "Auth"), "Game")
AllClosed(c) == Closed(Closed(Stopped(c), "Auth"), "Game")
DisconnectAll == Called([AllClosed(client) EXCEPT !.cut = TRUE])

\* DisconnectAll, and TickSockets runs no more until the next ConnectAuth.
Shutdown == Called([AllClosed(client) EXCEPT !.cut = TRUE, !.ticking = FALSE])

-----------------------------------------------------------------------------
(* The servers and the network                                             *)

AnswersTo(s, r) ==
    CASE r = "heartbeat" -> {"heartbeat"}
      [] r = "connect" /\ s = "Auth" -> {"heartbeat"}
      [] r = "connect" /\ s = "Game" ->
            {"connect_ok"} \cup (IF May("refuse") THEN {"connect_fail"} ELSE {})
      [] r = "select" -> {"select_ok"}

\* A server answers; a datagram that is duplicated stays under way.
Answer(s) ==
    \E r \in client.out[s] : \E p \in AnswersTo(s, r) :
        /\ up[s]
        /\ \E rest \in {client.out[s] \ {r}} \cup
                       (IF May("dup") THEN {client.out[s]} ELSE {}) :
              client' = [client EXCEPT
                  !.out[s] = rest, !.oldOut[s] = @ \cap rest,
                  !.in[s] = @ \cup {p},
                  !.oldIn[s] = IF r \in client.oldOut[s] THEN @ \cup {p} ELSE @]
        /\ UNCHANGED <<batch, up, prompt>>

\* A datagram to a dead server is lost.  (One to a server that runs, or from it, that
\* is lost is one that is late for ever.)
Lose(s) ==
    /\ ~up[s]
    /\ \E r \in client.out[s] :
          client' = [client EXCEPT !.out[s] = @ \ {r}, !.oldOut[s] = @ \ {r}]
    /\ UNCHANGED <<batch, up, prompt>>

GameServerDies ==
    /\ May("game_down")
    /\ up["Game"]
    /\ up' = [up EXCEPT !["Game"] = FALSE]
    /\ UNCHANGED <<client, batch, prompt>>

-----------------------------------------------------------------------------
Timers == Tick \/ \E s \in Servers : SendHeartbeat(s)
Arrivals == \E s \in Servers : Receive(s) \/ HandlePacket(s)
Calls ==
    \/ CallConnectAuth
    \/ CallConnectGame
    \/ \E s \in Servers : CallDisconnect(s)
    \/ \E st \in States : CallSetClientState(st)
    \/ DisconnectAll
    \/ Shutdown

Next ==
    \/ Timers
    \/ Arrivals
    \/ SelectCharacter
    \/ Calls
    \/ \E s \in Servers : Answer(s) \/ Lose(s)
    \/ GameServerDies

Spec == Init /\ [][Next]_vars

\* The engine's timers go on firing, and the network delivers some of what is
\* sent again and again; datagrams to a dead server do not stay under way.  There is
\* one socket at a time, so that it need not be said which.
FairSpec ==
    /\ Spec
    /\ WF_vars(Timers)
    /\ WF_vars(\E s \in Servers : HandlePacket(s))
    /\ SF_vars(\E s \in Servers : Receive(s))
    /\ SF_vars(\E s \in Servers : Answer(s))
    /\ WF_vars(\E s \in Servers : Lose(s))

-----------------------------------------------------------------------------
(* Properties                                                              *)

\* Every variable has the type the code gives it.
TypeOK ==
    /\ client \in Client
    /\ batch \in [Servers -> SUBSET Replies]
    /\ up \in [Servers -> BOOLEAN]
    /\ prompt \in BOOLEAN

\* The client never has sockets to both servers open, whatever packets of a
\* batch are handled after the one that closed their socket.
OneServerAtATime == ~(client.open["Auth"] /\ client.open["Game"])

\* A heartbeat timer only runs on an open socket; it is started by packets and
\* stopped in five places.
BeatsOnOpenSocket == \A s \in Servers : client.beating[s] => client.open[s]

\* The state tells which socket is open: between two handlers a client that is
\* in the game, or in AUTH with its heartbeat, can be heard by that server, and one
\* that retries has no socket, unless Blueprint has closed a socket or set the state
\* since the client last connected.
StateMatchesSockets ==
    ~client.cut =>
    /\ client.state = "AUTH" => client.open["Auth"] /\ client.beating["Auth"]
    /\ client.state = "GAME" => client.open["Game"]
    /\ client.state = "CONNECTING_GAME" => ~client.open["Auth"] /\ ~client.open["Game"]

\* Once a server has answered the connection, and goes on answering within a second of
\* each request, wherever TickSockets falls in it, the client never gives it up: the
\* interval, the timeout and the moments the timestamp is set fit together.
PromptServerKept ==
    [][prompt =>
        /\ client.beating["Game"] /\ client'.state = "CONNECTING_GAME" => ~up'["Game"]
        /\ client.state = "AUTH" => client'.state # "CONNECTING_AUTH"]_vars

\* A client whose game server died gets back to the auth server, if that is prompt:
\* TickSockets does not retry for ever.
BackToAuth ==
    prompt /\ client.state \in {"GAME", "CONNECTING_GAME"} /\ ~up["Game"] ~> client.state = "AUTH"

\* "if (Now - State.LastReceivedTimestamp > HEARTBEAT_TIMEOUT)" (MMOClient.cpp:997):
\* a game connection is given up after more than HEARTBEAT_TIMEOUT seconds without an
\* answer, so never in the second in which its socket was opened.
TimeoutAfterSilence ==
    [][client.state = "GAME" /\ client'.state = "CONNECTING_GAME" => ~client.fresh]_vars
=============================================================================
