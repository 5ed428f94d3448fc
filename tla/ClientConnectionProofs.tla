----------------------- MODULE ClientConnectionProofs -----------------------
(***************************************************************************)
(* For any interval, timeout, number of retries and faults: the client's   *)
(* sockets, timers and state stay consistent, and, if the interval is      *)
(* shorter than the timeout, a prompt server that has answered the         *)
(* connection is never given up.                                           *)
(*                                                                         *)
(* What makes the first inductive is that the batch of datagrams being     *)
(* handled is known to belong to an open socket, or to an auth socket that *)
(* a packet of the same batch has closed by starting the game connection.  *)
(* The second needs to know, at every moment, where the next sign of life  *)
(* of a server is: in the timer, on its way there, on its way back, or in  *)
(* the batch; and, once it has been on its way for more than a second's    *)
(* end, that it comes before the next one.                                 *)
(***************************************************************************)
EXTENDS ClientConnection, TLAPS

-----------------------------------------------------------------------------
(* What each operator does to the fields of a client                       *)

\* The same datagrams are under way.
SameWay(c, d, t) ==
    /\ d.out[t] = c.out[t] /\ d.in[t] = c.in[t]
    /\ d.oldOut[t] = c.oldOut[t] /\ d.oldIn[t] = c.oldIn[t]

SameWays(c, d) ==
    d.out = c.out /\ d.in = c.in /\ d.oldOut = c.oldOut /\ d.oldIn = c.oldIn

\* Nothing is under way.
Emptied(d, t) == d.out[t] = {} /\ d.in[t] = {} /\ d.oldOut[t] = {} /\ d.oldIn[t] = {}

\* Another request is.
Sent(c, d, t, r) ==
    /\ d.out[t] = c.out[t] \cup {r} /\ d.in[t] = c.in[t]
    /\ d.oldOut[t] = c.oldOut[t] /\ d.oldIn[t] = c.oldIn[t]

\* c and d agree on everything about server t.
SameAt(c, d, t) ==
    /\ SameWay(c, d, t)
    /\ d.open[t] = c.open[t] /\ d.beating[t] = c.beating[t]
    /\ d.due[t] = c.due[t] /\ d.age[t] = c.age[t]

\* c and d agree on everything that is not about one server.
SameRest(c, d) ==
    d.retries = c.retries /\ d.fresh = c.fresh /\ d.cut = c.cut

LEMMA SetClientStateFields ==
    ASSUME NEW c \in Client, NEW st \in States
    PROVE  LET d == SetClientState(c, st)
           IN  /\ d \in Client /\ SameRest(c, d) /\ d.state = st
               /\ \A t \in Servers : SameAt(c, d, t)
               /\ SameWays(c, d) /\ d.open = c.open /\ d.beating = c.beating
               /\ d.due = c.due /\ d.age = c.age
BY DEF SetClientState, Client, SameAt, SameRest, SameWay, SameWays

LEMMA StopHeartbeatFields ==
    ASSUME NEW c \in Client, NEW s \in Servers
    PROVE  LET d == StopHeartbeat(c, s)
           IN  /\ d \in Client /\ SameRest(c, d) /\ d.state = c.state
               /\ \A t \in Servers \ {s} : SameAt(c, d, t)
               /\ SameWays(c, d) /\ d.open = c.open
               /\ ~d.beating[s] /\ d.age = c.age
<1>1. 0 \in 0 .. Interval
  BY ClientConnectionAssumption
<1> QED
  BY <1>1 DEF StopHeartbeat, Client, SameAt, SameRest, SameWay, SameWays

LEMMA ClosedFields ==
    ASSUME NEW c \in Client, NEW s \in Servers
    PROVE  LET d == Closed(c, s)
           IN  /\ d \in Client /\ SameRest(c, d) /\ d.state = c.state
               /\ \A t \in Servers \ {s} : SameAt(c, d, t)
               /\ ~d.open[s] /\ Emptied(d, s)
               /\ d.beating = c.beating /\ d.due = c.due /\ d.age = c.age
BY DEF Closed, Client, SameAt, SameRest, SameWay, Emptied

LEMMA StartHeartbeatFields ==
    ASSUME NEW c \in Client, NEW s \in Servers
    PROVE  LET d == StartHeartbeat(c, s)
           IN  /\ d \in Client /\ SameRest(c, d) /\ d.state = c.state
               /\ \A t \in Servers \ {s} : SameAt(c, d, t)
               /\ SameWays(c, d) /\ d.open = c.open
               /\ d.beating[s] /\ d.due[s] = Interval /\ d.age[s] = 0
<1>1. Interval \in 0 .. Interval /\ 0 \in 0 .. Timeout + 1
  BY ClientConnectionAssumption
<1>2. [c.beating EXCEPT ![s] = TRUE] \in [Servers -> BOOLEAN]
  BY DEF Client
<1>3. /\ [c.due EXCEPT ![s] = Interval] \in [Servers -> 0 .. Interval]
      /\ [c.age EXCEPT ![s] = 0] \in [Servers -> 0 .. Timeout + 1]
  BY <1>1 DEF Client
<1> QED
  BY <1>2, <1>3 DEF StartHeartbeat, Client, SameAt, SameRest, SameWay, SameWays

LEMMA SendFields ==
    ASSUME NEW c \in Client, NEW s \in Servers, NEW r \in Requests
    PROVE  LET d == Send(c, s, r)
           IN  /\ d \in Client /\ SameRest(c, d) /\ d.state = c.state
               /\ \A t \in Servers \ {s} : SameAt(c, d, t)
               /\ d.open = c.open /\ d.beating = c.beating
               /\ d.due = c.due /\ d.age = c.age
               /\ d.in = c.in /\ d.oldOut = c.oldOut /\ d.oldIn = c.oldIn
               /\ c.open[s] => Sent(c, d, s, r)
               /\ ~c.open[s] => d = c
<1>1. CASE c.open[s]
  BY <1>1 DEF Send, Client, SameAt, SameRest, SameWay, Sent
<1>2. CASE ~c.open[s]
  BY <1>2 DEF Send, SameAt, SameRest, SameWay
<1> QED
  BY <1>1, <1>2

LEMMA DisconnectFields ==
    ASSUME NEW c \in Client, NEW s \in Servers
    PROVE  LET d == Disconnect(c, s)
           IN  /\ d \in Client /\ SameRest(c, d) /\ d.state = c.state
               /\ \A t \in Servers \ {s} : SameAt(c, d, t)
               /\ ~d.open[s] /\ d.age = c.age
               /\ SameWay(c, d, s) \/ Emptied(d, s)
               /\ d.beating[s] => c.beating[s] /\ ~c.open[s]
<1>1. CASE c.open[s]
  <2> DEFINE c1 == Closed(c, s)
             d == StopHeartbeat(c1, s)
  <2>1. /\ c1 \in Client /\ SameRest(c, c1) /\ c1.state = c.state
        /\ \A t \in Servers \ {s} : SameAt(c, c1, t)
        /\ ~c1.open[s] /\ Emptied(c1, s) /\ c1.age = c.age
    BY ClosedFields
  <2> HIDE DEF c1
  <2>2. /\ d \in Client /\ SameRest(c1, d) /\ d.state = c1.state
        /\ \A t \in Servers \ {s} : SameAt(c1, d, t)
        /\ SameWays(c1, d) /\ d.open = c1.open /\ ~d.beating[s] /\ d.age = c1.age
    BY <2>1, StopHeartbeatFields
  <2>3. Disconnect(c, s) = d
    BY <1>1 DEF Disconnect, c1
  <2> HIDE DEF d
  <2>4. Emptied(d, s)
    BY <2>1, <2>2 DEF Emptied, SameWays
  <2>5. \A t \in Servers \ {s} : SameAt(c, d, t)
    BY <2>1, <2>2 DEF SameAt, SameWay
  <2> QED
    BY <2>1, <2>2, <2>3, <2>4, <2>5 DEF SameRest
<1>2. CASE ~c.open[s]
  BY <1>2 DEF Disconnect, SameAt, SameRest, SameWay
<1> QED
  BY <1>1, <1>2

LEMMA OpenedFields ==
    ASSUME NEW c \in Client, NEW s \in Servers
    PROVE  LET d == Opened(c, s)
           IN  /\ d \in Client /\ SameRest(c, d) /\ d.state = c.state
               /\ \A t \in Servers \ {s} : SameAt(c, d, t)
               /\ d.open[s] /\ SameWays(c, d)
               /\ d.beating = c.beating /\ d.due = c.due /\ d.age = c.age
BY DEF Opened, Client, SameAt, SameRest, SameWay, SameWays

LEMMA ConnectAuthFields ==
    ASSUME NEW c \in Client
    PROVE  LET d == ConnectAuth(c)
           IN  /\ d \in Client /\ d.state = "CONNECTING_AUTH" /\ ~d.cut
               /\ d.open["Auth"] /\ ~d.open["Game"]
               /\ d.age = c.age /\ d.due["Auth"] = c.due["Auth"]
               /\ d.beating["Auth"] = c.beating["Auth"]
               /\ d.beating["Game"] => c.beating["Game"] /\ ~c.open["Game"]
               /\ Sent(c, d, "Auth", "connect")
               /\ SameWay(c, d, "Game") \/ Emptied(d, "Game")
<1> DEFINE c0 == Opened(c, "Auth")
           c1 == [c0 EXCEPT !.ticking = TRUE, !.cut = FALSE]
           c2 == SetClientState(c1, "CONNECTING_AUTH")
           c3 == Disconnect(c2, "Game")
           d == Send(c3, "Auth", "connect")
<1>0. /\ "Auth" \in Servers /\ "Game" \in Servers
      /\ "Game" \in Servers \ {"Auth"} /\ "Auth" \in Servers \ {"Game"}
      /\ "CONNECTING_AUTH" \in States /\ "connect" \in Requests
  BY DEF Servers, States, Requests
<1>1. /\ c1 \in Client /\ ~c1.cut
      /\ c1.open["Auth"] /\ c1.open["Game"] = c.open["Game"]
      /\ SameWays(c, c1)
      /\ c1.beating = c.beating /\ c1.due = c.due /\ c1.age = c.age
  <2>1. /\ c0 \in Client /\ c0.open["Auth"] /\ SameAt(c, c0, "Game") /\ SameWays(c, c0)
        /\ c0.beating = c.beating /\ c0.due = c.due /\ c0.age = c.age
    BY <1>0, OpenedFields
  <2> HIDE DEF c0
  <2>2. /\ c1 \in Client /\ ~c1.cut /\ c1.open = c0.open /\ SameWays(c0, c1)
        /\ c1.beating = c0.beating /\ c1.due = c0.due /\ c1.age = c0.age
    BY <2>1 DEF Client, SameWays
  <2> HIDE DEF c1
  <2> QED
    BY <2>1, <2>2 DEF SameAt, SameWays
<1>9. ConnectAuth(c) = d
  BY DEF ConnectAuth, d, c3, c2, c1, c0
<1> HIDE DEF c1, c0
<1>2. /\ c2 \in Client /\ c2.state = "CONNECTING_AUTH" /\ ~c2.cut
      /\ SameWays(c1, c2) /\ c2.open = c1.open
      /\ c2.beating = c1.beating /\ c2.due = c1.due /\ c2.age = c1.age
  BY <1>0, <1>1, SetClientStateFields DEF SameRest
<1> HIDE DEF c2
<1>3. /\ c3 \in Client /\ c3.state = "CONNECTING_AUTH" /\ ~c3.cut
      /\ SameAt(c2, c3, "Auth") /\ ~c3.open["Game"] /\ c3.age = c2.age
      /\ SameWay(c2, c3, "Game") \/ Emptied(c3, "Game")
      /\ c3.beating["Game"] => c2.beating["Game"] /\ ~c2.open["Game"]
  BY <1>0, <1>2, DisconnectFields DEF SameRest
<1> HIDE DEF c3
<1>4. c3.open["Auth"]
  BY <1>1, <1>2, <1>3 DEF SameAt
<1>5. /\ d \in Client /\ d.state = c3.state /\ d.cut = c3.cut
      /\ SameAt(c3, d, "Game") /\ Sent(c3, d, "Auth", "connect")
      /\ d.open = c3.open /\ d.beating = c3.beating
      /\ d.due = c3.due /\ d.age = c3.age
  BY <1>0, <1>3, <1>4, SendFields DEF SameRest
<1> HIDE DEF d
<1>6. Sent(c, d, "Auth", "connect")
  BY <1>1, <1>2, <1>3, <1>5 DEF Sent, SameAt, SameWay, SameWays
<1>7. SameWay(c, d, "Game") \/ Emptied(d, "Game")
  BY <1>1, <1>2, <1>3, <1>5 DEF SameAt, SameWay, SameWays, Emptied
<1>8. /\ d.age = c.age /\ d.due["Auth"] = c.due["Auth"]
      /\ d.beating["Auth"] = c.beating["Auth"]
      /\ d.beating["Game"] => c.beating["Game"] /\ ~c.open["Game"]
  BY <1>1, <1>2, <1>3, <1>5 DEF SameAt
<1> QED
  BY <1>3, <1>4, <1>5, <1>6, <1>7, <1>8, <1>9

LEMMA ConnectGameFields ==
    ASSUME NEW c \in Client
    PROVE  LET d == ConnectGame(c)
           IN  /\ d \in Client /\ d.state = "GAME" /\ ~d.cut
               /\ d.open["Game"] /\ ~d.open["Auth"]
               /\ d.age = c.age /\ d.due["Game"] = c.due["Game"]
               /\ d.beating["Game"] = c.beating["Game"]
               /\ d.beating["Auth"] => c.beating["Auth"] /\ ~c.open["Auth"]
               /\ Sent(c, d, "Game", "connect")
               /\ SameWay(c, d, "Auth") \/ Emptied(d, "Auth")
<1> DEFINE c0 == Opened(c, "Game")
           c1 == GameOpened(c)
           c2 == Disconnect(c1, "Auth")
           c3 == SetClientState(c2, "GAME")
           d == Send(c3, "Game", "connect")
<1>0. /\ "Auth" \in Servers /\ "Game" \in Servers
      /\ "Game" \in Servers \ {"Auth"} /\ "Auth" \in Servers \ {"Game"}
      /\ "GAME" \in States /\ "connect" \in Requests
  BY DEF Servers, States, Requests
<1>1. /\ c1 \in Client /\ ~c1.cut
      /\ c1.open["Game"] /\ c1.open["Auth"] = c.open["Auth"]
      /\ SameWays(c, c1)
      /\ c1.beating = c.beating /\ c1.due = c.due /\ c1.age = c.age
  <2>1. /\ c0 \in Client /\ c0.open["Game"] /\ SameAt(c, c0, "Auth") /\ SameWays(c, c0)
        /\ c0.beating = c.beating /\ c0.due = c.due /\ c0.age = c.age
    BY <1>0, OpenedFields
  <2>2. c1 = [c0 EXCEPT !.hostKnown = TRUE, !.cut = FALSE,
                        !.fresh = @ \/ ~c.open["Game"]]
    BY DEF GameOpened, c0, c1
  <2> HIDE DEF c0, c1
  <2>3. (c0.fresh \/ ~c.open["Game"]) \in BOOLEAN
    OBVIOUS
  <2>4. /\ c1 \in Client /\ ~c1.cut /\ c1.open = c0.open /\ SameWays(c0, c1)
        /\ c1.beating = c0.beating /\ c1.due = c0.due /\ c1.age = c0.age
    BY <2>1, <2>2, <2>3 DEF Client, SameWays
  <2> QED
    BY <2>1, <2>4 DEF SameAt, SameWays
<1>9. ConnectGame(c) = d
  BY DEF ConnectGame, d, c3, c2, c1
<1> HIDE DEF c1, c0
<1>2. /\ c2 \in Client /\ ~c2.cut
      /\ SameAt(c1, c2, "Game") /\ ~c2.open["Auth"] /\ c2.age = c1.age
      /\ SameWay(c1, c2, "Auth") \/ Emptied(c2, "Auth")
      /\ c2.beating["Auth"] => c1.beating["Auth"] /\ ~c1.open["Auth"]
  BY <1>0, <1>1, DisconnectFields DEF SameRest
<1> HIDE DEF c2
<1>3. /\ c3 \in Client /\ c3.state = "GAME" /\ ~c3.cut
      /\ SameWays(c2, c3) /\ c3.open = c2.open
      /\ c3.beating = c2.beating /\ c3.due = c2.due /\ c3.age = c2.age
  BY <1>0, <1>2, SetClientStateFields DEF SameRest
<1> HIDE DEF c3
<1>4. c3.open["Game"]
  BY <1>1, <1>2, <1>3 DEF SameAt
<1>5. /\ d \in Client /\ d.state = c3.state /\ d.cut = c3.cut
      /\ SameAt(c3, d, "Auth") /\ Sent(c3, d, "Game", "connect")
      /\ d.open = c3.open /\ d.beating = c3.beating
      /\ d.due = c3.due /\ d.age = c3.age
  BY <1>0, <1>3, <1>4, SendFields DEF SameRest
<1> HIDE DEF d
<1>6. Sent(c, d, "Game", "connect")
  BY <1>1, <1>2, <1>3, <1>5 DEF Sent, SameAt, SameWay, SameWays
<1>7. SameWay(c, d, "Auth") \/ Emptied(d, "Auth")
  BY <1>1, <1>2, <1>3, <1>5 DEF SameAt, SameWay, SameWays, Emptied
<1>8. /\ d.age = c.age /\ d.due["Game"] = c.due["Game"]
      /\ d.beating["Game"] = c.beating["Game"]
      /\ d.beating["Auth"] => c.beating["Auth"] /\ ~c.open["Auth"]
  BY <1>1, <1>2, <1>3, <1>5 DEF SameAt
<1> QED
  BY <1>2, <1>3, <1>4, <1>5, <1>6, <1>7, <1>8, <1>9

LEMMA CheckTimeoutFields ==
    ASSUME NEW c \in Client, NEW s \in Servers
    PROVE  LET d == CheckTimeout(c, s)
           IN  /\ c.age[s] <= Timeout => d = c
               /\ c.age[s] > Timeout =>
                     /\ d \in Client /\ SameRest(c, d)
                     /\ d.state = IF s = "Auth" THEN "CONNECTING_AUTH" ELSE "CONNECTING_GAME"
                     /\ ~d.open[s] /\ ~d.beating[s] /\ Emptied(d, s)
                     /\ \A t \in Servers \ {s} : SameAt(c, d, t)
<1>0. c.age[s] \in 0 .. Timeout + 1 /\ Timeout \in Nat
  BY ClientConnectionAssumption DEF Client
<1>1. CASE c.age[s] <= Timeout
  BY <1>0, <1>1 DEF CheckTimeout
<1>2. CASE c.age[s] > Timeout
  <2> DEFINE st == IF s = "Auth" THEN "CONNECTING_AUTH" ELSE "CONNECTING_GAME"
             c1 == Closed(c, s)
             c2 == StopHeartbeat(c1, s)
             d == SetClientState(c2, st)
  <2>0. st \in States
    BY DEF States
  <2> HIDE DEF st
  <2>1. /\ c1 \in Client /\ SameRest(c, c1) /\ ~c1.open[s] /\ Emptied(c1, s)
        /\ \A t \in Servers \ {s} : SameAt(c, c1, t)
    BY ClosedFields
  <2> HIDE DEF c1
  <2>2. /\ c2 \in Client /\ SameRest(c1, c2) /\ c2.open = c1.open /\ ~c2.beating[s]
        /\ SameWays(c1, c2)
        /\ \A t \in Servers \ {s} : SameAt(c1, c2, t)
    BY <2>1, StopHeartbeatFields
  <2> HIDE DEF c2
  <2>3. /\ d \in Client /\ SameRest(c2, d) /\ d.state = st
        /\ \A t \in Servers : SameAt(c2, d, t)
    BY <2>0, <2>2, SetClientStateFields
  <2>4. CheckTimeout(c, s) = d
    BY <1>2 DEF CheckTimeout, d, c2, c1, st
  <2> HIDE DEF d
  <2>5. Emptied(d, s)
    BY <2>1, <2>2, <2>3 DEF Emptied, SameWays, SameWay, SameAt
  <2>6. \A t \in Servers \ {s} : SameAt(c, d, t)
    BY <2>1, <2>2, <2>3 DEF SameWay, SameAt
  <2>7. SameRest(c, d) /\ ~d.open[s] /\ ~d.beating[s]
    BY <2>1, <2>2, <2>3 DEF SameRest, SameAt
  <2> QED
    BY <1>0, <1>2, <2>3, <2>4, <2>5, <2>6, <2>7 DEF st
<1> QED
  BY <1>0, <1>1, <1>2


-----------------------------------------------------------------------------
(* The inductive invariant                                                 *)

\* What a client sends to a server, and hears from it.
RequestsTo(s) == IF s = "Game" THEN {"connect", "heartbeat"} ELSE Requests
FromAuth == {"heartbeat", "select_ok"}
FromGame == {"heartbeat", "connect_ok", "connect_fail"}
RepliesFrom(s) == IF s = "Auth" THEN FromAuth ELSE FromGame

Fits(c, s) ==
    /\ c.out[s] \subseteq RequestsTo(s) /\ c.in[s] \subseteq RepliesFrom(s)
    /\ c.oldOut[s] \subseteq c.out[s] /\ c.oldIn[s] \subseteq c.in[s]

Addressed(c) == \A s \in Servers : Fits(c, s)

Beats(c) == \A s \in Servers : c.beating[s] => c.open[s]

\* The invariants that are about the client alone, for a client c.
Sound(c) ==
    /\ c \in Client
    /\ Addressed(c)
    /\ ~(c.open["Auth"] /\ c.open["Game"])
    /\ Beats(c)
    /\ ~c.cut =>
        /\ c.state = "AUTH" => c.open["Auth"] /\ c.beating["Auth"]
        /\ c.state = "GAME" => c.open["Game"]
        /\ c.state = "CONNECTING_GAME" => ~c.open["Auth"] /\ ~c.open["Game"]

\* One batch is handled at a time, and its socket is still open unless that of the
\* auth server was closed to start the game connection.
BatchOfOpenSocket(c, b) ==
    /\ b \in [Servers -> SUBSET Replies]
    /\ b["Auth"] \subseteq FromAuth /\ b["Game"] \subseteq FromGame
    /\ b["Auth"] = {} \/ b["Game"] = {}
    /\ b["Auth"] # {} => c.open["Auth"] \/ c.state = "GAME"
    /\ b["Game"] # {} => c.open["Game"]

IInv ==
    /\ Sound(client)
    /\ BatchOfOpenSocket(client, batch)
    /\ up \in [Servers -> BOOLEAN]
    /\ prompt \in BOOLEAN

LEMMA ServersAre ==
    /\ "Auth" \in Servers /\ "Game" \in Servers
    /\ "Auth" \in Servers \ {"Game"} /\ "Game" \in Servers \ {"Auth"}
    /\ \A s \in Servers : s = "Auth" \/ s = "Game"
BY DEF Servers

\* What is under way to and from a server fits as long as nothing is added to it
\* but a request of the right kind.
LEMMA StillFits ==
    ASSUME NEW c, NEW s \in Servers, Fits(c, s), NEW d,
           \/ SameWay(c, d, s)
           \/ Emptied(d, s)
           \/ \E r \in RequestsTo(s) : Sent(c, d, s, r)
    PROVE  Fits(d, s)
<1>1. CASE SameWay(c, d, s)
  BY <1>1 DEF SameWay, Fits
<1>2. CASE Emptied(d, s)
  BY <1>2 DEF Emptied, Fits
<1>3. ASSUME NEW r \in RequestsTo(s), Sent(c, d, s, r)
      PROVE  Fits(d, s)
  BY <1>3 DEF Sent, Fits
<1> QED
  BY <1>1, <1>2, <1>3

LEMMA ConnectIsSent == \A s \in Servers : "connect" \in RequestsTo(s)
BY DEF RequestsTo, Requests

LEMMA ConnectAuthSound ==
    ASSUME NEW c \in Client, Addressed(c), Beats(c)
    PROVE  Sound(ConnectAuth(c))
<1> DEFINE d == ConnectAuth(c)
<1>1. /\ d \in Client /\ d.state = "CONNECTING_AUTH"
      /\ d.open["Auth"] /\ ~d.open["Game"]
      /\ Sent(c, d, "Auth", "connect")
      /\ SameWay(c, d, "Game") \/ Emptied(d, "Game")
      /\ d.beating["Game"] => c.beating["Game"] /\ ~c.open["Game"]
  BY ConnectAuthFields
<1> HIDE DEF d
<1>2. Addressed(d)
  <2>1. Fits(d, "Auth")
    BY <1>1, ServersAre, ConnectIsSent, StillFits DEF Addressed
  <2>2. Fits(d, "Game")
    BY <1>1, ServersAre, StillFits DEF Addressed
  <2> QED
    BY <2>1, <2>2, ServersAre DEF Addressed
<1>3. Beats(d)
  BY <1>1, ServersAre DEF Beats
<1>4. Sound(d)
  BY <1>1, <1>2, <1>3 DEF Sound
<1> QED
  BY <1>4 DEF d

LEMMA ConnectGameSound ==
    ASSUME NEW c \in Client, Addressed(c), Beats(c)
    PROVE  Sound(ConnectGame(c))
<1> DEFINE d == ConnectGame(c)
<1>1. /\ d \in Client /\ d.state = "GAME"
      /\ d.open["Game"] /\ ~d.open["Auth"]
      /\ Sent(c, d, "Game", "connect")
      /\ SameWay(c, d, "Auth") \/ Emptied(d, "Auth")
      /\ d.beating["Auth"] => c.beating["Auth"] /\ ~c.open["Auth"]
  BY ConnectGameFields
<1> HIDE DEF d
<1>2. Addressed(d)
  <2>1. Fits(d, "Game")
    BY <1>1, ServersAre, ConnectIsSent, StillFits DEF Addressed
  <2>2. Fits(d, "Auth")
    BY <1>1, ServersAre, StillFits DEF Addressed
  <2> QED
    BY <2>1, <2>2, ServersAre DEF Addressed
<1>3. Beats(d)
  BY <1>1, ServersAre DEF Beats
<1>4. Sound(d)
  BY <1>1, <1>2, <1>3 DEF Sound
<1> QED
  BY <1>4 DEF d

\* A time-out of the game connection is only sound where that connection was open,
\* which closed the other one.
LEMMA CheckTimeoutSound ==
    ASSUME NEW c, Sound(c), NEW s \in Servers, s = "Game" /\ ~c.cut => c.open["Game"]
    PROVE  Sound(CheckTimeout(c, s))
<1> DEFINE d == CheckTimeout(c, s)
<1>0. c \in Client /\ c.age[s] \in 0 .. Timeout + 1 /\ Timeout \in Nat
  BY ClientConnectionAssumption DEF Sound, Client
<1>1. CASE c.age[s] <= Timeout
  BY <1>0, <1>1, CheckTimeoutFields
<1>2. CASE c.age[s] > Timeout
  <2>1. /\ d \in Client /\ d.cut = c.cut
        /\ d.state = IF s = "Auth" THEN "CONNECTING_AUTH" ELSE "CONNECTING_GAME"
        /\ ~d.open[s] /\ ~d.beating[s] /\ Emptied(d, s)
        /\ \A t \in Servers \ {s} : SameAt(c, d, t)
    BY <1>0, <1>2, CheckTimeoutFields DEF SameRest
  <2> HIDE DEF d
  <2>2. Addressed(d)
    <3>1. \A t \in Servers : SameWay(c, d, t) \/ Emptied(d, t)
      BY <2>1 DEF SameAt
    <3> QED
      BY <3>1, StillFits DEF Sound, Addressed
  <2>3. Beats(d)
    BY <2>1 DEF Sound, Beats, SameAt
  <2>4. CASE s = "Auth"
    <3>1. SameAt(c, d, "Game")
      BY <2>1, <2>4, ServersAre
    <3> QED
      BY <2>1, <2>2, <2>3, <2>4, <3>1 DEF Sound, SameAt, d
  <2>5. CASE s = "Game"
    <3>1. SameAt(c, d, "Auth")
      BY <2>1, <2>5, ServersAre
    <3>2. Sound(d)
      BY <2>1, <2>2, <2>3, <2>5, <3>1 DEF Sound, SameAt
    <3> QED
      BY <3>2 DEF d
  <2> QED
    BY <2>4, <2>5, ServersAre
<1> QED
  BY <1>0, <1>1, <1>2

\* What Sound does not depend on may change.
LEMMA SoundAlike ==
    ASSUME NEW c, Sound(c), NEW d \in Client, Addressed(d),
           d.state = c.state, d.cut = c.cut, d.open = c.open, d.beating = c.beating
    PROVE  Sound(d)
<1>1. Beats(d)
  BY DEF Sound, Beats
<1> QED
  BY <1>1 DEF Sound

\* Nothing that is under way changes.
LEMMA AddressedAlike ==
    ASSUME NEW c, Addressed(c), NEW d, SameWays(c, d)
    PROVE  Addressed(d)
<1>1. \A s \in Servers : SameWay(c, d, s)
  BY DEF SameWay, SameWays
<1> QED
  BY <1>1, StillFits DEF Addressed

\* The time of the last answer is set.
LEMMA AnsweredFields ==
    ASSUME NEW c \in Client, NEW s \in Servers
    PROVE  LET d == [c EXCEPT !.age[s] = 0]
           IN  /\ d \in Client /\ SameRest(c, d) /\ d.state = c.state
               /\ \A t \in Servers \ {s} : SameAt(c, d, t)
               /\ d.open = c.open /\ SameWays(c, d)
               /\ d.beating = c.beating /\ d.due = c.due /\ d.age[s] = 0
<1>1. 0 \in 0 .. Timeout + 1
  BY ClientConnectionAssumption
<1>2. [c.age EXCEPT ![s] = 0] \in [Servers -> 0 .. Timeout + 1]
  BY <1>1 DEF Client
<1> QED
  BY <1>2 DEF Client, SameAt, SameRest, SameWay, SameWays

\* A heartbeat from the auth server.
LEMMA AuthHeartbeatFields ==
    ASSUME NEW c \in Client
    PROVE  LET d == AfterAuthPacket(c, "heartbeat")
           IN  /\ d \in Client /\ d.cut = c.cut
               /\ d.state = IF c.state = "CONNECTING_AUTH" THEN "AUTH" ELSE c.state
               /\ SameAt(c, d, "Game")
               /\ d.open = c.open /\ SameWays(c, d)
               /\ d.beating["Auth"] = (c.state = "CONNECTING_AUTH" \/ c.beating["Auth"])
               /\ d.age["Auth"] = 0
<1> DEFINE h == [c EXCEPT !.age["Auth"] = 0]
           c1 == SetClientState(h, "AUTH")
           c2 == StartHeartbeat(c1, "Auth")
<1>1. /\ h \in Client /\ h.cut = c.cut /\ h.state = c.state
      /\ SameAt(c, h, "Game")
      /\ h.open = c.open /\ SameWays(c, h)
      /\ h.beating = c.beating /\ h.age["Auth"] = 0
  BY ServersAre, AnsweredFields DEF SameRest
<1>2. AfterAuthPacket(c, "heartbeat") = IF c.state = "CONNECTING_AUTH" THEN c2 ELSE h
  BY DEF AfterAuthPacket
<1> HIDE DEF h
<1>3. CASE c.state = "CONNECTING_AUTH"
  <2>1. /\ c1 \in Client /\ c1.cut = c.cut /\ c1.state = "AUTH"
        /\ SameAt(h, c1, "Game")
        /\ c1.open = h.open /\ SameWays(h, c1)
    <3>1. "AUTH" \in States
      BY DEF States
    <3> QED
      BY <1>1, <3>1, ServersAre, SetClientStateFields DEF SameRest
  <2> HIDE DEF c1
  <2>2. /\ c2 \in Client /\ c2.cut = c.cut /\ c2.state = "AUTH"
        /\ SameAt(c1, c2, "Game")
        /\ c2.open = c1.open /\ SameWays(c1, c2)
        /\ c2.beating["Auth"] /\ c2.age["Auth"] = 0
    BY <2>1, ServersAre, StartHeartbeatFields DEF SameRest
  <2>3. c2.beating["Auth"] = TRUE
    BY <2>2, ServersAre DEF Client
  <2> HIDE DEF c2
  <2>4. SameWays(c, c2)
    BY <1>1, <2>1, <2>2 DEF SameWays
  <2>5. SameAt(c, c2, "Game")
    BY <1>1, <2>1, <2>2 DEF SameAt, SameWay
  <2> QED
    BY <1>1, <1>2, <1>3, <2>1, <2>2, <2>3, <2>4, <2>5
<1>4. CASE c.state # "CONNECTING_AUTH"
  <2>1. c.beating["Auth"] \in BOOLEAN
    BY ServersAre DEF Client
  <2> QED
    BY <1>1, <1>2, <1>4, <2>1 DEF SameAt, SameWay, SameWays
<1> QED
  BY <1>3, <1>4

\* The game server lets the client in.
LEMMA ConnectOkFields ==
    ASSUME NEW c \in Client
    PROVE  LET d == AfterGamePacket(c, "connect_ok")
           IN  /\ d \in Client /\ d.cut = c.cut /\ d.state = c.state
               /\ SameAt(c, d, "Auth")
               /\ d.open = c.open /\ SameWays(c, d)
               /\ c.state # "GAME" => SameAt(c, d, "Game")
               /\ c.state = "GAME" => /\ d.beating["Game"]
                                      /\ d.due["Game"] = Interval /\ d.age["Game"] = 0
<1> DEFINE d == StartHeartbeat(c, "Game")
<1>1. AfterGamePacket(c, "connect_ok") = IF c.state = "GAME" THEN d ELSE c
  BY DEF AfterGamePacket
<1>2. /\ d \in Client /\ d.cut = c.cut /\ d.state = c.state /\ SameAt(c, d, "Auth")
      /\ d.open = c.open /\ SameWays(c, d)
      /\ d.beating["Game"] /\ d.due["Game"] = Interval /\ d.age["Game"] = 0
  BY ServersAre, StartHeartbeatFields DEF SameRest
<1> HIDE DEF d
<1> QED
  BY <1>1, <1>2 DEF SameAt, SameWay, SameWays

\* The game server refuses the client.
LEMMA ConnectFailFields ==
    ASSUME NEW c \in Client
    PROVE  LET d == AfterGamePacket(c, "connect_fail")
           IN  /\ d \in Client /\ d.cut = c.cut /\ d.state = "CONNECTING_AUTH"
               /\ d.open = c.open /\ SameWays(c, d)
               /\ d.beating = c.beating /\ d.due = c.due /\ d.age = c.age
<1>1. AfterGamePacket(c, "connect_fail") = SetClientState(c, "CONNECTING_AUTH")
  BY DEF AfterGamePacket
<1>2. "CONNECTING_AUTH" \in States
  BY DEF States
<1> QED
  BY <1>1, <1>2, SetClientStateFields DEF SameRest

\* A heartbeat from the game server.
LEMMA GameHeartbeatFields ==
    ASSUME NEW c \in Client
    PROVE  LET d == AfterGamePacket(c, "heartbeat")
           IN  /\ d \in Client /\ d.cut = c.cut
               /\ d.state = IF c.state = "CONNECTING_GAME" THEN "GAME" ELSE c.state
               /\ SameAt(c, d, "Auth")
               /\ d.open = c.open
               /\ SameWay(c, d, "Game") \/ Sent(c, d, "Game", "connect")
               /\ c.state = "CONNECTING_GAME" => d.beating["Game"]
               /\ c.state # "CONNECTING_GAME" => d.beating["Game"] = c.beating["Game"]
               /\ d.age["Game"] = 0
<1> DEFINE h == [c EXCEPT !.age["Game"] = 0]
           c1 == SetClientState(h, "GAME")
           c2 == StartHeartbeat(c1, "Game")
           c3 == Send(c2, "Game", "connect")
<1>1. /\ h \in Client /\ h.cut = c.cut /\ h.state = c.state
      /\ SameAt(c, h, "Auth")
      /\ h.open = c.open /\ SameWays(c, h)
      /\ h.beating = c.beating /\ h.age["Game"] = 0
  BY ServersAre, AnsweredFields DEF SameRest
<1>2. AfterGamePacket(c, "heartbeat") = IF c.state = "CONNECTING_GAME" THEN c3 ELSE h
  BY DEF AfterGamePacket
<1> HIDE DEF h
<1>3. CASE c.state = "CONNECTING_GAME"
  <2>1. /\ c1 \in Client /\ c1.cut = c.cut /\ c1.state = "GAME" /\ SameAt(h, c1, "Auth")
        /\ c1.open = h.open /\ SameWays(h, c1)
    <3>1. "GAME" \in States
      BY DEF States
    <3> QED
      BY <1>1, <3>1, ServersAre, SetClientStateFields DEF SameRest
  <2> HIDE DEF c1
  <2>2. /\ c2 \in Client /\ c2.cut = c.cut /\ c2.state = "GAME" /\ SameAt(c1, c2, "Auth")
        /\ c2.open = c1.open /\ SameWays(c1, c2)
        /\ c2.beating["Game"] /\ c2.age["Game"] = 0
    BY <2>1, ServersAre, StartHeartbeatFields DEF SameRest
  <2> HIDE DEF c2
  <2>3. c2 \in Client /\ "Game" \in Servers /\ "connect" \in Requests
    BY <2>2, ServersAre DEF Requests
  <2>4. /\ c3 \in Client /\ c3.cut = c2.cut /\ c3.state = c2.state
        /\ SameAt(c2, c3, "Auth")
        /\ c3.open = c2.open /\ c3.beating = c2.beating /\ c3.age = c2.age
        /\ SameWay(c2, c3, "Game") \/ Sent(c2, c3, "Game", "connect")
    BY <2>3, ServersAre, SendFields DEF SameRest, SameWay
  <2> HIDE DEF c3
  <2>5. SameWay(c, c3, "Game") \/ Sent(c, c3, "Game", "connect")
    BY <1>1, <2>1, <2>2, <2>4 DEF SameWay, SameWays, Sent
  <2>6. SameAt(c, c3, "Auth")
    BY <1>1, <2>1, <2>2, <2>4 DEF SameAt, SameWay, SameWays
  <2> QED
    BY <1>1, <1>2, <1>3, <2>1, <2>2, <2>4, <2>5, <2>6
<1>4. CASE c.state # "CONNECTING_GAME"
  BY <1>1, <1>2, <1>4 DEF SameWay, SameWays
<1> QED
  BY <1>3, <1>4

-----------------------------------------------------------------------------
(* The steps keep the invariant                                            *)

\* The client before its first ConnectAuth.
NewClient ==
    [ state |-> "DISCONNECTED", retries |-> 0, hostKnown |-> FALSE, ticking |-> FALSE,
      open |-> [s \in Servers |-> FALSE],
      out |-> [s \in Servers |-> {}], in |-> [s \in Servers |-> {}],
      oldOut |-> [s \in Servers |-> {}], oldIn |-> [s \in Servers |-> {}],
      beating |-> [s \in Servers |-> FALSE], due |-> [s \in Servers |-> 0],
      age |-> [s \in Servers |-> Timeout + 1],
      fresh |-> FALSE, cut |-> FALSE ]

LEMMA NewClientFields ==
    NewClient \in Client /\ Addressed(NewClient) /\ Beats(NewClient)
    /\ \A s \in Servers : ~NewClient.beating[s]
<1>1. /\ 0 \in 0 .. MaxRetries /\ 0 \in 0 .. Interval
      /\ Timeout + 1 \in 0 .. Timeout + 1
  BY ClientConnectionAssumption
<1> QED
  BY <1>1 DEF NewClient, Client, States, Addressed, Fits, Beats

LEMMA InitIInv == Init => IInv
<1> SUFFICES ASSUME Init
             PROVE  IInv
  OBVIOUS
<1>1. client = ConnectAuth(NewClient) /\ batch = [s \in Servers |-> {}]
      /\ up = [s \in Servers |-> TRUE] /\ prompt \in BOOLEAN
  BY DEF Init, NewClient
<1>2. Sound(client)
  BY <1>1, NewClientFields, ConnectAuthSound
<1>3. BatchOfOpenSocket(client, batch)
  BY <1>1, ServersAre DEF BatchOfOpenSocket
<1> QED
  BY <1>1, <1>2, <1>3 DEF IInv

\* Between two handlers there is no batch to speak of.
LEMMA NoBatch ==
    ASSUME IInv, Idle, batch' = batch
    PROVE  BatchOfOpenSocket(client', batch')
BY ServersAre DEF IInv, BatchOfOpenSocket, Idle

\* What is left of a batch when one of its packets has been handled.
LEMMA RestOfBatch ==
    ASSUME IInv, NEW s \in Servers, NEW p \in batch[s],
           batch' = [batch EXCEPT ![s] = @ \ {p}]
    PROVE  /\ batch' \in [Servers -> SUBSET Replies]
           /\ batch'["Auth"] \subseteq FromAuth /\ batch'["Game"] \subseteq FromGame
           /\ \A t \in Servers : t # s => batch'[t] = {}
<1>1. batch \in [Servers -> SUBSET Replies]
      /\ batch["Auth"] \subseteq FromAuth /\ batch["Game"] \subseteq FromGame
      /\ (batch["Auth"] = {} \/ batch["Game"] = {})
  BY DEF IInv, BatchOfOpenSocket
<1>2. batch' \in [Servers -> SUBSET Replies]
  BY <1>1
<1>3. batch'["Auth"] \subseteq batch["Auth"] /\ batch'["Game"] \subseteq batch["Game"]
  BY <1>1, ServersAre
<1>4. \A t \in Servers : t # s => batch[t] = {}
  BY <1>1, ServersAre
<1>5. \A t \in Servers : t # s => batch'[t] = batch[t]
  BY <1>1
<1> QED
  BY <1>1, <1>2, <1>3, <1>4, <1>5

LEMMA HandleAuthKeeps ==
    ASSUME IInv, HandlePacket("Auth")
    PROVE  IInv'
<1>1. PICK p \in batch["Auth"] :
          /\ client' = AfterAuthPacket(client, p)
          /\ batch' = [batch EXCEPT !["Auth"] = @ \ {p}]
          /\ UNCHANGED <<up, prompt>>
  BY DEF HandlePacket
<1>2. /\ Sound(client) /\ client \in Client /\ Addressed(client) /\ Beats(client)
      /\ p \in FromAuth
      /\ client.open["Auth"] \/ client.state = "GAME"
  BY DEF IInv, BatchOfOpenSocket, Sound
<1>3. /\ batch' \in [Servers -> SUBSET Replies]
      /\ batch'["Auth"] \subseteq FromAuth /\ batch'["Game"] = {}
  BY <1>1, ServersAre, RestOfBatch
<1>4. Sound(client') /\ (client'.open["Auth"] \/ client'.state = "GAME")
  <2>1. CASE p = "select_ok"
    <3>1. client' = ConnectGame(client)
      BY <1>1, <2>1 DEF AfterAuthPacket
    <3> QED
      BY <1>2, <3>1, ConnectGameSound, ConnectGameFields
  <2>2. CASE p = "heartbeat"
    <3>1. /\ client' \in Client /\ client'.cut = client.cut
          /\ client'.state = IF client.state = "CONNECTING_AUTH" THEN "AUTH" ELSE client.state
          /\ SameAt(client, client', "Game")
          /\ client'.open = client.open /\ SameWays(client, client')
          /\ client'.beating["Auth"] =
                (client.state = "CONNECTING_AUTH" \/ client.beating["Auth"])
      BY <1>1, <1>2, <2>2, AuthHeartbeatFields
    <3>2. Addressed(client')
      BY <1>2, <3>1, AddressedAlike
    <3>3. Beats(client')
      BY <1>2, <3>1, ServersAre DEF Beats, SameAt
    <3>4. ~client'.cut =>
            /\ client'.state = "AUTH" => client'.open["Auth"] /\ client'.beating["Auth"]
            /\ client'.state = "GAME" => client'.open["Game"]
            /\ client'.state = "CONNECTING_GAME" => ~client'.open["Auth"] /\ ~client'.open["Game"]
      BY <1>2, <3>1 DEF Sound
    <3> QED
      BY <1>2, <3>1, <3>2, <3>3, <3>4 DEF Sound
  <2> QED
    BY <1>2, <2>1, <2>2 DEF FromAuth
<1>5. BatchOfOpenSocket(client', batch')
  BY <1>3, <1>4 DEF BatchOfOpenSocket
<1> QED
  BY <1>1, <1>4, <1>5 DEF IInv

LEMMA HandleGameKeeps ==
    ASSUME IInv, HandlePacket("Game")
    PROVE  IInv'
<1>1. PICK p \in batch["Game"] :
          /\ client' = AfterGamePacket(client, p)
          /\ batch' = [batch EXCEPT !["Game"] = @ \ {p}]
          /\ UNCHANGED <<up, prompt>>
  BY ServersAre DEF HandlePacket
<1>2. /\ Sound(client) /\ client \in Client /\ Addressed(client) /\ Beats(client)
      /\ p \in FromGame
      /\ client.open["Game"] /\ ~client.open["Auth"]
  BY DEF IInv, BatchOfOpenSocket, Sound
<1>3. /\ batch' \in [Servers -> SUBSET Replies]
      /\ batch'["Auth"] = {} /\ batch'["Game"] \subseteq FromGame
  BY <1>1, ServersAre, RestOfBatch
<1>4. Sound(client') /\ client'.open["Game"]
  <2>1. CASE p = "connect_ok"
    <3>1. /\ client' \in Client /\ client'.cut = client.cut /\ client'.state = client.state
          /\ SameAt(client, client', "Auth")
          /\ client'.open = client.open /\ SameWays(client, client')
          /\ client.state # "GAME" => SameAt(client, client', "Game")
      BY <1>1, <1>2, <2>1, ConnectOkFields
    <3>2. Addressed(client')
      BY <1>2, <3>1, AddressedAlike
    <3>3. Beats(client')
      BY <1>2, <3>1, ServersAre DEF Beats, SameAt
    <3> QED
      BY <1>2, <3>1, <3>2, <3>3 DEF Sound, SameAt
  <2>2. CASE p = "connect_fail"
    <3>1. /\ client' \in Client /\ client'.cut = client.cut
          /\ client'.state = "CONNECTING_AUTH"
          /\ client'.open = client.open /\ SameWays(client, client')
          /\ client'.beating = client.beating
      BY <1>1, <1>2, <2>2, ConnectFailFields
    <3>2. Addressed(client')
      BY <1>2, <3>1, AddressedAlike
    <3>3. Beats(client')
      BY <1>2, <3>1 DEF Beats
    <3> QED
      BY <1>2, <3>1, <3>2, <3>3 DEF Sound
  <2>3. CASE p = "heartbeat"
    <3>1. /\ client' \in Client /\ client'.cut = client.cut
          /\ client'.state = IF client.state = "CONNECTING_GAME" THEN "GAME" ELSE client.state
          /\ SameAt(client, client', "Auth")
          /\ client'.open = client.open
          /\ SameWay(client, client', "Game") \/ Sent(client, client', "Game", "connect")
      BY <1>1, <1>2, <2>3, GameHeartbeatFields
    <3>2. Addressed(client')
      <4>1. Fits(client', "Game")
        BY <1>2, <3>1, ServersAre, ConnectIsSent, StillFits DEF Addressed
      <4>2. Fits(client', "Auth")
        BY <1>2, <3>1, ServersAre, StillFits DEF Addressed, SameAt
      <4> QED
        BY <4>1, <4>2, ServersAre DEF Addressed
    <3>3. Beats(client')
      BY <1>2, <3>1, ServersAre DEF Beats, SameAt
    <3> QED
      BY <1>2, <3>1, <3>2, <3>3 DEF Sound, SameAt
  <2> QED
    BY <1>2, <2>1, <2>2, <2>3 DEF FromGame
<1>5. BatchOfOpenSocket(client', batch')
  BY <1>3, <1>4 DEF BatchOfOpenSocket
<1> QED
  BY <1>1, <1>4, <1>5 DEF IInv

LEMMA ReceiveKeeps ==
    ASSUME IInv, NEW s \in Servers, Receive(s)
    PROVE  IInv'
<1>1. /\ Sound(client) /\ client \in Client /\ Addressed(client)
      /\ batch \in [Servers -> SUBSET Replies]
      /\ \A t \in Servers : batch[t] = {}
      /\ client.open[s] /\ client.in[s] \in SUBSET Replies
  BY DEF IInv, BatchOfOpenSocket, Sound, Receive, Idle, Client
<1>2. client' = [client EXCEPT !.in[s] = {}, !.oldIn[s] = {}]
      /\ batch' = [batch EXCEPT ![s] = client.in[s]] /\ UNCHANGED <<up, prompt>>
  BY DEF Receive
<1>3. /\ client' \in Client /\ client'.state = client.state /\ client'.cut = client.cut
      /\ client'.open = client.open /\ client'.beating = client.beating
      /\ client'.out = client.out /\ client'.oldOut = client.oldOut
      /\ client'.in[s] = {} /\ client'.oldIn[s] = {}
      /\ \A t \in Servers \ {s} : SameWay(client, client', t)
  BY <1>1, <1>2 DEF Client, SameWay
<1>4. Addressed(client')
  <2>1. Fits(client', s)
    BY <1>1, <1>3 DEF Addressed, Fits
  <2> QED
    BY <1>1, <1>3, <2>1, StillFits DEF Addressed
<1>5. Sound(client')
  BY <1>1, <1>3, <1>4, SoundAlike
<1>6. /\ batch' \in [Servers -> SUBSET Replies]
      /\ batch'[s] = client.in[s] /\ \A t \in Servers \ {s} : batch'[t] = {}
  BY <1>1, <1>2
<1>7. batch'[s] \subseteq RepliesFrom(s)
  BY <1>1, <1>6 DEF Addressed, Fits
<1>8. BatchOfOpenSocket(client', batch')
  <2>1. CASE s = "Auth"
    <3>1. batch'["Auth"] \subseteq FromAuth /\ batch'["Game"] = {}
      BY <1>6, <1>7, <2>1, ServersAre DEF RepliesFrom
    <3> QED
      BY <1>1, <1>3, <1>6, <2>1, <3>1 DEF BatchOfOpenSocket
  <2>2. CASE s = "Game"
    <3>1. batch'["Game"] \subseteq FromGame /\ batch'["Auth"] = {}
      BY <1>6, <1>7, <2>2, ServersAre DEF RepliesFrom
    <3> QED
      BY <1>1, <1>3, <1>6, <2>2, <3>1 DEF BatchOfOpenSocket
  <2> QED
    BY <2>1, <2>2, ServersAre
<1> QED
  BY <1>2, <1>5, <1>8 DEF IInv

\* A request is put on the way to its server.
LEMMA SendSound ==
    ASSUME NEW c, Sound(c), NEW s \in Servers, NEW r \in RequestsTo(s)
    PROVE  Sound(Send(c, s, r))
<1> DEFINE d == Send(c, s, r)
<1>1. c \in Client /\ Addressed(c) /\ r \in Requests
  BY DEF Sound, RequestsTo, Requests
<1>2. /\ d \in Client /\ SameRest(c, d) /\ d.state = c.state
      /\ \A t \in Servers \ {s} : SameAt(c, d, t)
      /\ d.open = c.open /\ d.beating = c.beating
      /\ SameWay(c, d, s) \/ Sent(c, d, s, r)
  BY <1>1, SendFields DEF SameWay
<1> HIDE DEF d
<1>3. Addressed(d)
  <2>1. Fits(d, s)
    BY <1>1, <1>2, StillFits DEF Addressed
  <2> QED
    BY <1>1, <1>2, <2>1, StillFits DEF Addressed, SameAt
<1>4. Sound(d)
  BY <1>2, <1>3, SoundAlike DEF SameRest
<1> QED
  BY <1>4 DEF d

\* The timer is set again.
LEMMA RearmedFields ==
    ASSUME NEW c \in Client, NEW s \in Servers
    PROVE  LET d == [c EXCEPT !.due[s] = Interval]
           IN  /\ d \in Client /\ d.state = c.state /\ d.cut = c.cut
               /\ d.open = c.open /\ SameWays(c, d)
               /\ d.beating = c.beating /\ d.age = c.age
               /\ d.due[s] = Interval /\ \A t \in Servers \ {s} : d.due[t] = c.due[t]
<1>1. Interval \in 0 .. Interval
  BY ClientConnectionAssumption
<1>2. [c.due EXCEPT ![s] = Interval] \in [Servers -> 0 .. Interval]
  BY <1>1 DEF Client
<1> QED
  BY <1>2 DEF Client, SameWays

LEMMA SendHeartbeatKeeps ==
    ASSUME IInv, NEW s \in Servers, SendHeartbeat(s)
    PROVE  IInv'
<1> DEFINE again == [client EXCEPT !.due[s] = Interval]
           sent == Send(again, s, "heartbeat")
<1>1. Sound(client) /\ client \in Client /\ Addressed(client) /\ client.open[s]
  BY DEF IInv, Sound, SendHeartbeat, Beats
<1>2. client' = CheckTimeout(sent, s) /\ batch' = batch /\ UNCHANGED <<up, prompt>> /\ Idle
  BY <1>1 DEF SendHeartbeat
<1>3. /\ again \in Client /\ again.state = client.state /\ again.cut = client.cut
      /\ again.open = client.open /\ SameWays(client, again)
      /\ again.beating = client.beating
  BY <1>1, RearmedFields
<1> HIDE DEF again
<1>4. Sound(again)
  BY <1>1, <1>3, AddressedAlike, SoundAlike
<1>5. again.open[s] /\ sent.open = again.open
  BY <1>1, <1>3 DEF Send
<1>6. Sound(sent)
  BY <1>4, SendSound DEF RequestsTo, Requests
<1> HIDE DEF sent
<1>7. Sound(client')
  BY <1>2, <1>5, <1>6, CheckTimeoutSound
<1> QED
  BY <1>2, <1>7, NoBatch DEF IInv

LEMMA AgedFields ==
    ASSUME NEW c \in Client, \A s \in Servers : c.beating[s] => c.due[s] > 0
    PROVE  LET d == Aged(c)
           IN  /\ d \in Client /\ d.state = c.state /\ d.cut = c.cut
               /\ d.open = c.open /\ d.out = c.out /\ d.in = c.in
               /\ \/ d.oldOut = c.oldOut /\ d.oldIn = c.oldIn /\ May("late")
                  \/ d.oldOut = c.out /\ d.oldIn = c.in
               /\ d.beating = c.beating
               /\ \A s \in Servers : d.age[s] <= c.age[s] + 1
               /\ \A s \in Servers : c.beating[s] => d.due[s] = c.due[s] - 1
<1>1. \A n \in 0 .. Timeout + 1 : Later(n) \in 0 .. Timeout + 1 /\ Later(n) <= n + 1
  BY ClientConnectionAssumption DEF Later
<1>2. [s \in Servers |-> Later(c.age[s])] \in [Servers -> 0 .. Timeout + 1]
  BY <1>1 DEF Client
<1>3. [s \in Servers |-> IF c.beating[s] THEN c.due[s] - 1 ELSE c.due[s]]
          \in [Servers -> 0 .. Interval]
  <2>1. ASSUME NEW s \in Servers
        PROVE  (IF c.beating[s] THEN c.due[s] - 1 ELSE c.due[s]) \in 0 .. Interval
    <3>1. c.due[s] \in 0 .. Interval /\ Interval \in Nat
      BY ClientConnectionAssumption DEF Client
    <3> QED
      BY <3>1
  <2> QED
    BY <2>1
<1>4. \A s \in Servers : Later(c.age[s]) <= c.age[s] + 1
  BY <1>1 DEF Client
<1>5. CASE May("late")
  BY <1>2, <1>3, <1>4, <1>5 DEF Aged, Client
<1>6. CASE ~May("late")
  BY <1>2, <1>3, <1>4, <1>6 DEF Aged, Client
<1> QED
  BY <1>5, <1>6

\* One more retry, or none.
LEMMA RetriesFields ==
    ASSUME NEW c \in Client, NEW n \in 0 .. MaxRetries
    PROVE  LET d == [c EXCEPT !.retries = n]
           IN  /\ d \in Client /\ d.state = c.state /\ d.cut = c.cut
               /\ d.open = c.open /\ SameWays(c, d)
               /\ d.beating = c.beating /\ d.due = c.due /\ d.age = c.age
BY DEF Client, SameWays

LEMMA TickSocketsSound ==
    ASSUME NEW c, Sound(c)
    PROVE  Sound(TickSockets(c))
<1>0. c \in Client /\ Addressed(c) /\ Beats(c) /\ c.retries \in 0 .. MaxRetries
      /\ MaxRetries \in Nat
  BY ClientConnectionAssumption DEF Sound, Client
<1>1. CASE c.state = "CONNECTING_AUTH"
  <2>1. CASE c.open["Auth"]
    BY <1>1, <2>1 DEF TickSockets
  <2>2. CASE ~c.open["Auth"]
    <3> DEFINE d == Disconnect(c, "Game")
    <3>1. TickSockets(c) = ConnectAuth(d)
      BY <1>1, <2>2 DEF TickSockets
    <3>2. /\ d \in Client /\ SameAt(c, d, "Auth")
          /\ d.beating["Game"] => c.beating["Game"] /\ ~c.open["Game"]
          /\ SameWay(c, d, "Game") \/ Emptied(d, "Game")
      BY <1>0, ServersAre, DisconnectFields
    <3> HIDE DEF d
    <3>3. Addressed(d)
      <4>1. \A s \in Servers : SameWay(c, d, s) \/ Emptied(d, s)
        BY <3>2, ServersAre DEF SameAt
      <4> QED
        BY <1>0, <4>1, StillFits DEF Addressed
    <3>4. Beats(d)
      BY <1>0, <3>2, ServersAre DEF Beats, SameAt
    <3> QED
      BY <3>1, <3>2, <3>3, <3>4, ConnectAuthSound
  <2> QED
    BY <2>1, <2>2
<1>2. CASE c.state = "AUTH"
  BY <1>2, ServersAre, CheckTimeoutSound DEF TickSockets
<1>3. CASE c.state = "CONNECTING_GAME"
  <2>1. CASE MayRetry(c)
    <3> DEFINE d == [c EXCEPT !.retries = @ + 1]
    <3>1. c.retries + 1 \in 0 .. MaxRetries
      BY <1>0, <2>1 DEF MayRetry
    <3>2. /\ d \in Client /\ d.state = c.state /\ d.cut = c.cut
          /\ d.open = c.open /\ SameWays(c, d) /\ d.beating = c.beating
      BY <1>0, <3>1, RetriesFields
    <3>3. TickSockets(c) = ConnectGame(d) \/ TickSockets(c) = d
      BY <1>3, <2>1 DEF TickSockets
    <3> HIDE DEF d
    <3>4. Addressed(d)
      BY <1>0, <3>2, AddressedAlike
    <3>5. Beats(d)
      BY <1>0, <3>2 DEF Beats
    <3> QED
      BY <3>2, <3>3, <3>4, <3>5, SoundAlike, ConnectGameSound
  <2>2. CASE ~MayRetry(c)
    <3> DEFINE d == [c EXCEPT !.retries = 0]
               f == SetClientState(d, "CONNECTING_AUTH")
    <3>1. /\ d \in Client
          /\ d.open = c.open /\ SameWays(c, d) /\ d.beating = c.beating
      BY <1>0, RetriesFields
    <3>2. TickSockets(c) = f
      BY <1>3, <2>2 DEF TickSockets
    <3> HIDE DEF d
    <3>3. /\ f \in Client /\ f.state = "CONNECTING_AUTH"
          /\ f.open = d.open /\ SameWays(d, f) /\ f.beating = d.beating
      <4>1. "CONNECTING_AUTH" \in States
        BY DEF States
      <4> QED
        BY <3>1, <4>1, SetClientStateFields
    <3> HIDE DEF f
    <3>4. Addressed(f)
      BY <1>0, <3>1, <3>3, AddressedAlike
    <3>5. Beats(f)
      BY <1>0, <3>1, <3>3 DEF Beats
    <3> QED
      BY <3>1, <3>2, <3>3, <3>4, <3>5 DEF Sound
  <2> QED
    BY <2>1, <2>2
<1>4. CASE c.state = "GAME"
  <2>1. ~c.cut => c.open["Game"]
    BY <1>4 DEF Sound
  <2>2. TickSockets(c) = CheckTimeout(c, "Game")
    BY <1>4 DEF TickSockets
  <2> QED
    BY <2>1, <2>2, ServersAre, CheckTimeoutSound
<1>5. CASE c.state = "DISCONNECTED"
  BY <1>5 DEF TickSockets
<1> QED
  BY <1>0, <1>1, <1>2, <1>3, <1>4, <1>5 DEF Client, States

LEMMA TickKeeps == IInv /\ Tick => IInv'
<1> SUFFICES ASSUME IInv, Tick
             PROVE  IInv'
  OBVIOUS
<1> DEFINE c == Aged(client)
<1>1. Sound(client) /\ client \in Client /\ Addressed(client)
  BY DEF IInv, Sound
<1>2. \A s \in Servers : client.beating[s] => client.due[s] > 0
  BY DEF Tick
<1>3. /\ c \in Client /\ c.state = client.state /\ c.cut = client.cut
      /\ c.open = client.open /\ c.out = client.out /\ c.in = client.in
      /\ \/ c.oldOut = client.oldOut /\ c.oldIn = client.oldIn
         \/ c.oldOut = client.out /\ c.oldIn = client.in
      /\ c.beating = client.beating
  BY <1>1, <1>2, AgedFields
<1>4. client' = TickSockets(c) \/ client' = c
  BY DEF Tick
<1> HIDE DEF c
<1>5. Addressed(c)
  BY <1>1, <1>3 DEF Addressed, Fits
<1>6. Sound(c)
  BY <1>1, <1>3, <1>5, SoundAlike
<1>7. Sound(client')
  BY <1>4, <1>6, TickSocketsSound
<1> QED
  BY <1>7, NoBatch DEF IInv, Tick

LEMMA SelectCharacterKeeps == IInv /\ SelectCharacter => IInv'
<1> SUFFICES ASSUME IInv, SelectCharacter
             PROVE  IInv'
  OBVIOUS
<1>1. "Auth" \in Servers /\ "select" \in RequestsTo("Auth")
  BY DEF Servers, RequestsTo, Requests
<1>2. Sound(client')
  BY <1>1, SendSound DEF IInv, SelectCharacter
<1> QED
  BY <1>2, NoBatch DEF IInv, SelectCharacter

-----------------------------------------------------------------------------
(* Calls from Blueprint                                                    *)

\* Called between two handlers, anything that leaves the client sound will do.
LEMMA CalledKeeps ==
    ASSUME IInv, NEW d, Called(d), Sound(d)
    PROVE  IInv'
BY NoBatch DEF Called, IInv

\* A client that has been cut off need not match its state.
LEMMA CutSound ==
    ASSUME NEW c \in Client, Addressed(c), Beats(c), ~(c.open["Auth"] /\ c.open["Game"])
    PROVE  Sound([c EXCEPT !.cut = TRUE])
<1> DEFINE d == [c EXCEPT !.cut = TRUE]
<1>1. d \in Client /\ d.cut /\ d.open = c.open /\ d.beating = c.beating /\ SameWays(c, d)
  BY DEF Client, SameWays
<1> HIDE DEF d
<1>2. Addressed(d)
  BY <1>1, AddressedAlike
<1>3. Beats(d)
  BY <1>1 DEF Beats
<1>4. Sound(d)
  BY <1>1, <1>2, <1>3 DEF Sound
<1> QED
  BY <1>4 DEF d

LEMMA CallConnectKeeps == IInv /\ (CallConnectAuth \/ CallConnectGame) => IInv'
<1> SUFFICES ASSUME IInv, CallConnectAuth \/ CallConnectGame
             PROVE  IInv'
  OBVIOUS
<1>1. client \in Client /\ Addressed(client) /\ Beats(client)
  BY DEF IInv, Sound
<1>2. Sound(ConnectAuth(client)) /\ Sound(ConnectGame(client))
  BY <1>1, ConnectAuthSound, ConnectGameSound
<1> QED
  BY <1>2, CalledKeeps DEF CallConnectAuth, CallConnectGame

LEMMA CallDisconnectKeeps ==
    ASSUME IInv, NEW s \in Servers, CallDisconnect(s)
    PROVE  IInv'
<1> DEFINE c == Disconnect(client, s)
<1>1. Sound(client) /\ client \in Client /\ Addressed(client) /\ Beats(client)
  BY DEF IInv, Sound
<1>2. /\ c \in Client /\ \A t \in Servers \ {s} : SameAt(client, c, t)
      /\ ~c.open[s]
      /\ SameWay(client, c, s) \/ Emptied(c, s)
      /\ c.beating[s] => client.beating[s] /\ ~client.open[s]
  BY <1>1, DisconnectFields
<1>3. Called([c EXCEPT !.cut = TRUE])
  BY DEF CallDisconnect
<1> HIDE DEF c
<1>4. Addressed(c)
  <2>1. \A t \in Servers : SameWay(client, c, t) \/ Emptied(c, t)
    BY <1>2 DEF SameAt
  <2> QED
    BY <1>1, <2>1, StillFits DEF Addressed
<1>5. Beats(c) /\ ~(c.open["Auth"] /\ c.open["Game"])
  <2>1. \A t \in Servers \ {s} : c.open[t] = client.open[t] /\ c.beating[t] = client.beating[t]
    BY <1>2 DEF SameAt
  <2>2. Beats(c)
    BY <1>1, <1>2, <2>1 DEF Beats
  <2>3. ~(client.open["Auth"] /\ client.open["Game"])
    BY <1>1 DEF Sound
  <2> QED
    BY <1>2, <2>1, <2>2, <2>3, ServersAre
<1> QED
  BY <1>2, <1>3, <1>4, <1>5, CutSound, CalledKeeps

LEMMA CallSetClientStateKeeps ==
    ASSUME IInv, NEW st \in States, CallSetClientState(st)
    PROVE  IInv'
<1> DEFINE c == SetClientState(client, st)
<1>1. Sound(client) /\ client \in Client /\ Addressed(client) /\ Beats(client)
  BY DEF IInv, Sound
<1>2. c \in Client /\ SameWays(client, c) /\ c.open = client.open
      /\ c.beating = client.beating
  BY <1>1, SetClientStateFields
<1>3. Called([c EXCEPT !.cut = TRUE])
  BY DEF CallSetClientState
<1> HIDE DEF c
<1>4. Addressed(c)
  BY <1>1, <1>2, AddressedAlike
<1>5. Beats(c) /\ ~(c.open["Auth"] /\ c.open["Game"])
  BY <1>1, <1>2 DEF Beats, Sound
<1> QED
  BY <1>2, <1>3, <1>4, <1>5, CutSound, CalledKeeps

\* Every timer is stopped and every socket closed.
LEMMA AllClosedFields ==
    ASSUME NEW c \in Client
    PROVE  LET d == AllClosed(c)
           IN  /\ d \in Client
               /\ \A s \in Servers : ~d.open[s] /\ ~d.beating[s] /\ Emptied(d, s)
<1> DEFINE c1 == StopHeartbeat(c, "Auth")
           c2 == StopHeartbeat(c1, "Game")
           c3 == Closed(c2, "Auth")
           c4 == Closed(c3, "Game")
<1>1. AllClosed(c) = c4
  BY DEF AllClosed, Stopped
<1>2. c1 \in Client /\ ~c1.beating["Auth"]
  BY ServersAre, StopHeartbeatFields
<1> HIDE DEF c1
<1>3. c2 \in Client /\ ~c2.beating["Auth"] /\ ~c2.beating["Game"]
  BY <1>2, ServersAre, StopHeartbeatFields DEF SameAt
<1> HIDE DEF c2
<1>4. /\ c3 \in Client /\ c3.beating = c2.beating
      /\ ~c3.open["Auth"] /\ Emptied(c3, "Auth")
  BY <1>3, ServersAre, ClosedFields
<1> HIDE DEF c3
<1>5. /\ c4 \in Client /\ c4.beating = c3.beating
      /\ ~c4.open["Game"] /\ Emptied(c4, "Game") /\ SameAt(c3, c4, "Auth")
  BY <1>4, ServersAre, ClosedFields
<1> HIDE DEF c4
<1>6. ~c4.open["Auth"] /\ Emptied(c4, "Auth")
  BY <1>4, <1>5 DEF SameAt, SameWay, Emptied
<1> QED
  BY <1>1, <1>3, <1>4, <1>5, <1>6, ServersAre

LEMMA AllClosedKeeps == IInv /\ (DisconnectAll \/ Shutdown) => IInv'
<1> SUFFICES ASSUME IInv, DisconnectAll \/ Shutdown
             PROVE  IInv'
  OBVIOUS
<1> DEFINE c == AllClosed(client)
           quiet == [c EXCEPT !.ticking = FALSE]
<1>1. client \in Client
  BY DEF IInv, Sound
<1>2. c \in Client /\ \A s \in Servers : ~c.open[s] /\ ~c.beating[s] /\ Emptied(c, s)
  BY <1>1, AllClosedFields
<1>3. \/ Called([c EXCEPT !.cut = TRUE])
      \/ Called([c EXCEPT !.cut = TRUE, !.ticking = FALSE])
  BY DEF DisconnectAll, Shutdown
<1> HIDE DEF c
<1>4. /\ quiet \in Client /\ quiet.open = c.open /\ quiet.beating = c.beating
      /\ SameWays(c, quiet)
  BY <1>2 DEF Client, SameWays
<1>5. [c EXCEPT !.cut = TRUE, !.ticking = FALSE] = [quiet EXCEPT !.cut = TRUE]
  BY <1>2 DEF Client
<1> HIDE DEF quiet
<1>6. /\ Addressed(c) /\ Addressed(quiet) /\ Beats(c) /\ Beats(quiet)
      /\ ~(c.open["Auth"] /\ c.open["Game"]) /\ ~(quiet.open["Auth"] /\ quiet.open["Game"])
  <2>1. Addressed(c)
    BY <1>2 DEF Addressed, Fits, Emptied
  <2>2. Addressed(quiet)
    BY <1>4, <2>1, AddressedAlike
  <2> QED
    BY <1>2, <1>4, <2>1, <2>2, ServersAre DEF Beats
<1>7. Sound([c EXCEPT !.cut = TRUE]) /\ Sound([quiet EXCEPT !.cut = TRUE])
  BY <1>2, <1>4, <1>6, CutSound
<1> QED
  BY <1>3, <1>5, <1>7, CalledKeeps

LEMMA CallsKeep == IInv /\ Calls => IInv'
BY CallConnectKeeps, CallDisconnectKeeps, CallSetClientStateKeeps, AllClosedKeeps DEF Calls

-----------------------------------------------------------------------------
(* The servers and the network                                             *)

\* Each server sends its own kind of answers.
LEMMA AnswersAre ==
    ASSUME NEW s \in Servers, NEW r \in RequestsTo(s), NEW p \in AnswersTo(s, r)
    PROVE  /\ p \in RepliesFrom(s) /\ p \in Replies
           /\ r = "heartbeat" => p = "heartbeat"
<1>0. r \in Requests
  BY DEF RequestsTo, Requests
<1>1. CASE r = "heartbeat"
  BY <1>1 DEF AnswersTo, RepliesFrom, FromAuth, FromGame, Replies
<1>2. CASE r = "connect" /\ s = "Auth"
  BY <1>2 DEF AnswersTo, RepliesFrom, FromAuth, Replies
<1>3. CASE r = "connect" /\ s = "Game"
  BY <1>3 DEF AnswersTo, RepliesFrom, FromGame, Replies
<1>4. CASE r = "select"
  <2>1. s = "Auth"
    BY <1>4, ServersAre DEF RequestsTo
  <2> QED
    BY <1>4, <2>1 DEF AnswersTo, RepliesFrom, FromAuth, Replies
<1> QED
  BY <1>0, <1>1, <1>2, <1>3, <1>4, ServersAre DEF Requests

\* What answer p to request r does to what is under way.
Answered(s, r, p, rest) ==
    /\ r = "heartbeat" => p = "heartbeat"
    /\ r \in client.out[s] /\ client.out[s] \ {r} \subseteq rest
    /\ client' \in Client
    /\ client'.state = client.state /\ client'.cut = client.cut
    /\ client'.open = client.open /\ client'.beating = client.beating
    /\ client'.due = client.due /\ client'.age = client.age
    /\ client'.out[s] = rest
    /\ client'.oldOut[s] = client.oldOut[s] \cap rest
    /\ client'.in[s] = client.in[s] \cup {p}
    /\ client'.oldIn[s] = IF r \in client.oldOut[s] THEN client.oldIn[s] \cup {p}
                          ELSE client.oldIn[s]
    /\ \A t \in Servers \ {s} : SameWay(client, client', t)

LEMMA AnswerFields ==
    ASSUME client \in Client, Addressed(client), NEW s \in Servers, Answer(s)
    PROVE  \E r \in RequestsTo(s), p \in RepliesFrom(s), rest \in SUBSET client.out[s] :
              Answered(s, r, p, rest)
<1>1. PICK r \in client.out[s] : \E p \in AnswersTo(s, r) :
          \E rest \in {client.out[s] \ {r}} \cup
                      (IF May("dup") THEN {client.out[s]} ELSE {}) :
              client' = [client EXCEPT
                  !.out[s] = rest, !.oldOut[s] = @ \cap rest,
                  !.in[s] = @ \cup {p},
                  !.oldIn[s] = IF r \in client.oldOut[s] THEN @ \cup {p} ELSE @]
  BY DEF Answer
<1>2. PICK p \in AnswersTo(s, r) :
          \E rest \in {client.out[s] \ {r}} \cup
                      (IF May("dup") THEN {client.out[s]} ELSE {}) :
              client' = [client EXCEPT
                  !.out[s] = rest, !.oldOut[s] = @ \cap rest,
                  !.in[s] = @ \cup {p},
                  !.oldIn[s] = IF r \in client.oldOut[s] THEN @ \cup {p} ELSE @]
  BY <1>1
<1>3. PICK rest \in SUBSET client.out[s] :
          /\ client' = [client EXCEPT
                !.out[s] = rest, !.oldOut[s] = @ \cap rest,
                !.in[s] = @ \cup {p},
                !.oldIn[s] = IF r \in client.oldOut[s] THEN @ \cup {p} ELSE @]
          /\ client.out[s] \ {r} \subseteq rest
  BY <1>2
<1>4. r \in RequestsTo(s)
  BY DEF Addressed, Fits
<1>5. p \in RepliesFrom(s) /\ p \in Replies /\ (r = "heartbeat" => p = "heartbeat")
  BY <1>4, AnswersAre
<1> DEFINE oo == client.oldOut[s] \cap rest
           i == client.in[s] \cup {p}
           oi == IF r \in client.oldOut[s] THEN client.oldIn[s] \cup {p} ELSE client.oldIn[s]
<1>6. /\ rest \in SUBSET Requests /\ oo \in SUBSET Requests
      /\ i \in SUBSET Replies /\ oi \in SUBSET Replies
  BY <1>5 DEF Client
<1>7. client' = [client EXCEPT !.out[s] = rest, !.oldOut[s] = oo, !.in[s] = i, !.oldIn[s] = oi]
  BY <1>3
<1> HIDE DEF oo, i, oi
<1>8. /\ client' \in Client
      /\ client'.state = client.state /\ client'.cut = client.cut
      /\ client'.open = client.open /\ client'.beating = client.beating
      /\ client'.due = client.due /\ client'.age = client.age
      /\ client'.out[s] = rest /\ client'.oldOut[s] = oo
      /\ client'.in[s] = i /\ client'.oldIn[s] = oi
      /\ \A t \in Servers \ {s} : SameWay(client, client', t)
  BY <1>6, <1>7 DEF Client, SameWay
<1> QED
  BY <1>3, <1>4, <1>5, <1>8 DEF oo, i, oi, Answered

\* A datagram under way changes nothing else.
LEMMA UnderWayKeeps ==
    ASSUME IInv, client' \in Client, Addressed(client'), UNCHANGED <<batch, up, prompt>>,
           client'.state = client.state, client'.cut = client.cut,
           client'.open = client.open, client'.beating = client.beating
    PROVE  IInv'
<1>1. Sound(client')
  BY SoundAlike DEF IInv
<1>2. BatchOfOpenSocket(client', batch')
  BY DEF IInv, BatchOfOpenSocket
<1> QED
  BY <1>1, <1>2 DEF IInv

LEMMA AnswerKeeps ==
    ASSUME IInv, NEW s \in Servers, Answer(s)
    PROVE  IInv'
<1>1. client \in Client /\ Addressed(client) /\ UNCHANGED <<batch, up, prompt>>
  BY DEF IInv, Sound, Answer
<1>2. PICK r \in RequestsTo(s), p \in RepliesFrom(s), rest \in SUBSET client.out[s] :
          Answered(s, r, p, rest)
  BY <1>1, AnswerFields
<1>3. Fits(client', s)
  BY <1>1, <1>2 DEF Addressed, Fits, Answered
<1>4. Addressed(client')
  BY <1>1, <1>2, <1>3, StillFits DEF Addressed, Answered
<1> QED
  BY <1>1, <1>2, <1>4, UnderWayKeeps DEF Answered

\* What a loss does to what is under way.
LEMMA LoseFields ==
    ASSUME client \in Client, NEW s \in Servers, Lose(s)
    PROVE  /\ client' \in Client
           /\ client'.state = client.state /\ client'.cut = client.cut
           /\ client'.open = client.open /\ client'.beating = client.beating
           /\ client'.due = client.due /\ client'.age = client.age
           /\ client'.in = client.in /\ client'.oldIn = client.oldIn
           /\ \A t \in Servers \ {s} : SameWay(client, client', t)
           /\ \E r \in Requests : /\ client'.out[s] = client.out[s] \ {r}
                                  /\ client'.oldOut[s] = client.oldOut[s] \ {r}
<1>1. PICK r \in client.out[s] :
          client' = [client EXCEPT !.out[s] = @ \ {r}, !.oldOut[s] = @ \ {r}]
  BY DEF Lose
<1>2. r \in Requests
  BY DEF Client
<1> QED
  BY <1>1, <1>2 DEF Client, SameWay

LEMMA LoseKeeps ==
    ASSUME IInv, NEW s \in Servers, Lose(s)
    PROVE  IInv'
<1>1. client \in Client /\ Addressed(client) /\ UNCHANGED <<batch, up, prompt>>
  BY DEF IInv, Sound, Lose
<1>2. /\ client' \in Client
      /\ client'.state = client.state /\ client'.cut = client.cut
      /\ client'.open = client.open /\ client'.beating = client.beating
      /\ client'.in = client.in /\ client'.oldIn = client.oldIn
      /\ \A t \in Servers \ {s} : SameWay(client, client', t)
      /\ \E r \in Requests : /\ client'.out[s] = client.out[s] \ {r}
                             /\ client'.oldOut[s] = client.oldOut[s] \ {r}
  BY <1>1, LoseFields
<1>3. Fits(client', s)
  BY <1>1, <1>2 DEF Addressed, Fits
<1>4. Addressed(client')
  BY <1>1, <1>2, <1>3, StillFits DEF Addressed
<1> QED
  BY <1>1, <1>2, <1>4, UnderWayKeeps

LEMMA GameServerDiesKeeps == IInv /\ GameServerDies => IInv'
<1> SUFFICES ASSUME IInv, GameServerDies
             PROVE  IInv'
  OBVIOUS
<1>1. up' \in [Servers -> BOOLEAN]
  BY DEF IInv, GameServerDies
<1>2. UNCHANGED <<client, batch, prompt>>
  BY DEF GameServerDies
<1> QED
  BY <1>1, <1>2 DEF IInv

LEMMA NextKeeps == IInv /\ [Next]_vars => IInv'
<1> SUFFICES ASSUME IInv, [Next]_vars
             PROVE  IInv'
  OBVIOUS
<1>1. CASE Tick
  BY <1>1, TickKeeps
<1>2. ASSUME NEW s \in Servers, SendHeartbeat(s)
      PROVE  IInv'
  BY <1>2, SendHeartbeatKeeps
<1>3. ASSUME NEW s \in Servers, Receive(s)
      PROVE  IInv'
  BY <1>3, ReceiveKeeps
<1>4. ASSUME NEW s \in Servers, HandlePacket(s)
      PROVE  IInv'
  BY <1>4, ServersAre, HandleAuthKeeps, HandleGameKeeps
<1>5. CASE SelectCharacter
  BY <1>5, SelectCharacterKeeps
<1>6. CASE Calls
  BY <1>6, CallsKeep
<1>7. ASSUME NEW s \in Servers, Answer(s)
      PROVE  IInv'
  BY <1>7, AnswerKeeps
<1>8. ASSUME NEW s \in Servers, Lose(s)
      PROVE  IInv'
  BY <1>8, LoseKeeps
<1>9. CASE GameServerDies
  BY <1>9, GameServerDiesKeeps
<1>10. CASE UNCHANGED vars
  BY <1>10 DEF vars, IInv
<1> QED
  BY <1>1, <1>2, <1>3, <1>4, <1>5, <1>6, <1>7, <1>8, <1>9, <1>10
     DEF Next, Timers, Arrivals

LEMMA Inductive == Spec => []IInv
<1> QED
  BY InitIInv, NextKeeps, PTL DEF Spec

\* The client has the type the code gives it, whatever the faults.
THEOREM TypeCorrect == Spec => []TypeOK
<1>1. IInv => TypeOK
  BY DEF IInv, Sound, BatchOfOpenSocket, TypeOK
<1> QED
  BY <1>1, Inductive, PTL

\* ConnectGame, ConnectAuth and TickSockets never leave both sockets open, even
\* when packets are handled of a batch that closed its own socket, and whatever
\* Blueprint calls between two handlers.
THEOREM OneServer == Spec => []OneServerAtATime
<1>1. IInv => OneServerAtATime
  BY DEF IInv, Sound, OneServerAtATime
<1> QED
  BY <1>1, Inductive, PTL

\* No heartbeat timer outlives its socket, nor is one started for a socket that a
\* packet of the same batch has closed, whatever Blueprint calls between two handlers.
THEOREM TimersHaveSockets == Spec => []BeatsOnOpenSocket
<1>1. IInv => BeatsOnOpenSocket
  BY DEF IInv, Sound, Beats, BeatsOnOpenSocket
<1> QED
  BY <1>1, Inductive, PTL

\* Unless Blueprint has closed a socket or set the state since the client last
\* connected, its state tells which socket is open, through every duplicate, late or
\* lost answer, refusal, time-out and call of ConnectAuth and ConnectGame.
THEOREM StateTellsSockets == Spec => []StateMatchesSockets
<1>1. IInv => StateMatchesSockets
  BY DEF IInv, Sound, StateMatchesSockets
<1> QED
  BY <1>1, Inductive, PTL

-----------------------------------------------------------------------------
(* A prompt server is kept                                                 *)

\* Where a datagram to or from s may be; and where it is if it comes before the second
\* is over.
Pending(c, b, s) == c.out[s] \cup c.in[s] \cup b[s]
Soon(c, b, s) == c.oldOut[s] \cup c.oldIn[s] \cup b[s]

\* The timer of s has not run out since the last sign of life, or the next one is
\* somewhere on its way, and comes soon if a second's end has passed it by.
Heard(c, b, s) ==
    \/ c.age[s] + c.due[s] <= Interval
    \/ c.age[s] <= Interval /\ "heartbeat" \in Pending(c, b, s)
    \/ c.age[s] <= Interval + 1 /\ "heartbeat" \in Soon(c, b, s)

\* What holds of client c, batch b and servers u if the environment is prompt.
Prompted(c, b, u) ==
    /\ ~c.cut
    /\ \A s \in Servers : u[s] /\ c.beating[s] => Heard(c, b, s)

PInv ==
    /\ up["Auth"]
    /\ prompt => Prompted(client, batch, up)

\* What a step keeps of the two connections.
AuthKept == client.state = "AUTH" => client'.state # "CONNECTING_AUTH"
GameKept == client.beating["Game"] /\ client'.state = "CONNECTING_GAME" => ~up'["Game"]

LEMMA MayNot ==
    ASSUME prompt
    PROVE  ~May("late") /\ ~May("blueprint")
BY DEF May

\* The game connection is kept by what leaves its state alone: a client that retries
\* has no timer.
LEMMA GameKeptAlike ==
    ASSUME IInv, ~client.cut,
           client'.state = "CONNECTING_GAME" => client.state = "CONNECTING_GAME"
    PROVE  GameKept
BY ServersAre DEF IInv, Sound, Beats, GameKept

\* Datagrams may move and new ones may be sent, as long as no sign of life is lost.
LEMMA HeardAlike ==
    ASSUME NEW c, NEW b, NEW s, Heard(c, b, s), NEW d, NEW e,
           d.due[s] = c.due[s], d.age[s] = c.age[s],
           "heartbeat" \in Pending(c, b, s) => "heartbeat" \in Pending(d, e, s),
           "heartbeat" \in Soon(c, b, s) => "heartbeat" \in Soon(d, e, s)
    PROVE  Heard(d, e, s)
BY DEF Heard

\* A sign of life that has just arrived sets everything right.
LEMMA HeardNow ==
    ASSUME NEW c \in Client, NEW b, NEW s \in Servers, c.age[s] = 0
    PROVE  Heard(c, b, s)
<1>1. c.due[s] \in 0 .. Interval /\ Interval \in Nat
  BY ClientConnectionAssumption DEF Client
<1> QED
  BY <1>1 DEF Heard

LEMMA InitPInv == Init => PInv
<1> SUFFICES ASSUME Init
             PROVE  PInv
  OBVIOUS
<1>1. client = ConnectAuth(NewClient) /\ up["Auth"]
  BY ServersAre DEF Init, NewClient
<1>2. ~client.cut /\ ~client.beating["Auth"] /\ ~client.beating["Game"]
  BY <1>1, NewClientFields, ConnectAuthFields, ServersAre
<1> QED
  BY <1>1, <1>2, ServersAre DEF PInv, Prompted

LEMMA ReceivePrompted ==
    ASSUME IInv, PInv, prompt, NEW s \in Servers, Receive(s)
    PROVE  Prompted(client', batch', up') /\ AuthKept /\ GameKept
<1>1. client \in Client /\ batch \in [Servers -> SUBSET Replies] /\ Addressed(client)
      /\ Prompted(client, batch, up) /\ \A t \in Servers : batch[t] = {}
  BY DEF IInv, Sound, BatchOfOpenSocket, PInv, Receive, Idle
<1>2. client' = [client EXCEPT !.in[s] = {}, !.oldIn[s] = {}]
      /\ batch' = [batch EXCEPT ![s] = client.in[s]] /\ up' = up
  BY DEF Receive
<1>3. /\ client'.state = client.state /\ client'.cut = client.cut
      /\ client'.beating = client.beating /\ client'.due = client.due
      /\ client'.age = client.age
      /\ client'.out = client.out /\ client'.oldOut = client.oldOut
      /\ client'.in[s] = {} /\ client'.oldIn[s] = {}
      /\ \A t \in Servers \ {s} : SameWay(client, client', t) /\ batch'[t] = batch[t]
      /\ batch'[s] = client.in[s]
  BY <1>1, <1>2 DEF Client, SameWay
<1>4. \A t \in Servers : /\ Pending(client, batch, t) \subseteq Pending(client', batch', t)
                         /\ Soon(client, batch, t) \subseteq Soon(client', batch', t)
  <2>1. ASSUME NEW t \in Servers \ {s}
        PROVE  /\ Pending(client, batch, t) = Pending(client', batch', t)
               /\ Soon(client, batch, t) = Soon(client', batch', t)
    BY <1>3 DEF SameWay, Pending, Soon
  <2>2. client.oldIn[s] \subseteq client.in[s]
    BY <1>1 DEF Addressed, Fits
  <2>3. /\ Pending(client, batch, s) \subseteq Pending(client', batch', s)
        /\ Soon(client, batch, s) \subseteq Soon(client', batch', s)
    BY <1>1, <1>3, <2>2 DEF Pending, Soon
  <2> QED
    BY <2>1, <2>3
<1>5. ASSUME NEW t \in Servers, up'[t], client'.beating[t]
      PROVE  Heard(client', batch', t)
  <2>1. Heard(client, batch, t)
    BY <1>1, <1>2, <1>3, <1>5 DEF Prompted
  <2>2. /\ "heartbeat" \in Pending(client, batch, t) => "heartbeat" \in Pending(client', batch', t)
        /\ "heartbeat" \in Soon(client, batch, t) => "heartbeat" \in Soon(client', batch', t)
    BY <1>4
  <2> QED
    BY <1>3, <2>1, <2>2, HeardAlike
<1>6. GameKept
  BY <1>1, <1>3, GameKeptAlike DEF Prompted
<1> QED
  BY <1>1, <1>3, <1>5, <1>6 DEF AuthKept, Prompted

LEMMA SelectPrompted ==
    ASSUME IInv, PInv, prompt, SelectCharacter
    PROVE  Prompted(client', batch', up') /\ AuthKept /\ GameKept
<1>1. client \in Client /\ Prompted(client, batch, up)
  BY DEF IInv, Sound, PInv
<1>2. "Auth" \in Servers /\ "select" \in Requests
  BY DEF Servers, Requests
<1>3. client' = Send(client, "Auth", "select") /\ batch' = batch /\ up' = up
  BY DEF SelectCharacter
<1>4. /\ client'.state = client.state /\ client'.cut = client.cut
      /\ client'.beating = client.beating /\ client'.due = client.due
      /\ client'.age = client.age /\ SameAt(client, client', "Game")
      /\ client' = client \/ Sent(client, client', "Auth", "select")
  BY <1>1, <1>2, <1>3, ServersAre, SendFields DEF SameRest
<1>5. \A t \in Servers : /\ Pending(client, batch, t) \subseteq Pending(client', batch', t)
                         /\ Soon(client, batch, t) \subseteq Soon(client', batch', t)
  BY <1>3, <1>4, ServersAre DEF Pending, Soon, SameAt, SameWay, Sent
<1>6. ASSUME NEW t \in Servers, up'[t], client'.beating[t]
      PROVE  Heard(client', batch', t)
  <2>1. Heard(client, batch, t)
    BY <1>1, <1>3, <1>4, <1>6 DEF Prompted
  <2>2. /\ "heartbeat" \in Pending(client, batch, t) => "heartbeat" \in Pending(client', batch', t)
        /\ "heartbeat" \in Soon(client, batch, t) => "heartbeat" \in Soon(client', batch', t)
    BY <1>5
  <2> QED
    BY <1>4, <2>1, <2>2, HeardAlike
<1>7. GameKept
  BY <1>1, <1>4, GameKeptAlike DEF Prompted
<1> QED
  BY <1>1, <1>4, <1>6, <1>7 DEF AuthKept, Prompted

\* A heartbeat goes out before its timer can run past the timeout; only that of a
\* dead game server finds that it has.
LEMMA SendHeartbeatPrompted ==
    ASSUME Interval + 1 <= Timeout, IInv, PInv, prompt, NEW s \in Servers, SendHeartbeat(s)
    PROVE  Prompted(client', batch', up') /\ AuthKept /\ GameKept
<1> DEFINE again == [client EXCEPT !.due[s] = Interval]
           sent == Send(again, s, "heartbeat")
<1>1. /\ client \in Client /\ Prompted(client, batch, up) /\ up["Auth"]
      /\ client.beating[s] /\ client.open[s] /\ client.due[s] = 0
  BY DEF IInv, Sound, Beats, PInv, SendHeartbeat
<1>2. client' = CheckTimeout(sent, s) /\ batch' = batch /\ up' = up
  BY <1>1 DEF SendHeartbeat
<1>3. /\ again \in Client /\ again.state = client.state /\ again.cut = client.cut
      /\ again.open = client.open /\ SameWays(client, again)
      /\ again.beating = client.beating /\ again.age = client.age
      /\ \A t \in Servers \ {s} : again.due[t] = client.due[t]
  BY <1>1, RearmedFields
<1> HIDE DEF again
<1>4. "heartbeat" \in Requests
  BY DEF Requests
<1>5. /\ sent \in Client /\ sent.cut = client.cut /\ sent.state = client.state
      /\ \A t \in Servers \ {s} : SameAt(again, sent, t)
      /\ sent.beating = client.beating /\ sent.age = client.age
      /\ Sent(again, sent, s, "heartbeat")
  BY <1>1, <1>3, <1>4, SendFields DEF SameRest
<1> HIDE DEF sent
<1>6. /\ "heartbeat" \in Pending(sent, batch, s)
      /\ Soon(client, batch, s) = Soon(sent, batch, s)
  BY <1>3, <1>5 DEF Sent, SameWays, Pending, Soon
<1>7. \A t \in Servers \ {s} :
          /\ Pending(sent, batch, t) = Pending(client, batch, t)
          /\ Soon(sent, batch, t) = Soon(client, batch, t)
          /\ sent.due[t] = client.due[t] /\ sent.age[t] = client.age[t]
  BY <1>3, <1>5 DEF SameAt, SameWay, SameWays, Pending, Soon
<1>8. \A t \in Servers : client.age[t] \in Nat /\ client.due[t] \in Nat
      /\ Timeout \in Nat /\ Interval \in Nat
  BY <1>1, ClientConnectionAssumption DEF Client
<1>9. \A t \in Servers : up[t] /\ sent.beating[t] => Heard(sent, batch, t)
  <2>1. ASSUME NEW t \in Servers \ {s}, up[t], sent.beating[t]
        PROVE  Heard(sent, batch, t)
    <3>1. Heard(client, batch, t)
      BY <1>1, <1>5, <2>1 DEF Prompted
    <3> QED
      BY <1>7, <3>1, HeardAlike
  <2>2. ASSUME up[s]
        PROVE  Heard(sent, batch, s)
    <3>1. Heard(client, batch, s)
      BY <1>1, <2>2 DEF Prompted
    <3> QED
      BY <1>1, <1>5, <1>6, <1>8, <3>1 DEF Heard
  <2> QED
    BY <2>1, <2>2
<1>10. Prompted(sent, batch, up)
  BY <1>1, <1>5, <1>9 DEF Prompted
<1>11. CASE sent.age[s] <= Timeout
  <2>1. client' = sent
    BY <1>2, <1>5, <1>11, CheckTimeoutFields
  <2>2. GameKept
    BY <1>1, <1>5, <2>1, GameKeptAlike DEF Prompted
  <2> QED
    BY <1>2, <1>5, <1>10, <2>1, <2>2 DEF AuthKept
<1>12. CASE sent.age[s] > Timeout
  <2>1. ~up[s]
    BY <1>1, <1>5, <1>8, <1>12 DEF Prompted, Heard
  <2>2. s = "Game"
    BY <1>1, <2>1, ServersAre
  <2>3. /\ SameRest(sent, client') /\ client'.state = "CONNECTING_GAME"
        /\ SameAt(sent, client', "Auth")
    BY <1>2, <1>5, <1>12, <2>2, ServersAre, CheckTimeoutFields
  <2>4. ~client'.cut
    BY <1>1, <1>5, <2>3 DEF SameRest, Prompted
  <2>5. client'.beating["Auth"] => Heard(client', batch', "Auth")
    <3>1. client'.beating["Auth"] => Heard(sent, batch, "Auth")
      BY <1>1, <1>10, <2>3, ServersAre DEF Prompted, SameAt
    <3>2. /\ Pending(sent, batch, "Auth") = Pending(client', batch', "Auth")
          /\ Soon(sent, batch, "Auth") = Soon(client', batch', "Auth")
          /\ client'.due["Auth"] = sent.due["Auth"] /\ client'.age["Auth"] = sent.age["Auth"]
      BY <1>2, <2>3 DEF Pending, Soon, SameAt, SameWay
    <3> QED
      BY <3>1, <3>2, HeardAlike
  <2> QED
    BY <1>2, <2>1, <2>2, <2>3, <2>4, <2>5, ServersAre DEF Prompted, AuthKept, GameKept
<1>13. sent.age[s] \in Nat
  BY <1>5, <1>8
<1> QED
  BY <1>8, <1>11, <1>12, <1>13

\* Before a second is over, everything that was under way when it began has come.
LEMMA AgedPrompted ==
    ASSUME IInv, PInv, prompt, Tick
    PROVE  LET c == Aged(client)
           IN  /\ c \in Client /\ Sound(c) /\ c.state = client.state /\ ~c.cut
               /\ \A s \in Servers : up[s] /\ c.beating[s] =>
                     Heard(c, batch, s) /\ c.age[s] <= Interval + 1
<1> DEFINE c == Aged(client)
<1>1. /\ Sound(client) /\ client \in Client /\ Addressed(client)
      /\ Prompted(client, batch, up)
  BY DEF IInv, Sound, PInv
<1>2. \A s \in Servers : client.beating[s] => client.due[s] > 0
  BY DEF Tick
<1>3. \A s \in Servers : Soon(client, batch, s) = {} /\ batch[s] = {}
  BY MayNot DEF Tick, Idle, Soon
<1>4. /\ c \in Client /\ c.state = client.state /\ c.cut = client.cut
      /\ c.open = client.open /\ c.out = client.out /\ c.in = client.in
      /\ c.oldOut = client.out /\ c.oldIn = client.in
      /\ c.beating = client.beating
      /\ \A s \in Servers : c.age[s] <= client.age[s] + 1
      /\ \A s \in Servers : client.beating[s] => c.due[s] = client.due[s] - 1
  BY <1>1, <1>2, AgedFields, MayNot
<1> HIDE DEF c
<1>5. Addressed(c)
  BY <1>1, <1>4 DEF Addressed, Fits
<1>6. Sound(c)
  BY <1>1, <1>4, <1>5, SoundAlike
<1>7. ASSUME NEW s \in Servers, up[s], c.beating[s]
      PROVE  Heard(c, batch, s) /\ c.age[s] <= Interval + 1
  <2>1. \/ client.age[s] + client.due[s] <= Interval
        \/ client.age[s] <= Interval /\ "heartbeat" \in Pending(client, batch, s)
    BY <1>1, <1>3, <1>4, <1>7 DEF Prompted, Heard
  <2>2. /\ client.age[s] \in Nat /\ client.due[s] \in Nat /\ client.due[s] > 0
        /\ c.age[s] \in Nat /\ c.due[s] = client.due[s] - 1
        /\ c.age[s] <= client.age[s] + 1 /\ Interval \in Nat
    BY <1>1, <1>2, <1>4, <1>7, ClientConnectionAssumption DEF Client
  <2>3. Pending(client, batch, s) = Soon(c, batch, s)
    BY <1>4 DEF Pending, Soon
  <2> QED
    BY <2>1, <2>2, <2>3 DEF Heard
<1> QED
  BY <1>1, <1>4, <1>6, <1>7 DEF c, Prompted

LEMMA TickPrompted ==
    ASSUME Interval + 1 <= Timeout, IInv, PInv, prompt, Tick
    PROVE  Prompted(client', batch', up') /\ AuthKept /\ GameKept
<1> DEFINE c == Aged(client)
<1>1. /\ c \in Client /\ Sound(c) /\ c.state = client.state /\ ~c.cut
      /\ \A s \in Servers : up[s] /\ c.beating[s] =>
            Heard(c, batch, s) /\ c.age[s] <= Interval + 1
  BY AgedPrompted
<1>2. (client' = TickSockets(c) \/ client' = c) /\ batch' = batch /\ up' = up
  BY DEF Tick
<1>3. up["Auth"] /\ ~client.cut
  BY DEF PInv, Prompted
<1> HIDE DEF c
<1>4. \A s \in Servers : c.beating[s] => c.open[s]
  BY <1>1 DEF Sound, Beats
<1>5. \A s \in Servers : c.age[s] \in Nat /\ Timeout \in Nat /\ Interval \in Nat
  BY <1>1, ClientConnectionAssumption DEF Client
  \* Anything that starts no timer and leaves its seconds alone keeps what was heard.
<1>6. ASSUME NEW d, ~d.cut,
             \A s \in Servers : up[s] /\ d.beating[s] =>
                 c.beating[s] /\ d.age[s] = c.age[s] /\ d.due[s] = c.due[s]
                 /\ SameWay(c, d, s)
      PROVE  Prompted(d, batch, up)
  <2>1. \A s \in Servers : up[s] /\ d.beating[s] => Heard(d, batch, s)
    BY <1>1, <1>6 DEF Heard, SameWay, Pending, Soon
  <2> QED
    BY <1>6, <2>1 DEF Prompted
<1>7. CASE client' = c
  <2>1. Prompted(client', batch, up)
    BY <1>1, <1>6, <1>7 DEF SameWay
  <2> QED
    BY <1>1, <1>2, <1>3, <1>7, <2>1, GameKeptAlike DEF AuthKept
<1>8. CASE c.state = "CONNECTING_AUTH" /\ client' = TickSockets(c)
  <2>1. CASE c.open["Auth"]
    <3>1. client' = c
      BY <1>8, <2>1 DEF TickSockets
    <3> QED
      BY <1>7, <3>1
  <2>2. CASE ~c.open["Auth"]
    <3> DEFINE d == Disconnect(c, "Game")
    <3>1. client' = ConnectAuth(d)
      BY <1>8, <2>2 DEF TickSockets
    <3>2. /\ d \in Client /\ SameAt(c, d, "Auth") /\ ~d.open["Game"]
          /\ d.beating["Game"] => c.beating["Game"] /\ ~c.open["Game"]
      BY <1>1, ServersAre, DisconnectFields
    <3> HIDE DEF d
    <3>3. /\ client'.state = "CONNECTING_AUTH" /\ ~client'.cut
          /\ client'.beating["Auth"] = d.beating["Auth"]
          /\ client'.beating["Game"] => d.beating["Game"] /\ ~d.open["Game"]
      BY <3>1, <3>2, ConnectAuthFields
    <3>4. ~client'.beating["Auth"] /\ ~client'.beating["Game"]
      BY <1>4, <2>2, <3>2, <3>3, ServersAre DEF SameAt
    <3>5. Prompted(client', batch, up)
      BY <3>3, <3>4, ServersAre DEF Prompted
    <3> QED
      BY <1>1, <1>2, <1>8, <3>3, <3>5 DEF AuthKept, GameKept
  <2> QED
    BY <2>1, <2>2
<1>9. CASE c.state = "AUTH" /\ client' = TickSockets(c)
  <2>1. c.beating["Auth"]
    BY <1>1, <1>9 DEF Sound
  <2>2. c.age["Auth"] <= Timeout
    BY <1>1, <1>3, <1>5, <2>1, ServersAre
  <2>3. client' = c
    BY <1>1, <1>9, <2>2, ServersAre, CheckTimeoutFields DEF TickSockets
  <2> QED
    BY <1>7, <2>3
<1>10. CASE c.state = "CONNECTING_GAME" /\ client' = TickSockets(c)
  <2>0. c.retries \in 0 .. MaxRetries /\ MaxRetries \in Nat
    BY <1>1, ClientConnectionAssumption DEF Client
  <2>1. GameKept
    BY <1>1, <1>3, <1>10, GameKeptAlike
  <2>2. CASE MayRetry(c)
    <3> DEFINE d == [c EXCEPT !.retries = @ + 1]
    <3>1. c.retries + 1 \in 0 .. MaxRetries
      BY <2>0, <2>2 DEF MayRetry
    <3>2. /\ d \in Client /\ d.state = c.state /\ d.cut = c.cut /\ d.open = c.open
          /\ d.beating = c.beating /\ d.due = c.due /\ d.age = c.age /\ SameWays(c, d)
      BY <1>1, <3>1, RetriesFields
    <3>3. client' = d \/ client' = ConnectGame(d)
      BY <1>10, <2>2 DEF TickSockets
    <3>4. ~c.open["Game"]
      BY <1>1, <1>10 DEF Sound
    <3> HIDE DEF d
    <3>5. CASE client' = d
      <4>1. Prompted(client', batch, up)
        BY <1>1, <1>6, <3>2, <3>5 DEF SameWay, SameWays
      <4> QED
        BY <1>1, <1>2, <1>10, <2>1, <4>1 DEF AuthKept
    <3>6. CASE client' = ConnectGame(d)
      <4>1. /\ ~client'.cut
            /\ client'.beating["Game"] = d.beating["Game"]
            /\ client'.beating["Auth"] => d.beating["Auth"] /\ ~d.open["Auth"]
        BY <3>2, <3>6, ConnectGameFields
      <4>2. \A s \in Servers : ~client'.beating[s]
        BY <1>4, <3>2, <3>4, <4>1, ServersAre
      <4>3. Prompted(client', batch, up)
        BY <4>1, <4>2 DEF Prompted
      <4> QED
        BY <1>1, <1>2, <1>10, <2>1, <4>3 DEF AuthKept
    <3> QED
      BY <3>3, <3>5, <3>6
  <2>3. CASE ~MayRetry(c)
    <3> DEFINE d == [c EXCEPT !.retries = 0]
    <3>1. /\ d \in Client /\ d.cut = c.cut /\ SameWays(c, d)
          /\ d.beating = c.beating /\ d.due = c.due /\ d.age = c.age
      BY <1>1, <2>0, RetriesFields
    <3>2. client' = SetClientState(d, "CONNECTING_AUTH") /\ "CONNECTING_AUTH" \in States
      BY <1>10, <2>3 DEF TickSockets, States
    <3> HIDE DEF d
    <3>3. /\ client'.cut = d.cut /\ SameWays(d, client')
          /\ client'.beating = d.beating /\ client'.due = d.due /\ client'.age = d.age
      BY <3>1, <3>2, SetClientStateFields DEF SameRest
    <3>4. Prompted(client', batch, up)
      BY <1>1, <1>6, <3>1, <3>3 DEF SameWay, SameWays
    <3> QED
      BY <1>1, <1>2, <1>10, <2>1, <3>4 DEF AuthKept
  <2> QED
    BY <2>2, <2>3
<1>11. CASE c.state = "GAME" /\ client' = TickSockets(c)
  <2>0. client' = CheckTimeout(c, "Game")
    BY <1>11 DEF TickSockets
  <2>1. CASE c.age["Game"] <= Timeout
    <3>1. client' = c
      BY <1>1, <2>0, <2>1, ServersAre, CheckTimeoutFields
    <3> QED
      BY <1>7, <3>1
  <2>2. CASE c.age["Game"] > Timeout
    <3>1. ~(up["Game"] /\ c.beating["Game"])
      BY <1>1, <1>5, <2>2, ServersAre
    <3>2. /\ SameRest(c, client') /\ client'.state = "CONNECTING_GAME"
          /\ ~client'.beating["Game"] /\ SameAt(c, client', "Auth")
      BY <1>1, <2>0, <2>2, ServersAre, CheckTimeoutFields
    <3>3. \A s \in Servers : client'.beating[s] =>
              c.beating[s] /\ client'.age[s] = c.age[s] /\ client'.due[s] = c.due[s]
              /\ SameWay(c, client', s)
      BY <3>2, ServersAre DEF SameAt
    <3>4. Prompted(client', batch, up)
      BY <1>1, <1>6, <3>2, <3>3 DEF SameRest
    <3>5. client.beating["Game"] => c.beating["Game"]
      BY DEF c, Aged
    <3>6. GameKept
      BY <1>2, <3>1, <3>5 DEF GameKept
    <3> QED
      BY <1>1, <1>2, <1>11, <3>4, <3>6 DEF AuthKept
  <2> QED
    BY <1>5, <2>1, <2>2, ServersAre
<1>12. CASE c.state = "DISCONNECTED" /\ client' = TickSockets(c)
  <2>1. client' = c
    BY <1>12 DEF TickSockets
  <2> QED
    BY <1>7, <2>1
<1> QED
  BY <1>1, <1>2, <1>7, <1>8, <1>9, <1>10, <1>11, <1>12 DEF Client, States

\* A packet of the auth server: its heartbeat sets the age back.
LEMMA HandleAuthPrompted ==
    ASSUME IInv, PInv, prompt, HandlePacket("Auth")
    PROVE  Prompted(client', batch', up') /\ AuthKept /\ GameKept
<1>1. PICK p \in batch["Auth"] :
          /\ client' = AfterAuthPacket(client, p)
          /\ batch' = [batch EXCEPT !["Auth"] = @ \ {p}]
          /\ up' = up
  BY ServersAre DEF HandlePacket
<1>2. /\ Sound(client) /\ client \in Client /\ Beats(client) /\ p \in FromAuth
      /\ batch \in [Servers -> SUBSET Replies]
      /\ Prompted(client, batch, up)
  BY DEF IInv, BatchOfOpenSocket, Sound, PInv
<1>3. batch'["Game"] = batch["Game"]
  BY <1>1, <1>2, ServersAre
<1>4. CASE p = "select_ok"
  <2>1. client' = ConnectGame(client)
    BY <1>1, <1>4 DEF AfterAuthPacket
  <2>2. /\ client'.state = "GAME" /\ ~client'.cut
        /\ client'.due["Game"] = client.due["Game"] /\ client'.age = client.age
        /\ client'.beating["Game"] = client.beating["Game"]
        /\ Sent(client, client', "Game", "connect")
        /\ client'.beating["Auth"] => client.beating["Auth"] /\ ~client.open["Auth"]
    BY <1>2, <2>1, ConnectGameFields
  <2>3. ~client'.beating["Auth"]
    BY <1>2, <2>2, ServersAre DEF Beats
  <2>4. /\ Pending(client, batch, "Game") \subseteq Pending(client', batch', "Game")
        /\ Soon(client, batch, "Game") = Soon(client', batch', "Game")
    BY <1>3, <2>2 DEF Pending, Soon, Sent
  <2>5. up["Game"] /\ client'.beating["Game"] => Heard(client', batch', "Game")
    <3>1. SUFFICES ASSUME up["Game"], client'.beating["Game"]
                   PROVE  Heard(client', batch', "Game")
      OBVIOUS
    <3>2. Heard(client, batch, "Game")
      BY <1>2, <2>2, <3>1, ServersAre DEF Prompted
    <3> QED
      BY <2>2, <2>4, <3>2, HeardAlike
  <2> QED
    BY <1>1, <2>2, <2>3, <2>5, ServersAre DEF Prompted, AuthKept, GameKept
<1>5. CASE p = "heartbeat"
  <2>1. /\ client' \in Client /\ client'.cut = client.cut
        /\ client'.state = IF client.state = "CONNECTING_AUTH" THEN "AUTH" ELSE client.state
        /\ SameAt(client, client', "Game") /\ client'.age["Auth"] = 0
    BY <1>1, <1>2, <1>5, AuthHeartbeatFields
  <2>2. Heard(client', batch', "Auth")
    BY <2>1, ServersAre, HeardNow
  <2>3. /\ Pending(client', batch', "Game") = Pending(client, batch, "Game")
        /\ Soon(client', batch', "Game") = Soon(client, batch, "Game")
    BY <1>3, <2>1 DEF Pending, Soon, SameAt, SameWay
  <2>4. up["Game"] /\ client'.beating["Game"] => Heard(client', batch', "Game")
    BY <1>2, <2>1, <2>3, ServersAre DEF Prompted, Heard, SameAt
  <2>5. GameKept
    BY <1>2, <2>1, GameKeptAlike DEF Prompted
  <2> QED
    BY <1>1, <1>2, <2>1, <2>2, <2>4, <2>5, ServersAre DEF Prompted, AuthKept
<1> QED
  BY <1>2, <1>4, <1>5 DEF FromAuth

\* A packet of the game server: its heartbeat, or an answer that starts the timer,
\* sets the age back.
LEMMA HandleGamePrompted ==
    ASSUME IInv, PInv, prompt, HandlePacket("Game")
    PROVE  Prompted(client', batch', up') /\ AuthKept /\ GameKept
<1>1. PICK p \in batch["Game"] :
          /\ client' = AfterGamePacket(client, p)
          /\ batch' = [batch EXCEPT !["Game"] = @ \ {p}]
          /\ up' = up
  BY ServersAre DEF HandlePacket
<1>2. /\ Sound(client) /\ client \in Client /\ p \in FromGame
      /\ batch \in [Servers -> SUBSET Replies]
      /\ Prompted(client, batch, up) /\ client.open["Game"]
  BY DEF IInv, BatchOfOpenSocket, Sound, PInv
<1>3. batch'["Game"] = batch["Game"] \ {p}
  BY <1>1, <1>2, ServersAre
  \* The auth connection is closed, so nothing is lost there.
<1>4. client.state # "AUTH" /\ ~client.beating["Auth"]
  BY <1>2, ServersAre DEF Sound, Beats, Prompted
<1>5. CASE p = "connect_ok" /\ client.state = "GAME"
  <2>1. /\ client' \in Client /\ client'.cut = client.cut /\ client'.state = client.state
        /\ SameAt(client, client', "Auth") /\ client'.age["Game"] = 0
    BY <1>1, <1>2, <1>5, ConnectOkFields
  <2>2. Heard(client', batch', "Game") /\ ~client'.beating["Auth"]
    BY <1>4, <2>1, ServersAre, HeardNow DEF SameAt
  <2> QED
    BY <1>1, <1>2, <1>4, <1>5, <2>1, <2>2, ServersAre DEF Prompted, AuthKept, GameKept
<1>6. CASE p = "connect_fail" \/ (p = "connect_ok" /\ client.state # "GAME")
  <2>1. /\ client'.cut = client.cut /\ SameWay(client, client', "Game")
        /\ client'.beating["Auth"] = client.beating["Auth"]
        /\ client'.beating["Game"] = client.beating["Game"]
        /\ client'.due["Game"] = client.due["Game"]
        /\ client'.age["Game"] = client.age["Game"]
        /\ client'.state = client.state \/ client'.state = "CONNECTING_AUTH"
    <3>1. CASE p = "connect_fail"
      BY <1>1, <1>2, <3>1, ConnectFailFields DEF SameWay, SameWays
    <3>2. CASE p = "connect_ok" /\ client.state # "GAME"
      BY <1>1, <1>2, <3>2, ConnectOkFields DEF SameAt
    <3> QED
      BY <1>6, <3>1, <3>2
  <2>2. /\ "heartbeat" \in Pending(client, batch, "Game")
              => "heartbeat" \in Pending(client', batch', "Game")
        /\ "heartbeat" \in Soon(client, batch, "Game")
              => "heartbeat" \in Soon(client', batch', "Game")
    BY <1>3, <1>6, <2>1 DEF Pending, Soon, SameWay
  <2>3. up["Game"] /\ client'.beating["Game"] => Heard(client', batch', "Game")
    <3>1. SUFFICES ASSUME up["Game"], client'.beating["Game"]
                   PROVE  Heard(client', batch', "Game")
      OBVIOUS
    <3>2. Heard(client, batch, "Game")
      BY <1>2, <2>1, <3>1, ServersAre DEF Prompted
    <3> QED
      BY <2>1, <2>2, <3>2, HeardAlike
  <2>4. GameKept
    BY <1>2, <2>1, GameKeptAlike DEF Prompted
  <2> QED
    BY <1>1, <1>2, <1>4, <2>1, <2>3, <2>4, ServersAre DEF Prompted, AuthKept
<1>7. CASE p = "heartbeat"
  <2>1. /\ client' \in Client /\ client'.cut = client.cut
        /\ client'.state = IF client.state = "CONNECTING_GAME" THEN "GAME" ELSE client.state
        /\ SameAt(client, client', "Auth") /\ client'.age["Game"] = 0
    BY <1>1, <1>2, <1>7, GameHeartbeatFields
  <2>2. Heard(client', batch', "Game") /\ ~client'.beating["Auth"]
    BY <1>4, <2>1, ServersAre, HeardNow DEF SameAt
  <2> QED
    BY <1>1, <1>2, <1>4, <2>1, <2>2, ServersAre DEF Prompted, AuthKept, GameKept
<1> QED
  BY <1>2, <1>5, <1>6, <1>7 DEF FromGame

\* A datagram that is answered hands its sign of life to the answer, and its place
\* in time.
LEMMA AnswerPrompted ==
    ASSUME IInv, PInv, prompt, NEW s \in Servers, Answer(s)
    PROVE  Prompted(client', batch', up') /\ AuthKept /\ GameKept
<1>1. client \in Client /\ Addressed(client) /\ Prompted(client, batch, up)
      /\ UNCHANGED <<batch, up, prompt>>
  BY DEF IInv, Sound, PInv, Answer
<1>2. PICK r \in RequestsTo(s), p \in RepliesFrom(s), rest \in SUBSET client.out[s] :
          Answered(s, r, p, rest)
  BY <1>1, AnswerFields
<1>3. client.oldOut[s] \subseteq client.out[s]
  BY <1>1 DEF Addressed, Fits
<1>4. \A t \in Servers :
          /\ "heartbeat" \in Pending(client, batch, t) => "heartbeat" \in Pending(client', batch', t)
          /\ "heartbeat" \in Soon(client, batch, t) => "heartbeat" \in Soon(client', batch', t)
  <2>1. ASSUME NEW t \in Servers \ {s}
        PROVE  /\ Pending(client, batch, t) = Pending(client', batch', t)
               /\ Soon(client, batch, t) = Soon(client', batch', t)
    BY <1>1, <1>2 DEF SameWay, Pending, Soon, Answered
  <2>2. "heartbeat" \in Pending(client, batch, s) => "heartbeat" \in Pending(client', batch', s)
    BY <1>1, <1>2 DEF Pending, Answered
  <2>3. "heartbeat" \in Soon(client, batch, s) => "heartbeat" \in Soon(client', batch', s)
    <3>1. CASE r = "heartbeat"
      BY <1>1, <1>2, <3>1 DEF Soon, Answered
    <3>2. CASE r # "heartbeat"
      BY <1>1, <1>2, <1>3, <3>2 DEF Soon, Answered
    <3> QED
      BY <3>1, <3>2
  <2> QED
    BY <2>1, <2>2, <2>3
<1>5. ASSUME NEW t \in Servers, up'[t], client'.beating[t]
      PROVE  Heard(client', batch', t)
  <2>1. Heard(client, batch, t)
    BY <1>1, <1>2, <1>5 DEF Prompted, Answered
  <2> QED
    BY <1>2, <1>4, <2>1, HeardAlike DEF Answered
<1>6. GameKept
  BY <1>1, <1>2, GameKeptAlike DEF Prompted, Answered
<1> QED
  BY <1>1, <1>2, <1>5, <1>6 DEF Prompted, AuthKept, Answered

\* Only requests to a dead game server are lost.
LEMMA LosePrompted ==
    ASSUME IInv, PInv, prompt, NEW s \in Servers, Lose(s)
    PROVE  Prompted(client', batch', up') /\ AuthKept /\ GameKept
<1>1. ~up[s] /\ batch' = batch /\ up' = up /\ client \in Client
      /\ Prompted(client, batch, up)
  BY DEF Lose, IInv, Sound, PInv
<1>2. /\ client'.state = client.state /\ client'.cut = client.cut
      /\ client'.beating = client.beating
      /\ client'.due = client.due /\ client'.age = client.age
      /\ \A t \in Servers \ {s} : SameWay(client, client', t)
  BY <1>1, LoseFields
<1>3. ASSUME NEW t \in Servers, up'[t], client'.beating[t]
      PROVE  Heard(client', batch', t)
  <2>1. Heard(client, batch, t) /\ t # s
    BY <1>1, <1>2, <1>3 DEF Prompted
  <2>2. /\ Pending(client, batch, t) = Pending(client', batch', t)
        /\ Soon(client, batch, t) = Soon(client', batch', t)
    BY <1>1, <1>2, <2>1 DEF SameWay, Pending, Soon
  <2> QED
    BY <1>2, <2>1, <2>2, HeardAlike
<1>4. GameKept
  BY <1>1, <1>2, GameKeptAlike DEF Prompted
<1> QED
  BY <1>1, <1>2, <1>3, <1>4 DEF Prompted, AuthKept

LEMMA GameServerDiesPrompted ==
    ASSUME IInv, PInv, prompt, GameServerDies
    PROVE  Prompted(client', batch', up') /\ AuthKept /\ GameKept
<1>1. /\ UNCHANGED <<client, batch>> /\ Prompted(client, batch, up)
      /\ \A s \in Servers : up'[s] => up[s]
      /\ ~up'["Game"]
  BY ServersAre DEF IInv, PInv, GameServerDies
<1>2. \A s \in Servers : up'[s] /\ client'.beating[s] => Heard(client', batch', s)
  BY <1>1 DEF Prompted
<1> QED
  BY <1>1, <1>2 DEF Prompted, AuthKept, GameKept

\* Nothing changes the environment's promptness, and only a game server dies.
LEMMA StepOthers ==
    ASSUME [Next]_vars
    PROVE  prompt' = prompt /\ (up' = up \/ GameServerDies)
<1>1. CASE Calls
  BY <1>1 DEF Calls, Called, CallConnectAuth, CallConnectGame, CallDisconnect,
              CallSetClientState, DisconnectAll, Shutdown
<1>2. CASE ~Calls
  BY <1>2 DEF Next, Timers, Arrivals, Tick, SendHeartbeat, Receive, HandlePacket,
              SelectCharacter, Answer, Lose, GameServerDies, vars
<1> QED
  BY <1>1, <1>2

LEMMA StepPrompted ==
    ASSUME Interval + 1 <= Timeout, IInv, PInv, [Next]_vars
    PROVE  PInv' /\ (prompt => AuthKept /\ (GameKept \/ UNCHANGED vars))
<1>1. prompt' = prompt
  BY StepOthers
<1>2. up'["Auth"]
  <2>1. up \in [Servers -> BOOLEAN] /\ up["Auth"]
    BY DEF IInv, PInv
  <2>2. CASE GameServerDies
    BY <2>1, <2>2, ServersAre DEF GameServerDies
  <2> QED
    BY <2>1, <2>2, StepOthers
<1>3. SUFFICES ASSUME prompt
               PROVE  /\ Prompted(client', batch', up') /\ AuthKept
                      /\ GameKept \/ UNCHANGED vars
  BY <1>1, <1>2 DEF PInv
<1>4. CASE Tick
  BY <1>3, <1>4, TickPrompted
<1>5. ASSUME NEW s \in Servers, SendHeartbeat(s)
      PROVE  Prompted(client', batch', up') /\ AuthKept /\ GameKept
  BY <1>3, <1>5, SendHeartbeatPrompted
<1>6. ASSUME NEW s \in Servers, Receive(s)
      PROVE  Prompted(client', batch', up') /\ AuthKept /\ GameKept
  BY <1>3, <1>6, ReceivePrompted
<1>7. ASSUME NEW s \in Servers, HandlePacket(s)
      PROVE  Prompted(client', batch', up') /\ AuthKept /\ GameKept
  BY <1>3, <1>7, ServersAre, HandleAuthPrompted, HandleGamePrompted
<1>8. CASE SelectCharacter
  BY <1>3, <1>8, SelectPrompted
<1>9. ~Calls
  BY <1>3, MayNot DEF Calls, Called, CallConnectAuth, CallConnectGame, CallDisconnect,
                      CallSetClientState, DisconnectAll, Shutdown
<1>10. ASSUME NEW s \in Servers, Answer(s)
       PROVE  Prompted(client', batch', up') /\ AuthKept /\ GameKept
  BY <1>3, <1>10, AnswerPrompted
<1>11. ASSUME NEW s \in Servers, Lose(s)
       PROVE  Prompted(client', batch', up') /\ AuthKept /\ GameKept
  BY <1>3, <1>11, LosePrompted
<1>12. CASE GameServerDies
  BY <1>3, <1>12, GameServerDiesPrompted
<1>13. CASE UNCHANGED vars
  BY <1>3, <1>13 DEF vars, PInv, AuthKept
<1> QED
  BY <1>4, <1>5, <1>6, <1>7, <1>8, <1>9, <1>10, <1>11, <1>12, <1>13
     DEF Next, Timers, Arrivals

\* If the interval is shorter than the timeout, CheckHeartbeatTimeout never takes a
\* server that goes on answering within a second for one that is gone, wherever
\* TickSockets falls between a request and its answer, whatever duplicates arrive and
\* in whatever order the packets of a batch are handled.
THEOREM PromptServersAreKept ==
    ASSUME Interval + 1 <= Timeout
    PROVE  Spec => PromptServerKept
<1>1. IInv /\ PInv /\ [Next]_vars => PInv'
  BY StepPrompted
<1>2. IInv /\ PInv /\ [Next]_vars =>
        [prompt =>
          /\ client.beating["Game"] /\ client'.state = "CONNECTING_GAME" => ~up'["Game"]
          /\ client.state = "AUTH" => client'.state # "CONNECTING_AUTH"]_vars
  BY StepPrompted DEF AuthKept, GameKept
<1> QED
  BY InitIInv, InitPInv, NextKeeps, <1>1, <1>2, PTL DEF Spec, PromptServerKept
=============================================================================
