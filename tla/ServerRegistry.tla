--------------------------- MODULE ServerRegistry ---------------------------
(***************************************************************************)
(* How game servers come up, make themselves known in Redis and go down    *)
(* (BaseServer::run and mainLoop), and how the auth server picks one for a *)
(* client that has selected a character.                                   *)
(*                                                                         *)
(* A process registers under a key with an id of its own, so a server that *)
(* is started again does not renew its old registration.  The packet       *)
(* handlers are those of the other modules: here they only change the      *)
(* number of sessions.  Redis and MySQL are each reachable or not; an open *)
(* connection to Redis may break, and nothing opens it again.  Auth and    *)
(* chat servers come up the same way, under keys the auth server does not  *)
(* ask for.                                                                *)
(***************************************************************************)
EXTENDS Integers

CONSTANTS
    Procs,      \* processes, each with the unique id of one run
    Addresses,  \* bind_ip and bind_port
    Ttl,        \* the 30 seconds of EXPIRE
    Period,     \* the 15 seconds between two registrations
    Capacity,   \* max_players; 0 is no limit
    MaxSessions \* a bound for TLC

ASSUME ServerRegistryAssumption ==
    /\ Ttl \in Nat \ {0} /\ Period \in Nat \ {0}
    /\ Capacity \in Nat /\ MaxSessions \in Nat
    /\ Addresses # {}

VARIABLES
    up,       \* which of Redis and MySQL can be reached
    proc,     \* process -> its state
    registry, \* process -> the hash under its key, with ttl 0 if there is none
    auth,     \* the auth server's selection of a game server
    steady    \* history: servers registered with room ever since the selection began

vars == <<up, proc, registry, auth, steady>>

\* sessions is the size of sessionMap, counted is num_sessions.
\* due: seconds until the next registration, negative when it is late.
\* ended: seconds since the process ended; cut: the process or its connection
\* ended between HSET and EXPIRE; held: the last registration came as late as the
\* expiry of the one before.  All three are history.
Proc ==
    [ phase : {"unborn", "useless", "redis", "mysql", "installing", "registering",
               "expiring", "looping", "body", "gone"},
      at : Addresses, running : BOOLEAN, handler : BOOLEAN,
      redis : {"none", "open", "broken"}, sessions : 0 .. MaxSessions,
      counted : 0 .. MaxSessions, due : -Ttl .. Period, ended : 0 .. Ttl, cut : BOOLEAN,
      held : BOOLEAN ]

\* A hash without an expiry.
Never == Ttl + 1

Entry == [ttl : 0 .. Never, players : 0 .. MaxSessions]
NoEntry == [ttl |-> 0, players |-> 0]

\* refusing: about to answer that there is no server.
Auth == [ phase : {"idle", "choosing", "refusing", "dead"}, redis : {"open", "broken"},
          todo : SUBSET Procs ]

Registered(k) == registry[k].ttl # 0
Alive(k) == proc[k].phase \notin {"unborn", "gone"}
Bound(k) == Alive(k) /\ proc[k].phase # "useless"

Init ==
    /\ up \in SUBSET {"redis", "mysql"}
    /\ proc = [k \in Procs |->
                  [ phase |-> "unborn", at |-> CHOOSE a \in Addresses : TRUE,
                    running |-> TRUE, handler |-> FALSE, redis |-> "none", sessions |-> 0,
                    counted |-> 0, due |-> Period, ended |-> 0, cut |-> FALSE, held |-> FALSE ]]
    /\ registry = [k \in Procs |-> NoEntry]
    /\ auth = [phase |-> "idle", redis |-> "open", todo |-> {}]
    /\ steady = {}

HasRoom(e) == Capacity = 0 \/ e.players < Capacity
Roomy(r) == {k \in Procs : r[k].ttl # 0 /\ HasRoom(r[k])}

KeepSteady ==
    steady' = IF auth'.phase \in {"idle", "dead"} THEN {}
              ELSE IF auth.phase = "idle" THEN Roomy(registry)
              ELSE steady \cap Roomy(registry')

-----------------------------------------------------------------------------
(* BaseServer::run                                                         *)

\* loadConfig and startSocket.  If there is no configuration, or the address is
\* taken, run returns and the process waits for a signal.
Start(k) ==
    /\ proc[k].phase = "unborn"
    /\ \E a \in Addresses, phase \in {"useless", "redis"} :
          /\ phase = "redis" => \A l \in Procs : ~(Bound(l) /\ proc[l].at = a)
          /\ proc' = [proc EXCEPT ![k].at = a, ![k].phase = phase]
    /\ UNCHANGED <<up, registry, auth>>
    /\ KeepSteady

\* The retry loops go on while their server cannot be reached and no signal came.
\* Mutant: until it can be reached.
GoesOnUnstoppable(k, server) == server \in up
GoesOn(k, server) == server \in up \/ ~proc[k].running

\* connectRedisWithRetry; after a signal the loop may end without a connection.
ConnectRedis(k) ==
    /\ proc[k].phase = "redis"
    /\ GoesOn(k, "redis")
    /\ \E c \in {"open", "none"} :
          /\ c = "open" => "redis" \in up
          /\ c = "none" => ~proc[k].running
          /\ proc' = [proc EXCEPT ![k].phase = "mysql", ![k].redis = c]
    /\ UNCHANGED <<up, registry, auth>>
    /\ KeepSteady

\* Mutant: the server makes itself known before it has handlers.
AfterMySQLRegistering == "registering"
AfterMySQL == "installing"

\* connectMySQLWithRetry.
ConnectMySQL(k) ==
    /\ proc[k].phase = "mysql"
    /\ GoesOn(k, "mysql")
    /\ proc' = [proc EXCEPT ![k].phase = AfterMySQL]
    /\ UNCHANGED <<up, registry, auth>>
    /\ KeepSteady

\* setConnectionHandler, setPacketHandler.
InstallHandlers(k) ==
    /\ proc[k].phase = "installing"
    /\ proc' = [proc EXCEPT ![k].phase = "registering", ![k].handler = TRUE]
    /\ UNCHANGED <<up, registry, auth>>
    /\ KeepSteady

-----------------------------------------------------------------------------
(* mainLoop                                                                *)

\* HSET of RegisterServerInRedis: a hash that exists keeps its expiry.
\* Mutant: a session too many is counted.
HsetOneMore(e, n) == [ttl |-> IF e.ttl = 0 THEN Never ELSE e.ttl, players |-> n + 1]
\* Mutant: only a registration that is there is renewed.
HsetExisting(e, n) == IF e.ttl = 0 THEN e ELSE [e EXCEPT !.players = n]
Hset(e, n) == [ttl |-> IF e.ttl = 0 THEN Never ELSE e.ttl, players |-> n]

\* EXPIRE: without effect on a hash that has gone.
\* Mutant: the first registration is left without an expiry.
ExpireKnown(e) == IF e.ttl \in {0, Never} THEN e ELSE [e EXCEPT !.ttl = Ttl]
\* Mutant: the expiry is as short as the period.
ExpireShort(e) == IF e.ttl = 0 THEN e ELSE [e EXCEPT !.ttl = Period]
Expire(e) == IF e.ttl = 0 THEN e ELSE [e EXCEPT !.ttl = Ttl]

Ended(p) == [p EXCEPT !.phase = "gone", !.running = FALSE, !.handler = FALSE,
                      !.redis = "none", !.sessions = 0, !.counted = 0,
                      !.due = Period, !.held = FALSE,
                      !.cut = @ \/ p.phase = "expiring"]

\* The condition of the loop, and the count that opens its body.  When a signal came
\* the process ends, as does one whose run failed, and its registration is left
\* behind.
TestRunning(k) ==
    /\ \/ proc[k].phase = "looping"
       \/ proc[k].phase = "useless" /\ ~proc[k].running
    /\ proc' = [proc EXCEPT
                   ![k] = IF proc[k].running
                          THEN [@ EXCEPT !.phase = "body", !.counted = proc[k].sessions]
                          ELSE Ended(@)]
    /\ UNCHANGED <<up, registry, auth>>
    /\ KeepSteady

\* checkHeartbeatTimeouts: onClientDisconnected counts the sessions again.
DropSilent(k) ==
    /\ proc[k].phase = "body" /\ proc[k].sessions > 0
    /\ proc' = [proc EXCEPT ![k].sessions = @ - 1, ![k].counted = proc[k].sessions - 1]
    /\ UNCHANGED <<up, registry, auth>>
    /\ KeepSteady

\* The end of an iteration in which it is not yet time to register.
NextIteration(k) ==
    /\ proc[k].phase = "body" /\ proc[k].due > 0
    /\ proc' = [proc EXCEPT ![k].phase = "looping"]
    /\ UNCHANGED <<up, registry, auth>>
    /\ KeepSteady

\* The first registration, and the later ones once Period has passed.
RegisterHset(k) ==
    /\ \/ proc[k].phase = "registering"
       \/ proc[k].phase = "body" /\ proc[k].due <= 0
    /\ proc' = [proc EXCEPT ![k].phase = "expiring"]
    /\ registry' = IF proc[k].redis = "open"
                   THEN [registry EXCEPT ![k] = Hset(@, proc[k].counted)]
                   ELSE registry
    /\ UNCHANGED <<up, auth>>
    /\ KeepSteady

RegisterExpire(k) ==
    /\ proc[k].phase = "expiring"
    /\ proc' = [proc EXCEPT ![k].phase = "looping", ![k].due = Period,
                            ![k].held = proc[k].due <= Period - Ttl]
    /\ registry' = IF proc[k].redis = "open"
                   THEN [registry EXCEPT ![k] = Expire(@)] ELSE registry
    /\ UNCHANGED <<up, auth>>
    /\ KeepSteady

\* SIGINT or SIGTERM.
Signal(k) ==
    /\ Alive(k)
    /\ proc[k].running
    /\ proc' = [proc EXCEPT ![k].running = FALSE]
    /\ UNCHANGED <<up, registry, auth>>
    /\ KeepSteady

Crash(k) ==
    /\ Alive(k)
    /\ proc' = [proc EXCEPT ![k] = Ended(@)]
    /\ UNCHANGED <<up, registry, auth>>
    /\ KeepSteady

\* Sessions come and go in the packet handlers, which run in another thread and
\* leave the count as it is.
Join(k) ==
    /\ proc[k].handler
    /\ proc[k].sessions < MaxSessions
    /\ proc' = [proc EXCEPT ![k].sessions = @ + 1]
    /\ UNCHANGED <<up, registry, auth>>
    /\ KeepSteady

Leave(k) ==
    /\ proc[k].handler
    /\ proc[k].sessions > 0
    /\ proc' = [proc EXCEPT ![k].sessions = @ - 1]
    /\ UNCHANGED <<up, registry, auth>>
    /\ KeepSteady

-----------------------------------------------------------------------------
(* The auth server, PACKET_C_CHAR_SELECT                                   *)

\* KEYS "game_*"; if that fails the answer is an error of its own.
AskKeys ==
    /\ auth.phase = "idle" /\ auth.redis = "open"
    /\ LET known == {k \in Procs : Registered(k)}
       IN  auth' = [auth EXCEPT !.phase = IF known = {} THEN "refusing" ELSE "choosing",
                                !.todo = known]
    /\ UNCHANGED <<up, proc, registry>>
    /\ KeepSteady

\* Without a server in this key.
\* Mutant: the search ends at the first server that is full.
PassGivingUp(k) == [auth EXCEPT !.phase = "refusing", !.todo = {}]
Pass(k) ==
    [auth EXCEPT !.phase = IF auth.todo = {k} THEN "refusing" ELSE "choosing",
                 !.todo = @ \ {k}]

\* HGETALL of the next key.  The debug line in front of the conversions makes an
\* entry for "port", so std::stoi is given the empty string when the hash has
\* gone, and its exception ends the process.
Look(k) ==
    /\ auth.phase = "choosing" /\ k \in auth.todo
    /\ auth' =
          IF auth.redis = "broken" THEN Pass(k)
          ELSE IF ~Registered(k)
          THEN [auth EXCEPT !.phase = "dead", !.todo = {}]
          ELSE IF HasRoom(registry[k])
          THEN [auth EXCEPT !.phase = "idle", !.todo = {}]
          ELSE Pass(k)
    /\ UNCHANGED <<up, proc, registry>>
    /\ KeepSteady

\* The answer with result code 2.
Refuse ==
    /\ auth.phase = "refusing"
    /\ auth' = [auth EXCEPT !.phase = "idle"]
    /\ UNCHANGED <<up, proc, registry>>
    /\ KeepSteady

-----------------------------------------------------------------------------
(* Redis and time                                                          *)

\* A connection to Redis ends; RedisClient fails every command from then on.
Break(k) ==
    /\ proc[k].redis = "open"
    /\ proc' = [proc EXCEPT ![k].redis = "broken",
                            ![k].cut = @ \/ proc[k].phase = "expiring"]
    /\ UNCHANGED <<up, registry, auth>>
    /\ KeepSteady

BreakAuth ==
    /\ auth.phase # "dead" /\ auth.redis = "open"
    /\ auth' = [auth EXCEPT !.redis = "broken"]
    /\ UNCHANGED <<up, proc, registry>>
    /\ KeepSteady

Aged(e) ==
    IF e.ttl \in {0, Never} THEN e
    ELSE IF e.ttl = 1 THEN NoEntry ELSE [e EXCEPT !.ttl = @ - 1]

Later(p) ==
    [p EXCEPT
        !.due = IF p.phase \in {"looping", "body", "expiring"} /\ @ > -Ttl THEN @ - 1 ELSE @,
        !.ended = IF p.phase = "gone" /\ @ < Ttl THEN @ + 1 ELSE @]

\* A second passes, wherever the processes are: a query that the main loop waits
\* for may take any time.
Tick ==
    /\ proc' = [k \in Procs |-> Later(proc[k])]
    /\ registry' = [k \in Procs |-> Aged(registry[k])]
    /\ UNCHANGED <<up, auth>>
    /\ KeepSteady

-----------------------------------------------------------------------------
Boot(k) == ConnectRedis(k) \/ ConnectMySQL(k) \/ InstallHandlers(k)
Loop(k) == TestRunning(k) \/ NextIteration(k) \/ RegisterHset(k) \/ RegisterExpire(k)

Next ==
    \/ \E k \in Procs :
          \/ Start(k) \/ Boot(k) \/ Loop(k) \/ Signal(k) \/ Crash(k)
          \/ DropSilent(k) \/ Join(k) \/ Leave(k) \/ Look(k) \/ Break(k)
    \/ AskKeys \/ Refuse \/ BreakAuth \/ Tick

\* Processes go on with what they can do, and time passes.
Spec ==
    /\ Init
    /\ [][Next]_vars
    /\ \A k \in Procs : WF_vars(Boot(k)) /\ WF_vars(Loop(k))
    /\ WF_vars(Tick)

-----------------------------------------------------------------------------
(* Properties                                                              *)

\* Every variable has the type the code gives it.
TypeOK ==
    /\ up \subseteq {"redis", "mysql"}
    /\ proc \in [Procs -> Proc]
    /\ registry \in [Procs -> Entry]
    /\ auth \in Auth
    /\ steady \subseteq Procs

\* A server in its main loop is registered as long as its connection to Redis
\* lasts and neither now nor before its last registration the loop was held up for
\* the 15 seconds by which the expiry exceeds the period.
RegisteredUnlessStalled ==
    \A k \in Procs :
        /\ proc[k].phase \in {"looping", "body"} /\ proc[k].redis = "open"
        /\ ~proc[k].held /\ proc[k].due > Period - Ttl
        => Registered(k)

\* A client can only be sent to a server that runs, or did within the last 30
\* seconds, unless its process or its connection ended just between HSET and
\* EXPIRE.
DeadServerForgotten ==
    \A k \in Procs :
        Registered(k) /\ proc[k].phase = "gone" /\ ~proc[k].cut => proc[k].ended < Ttl

\* A server that is known in Redis handles packets, although its socket was open
\* for as long as it waited for Redis and MySQL.
RegisteredHandles ==
    \A k \in Procs : Registered(k) => proc[k].phase = "gone" \/ proc[k].handler

\* A client is only told that there is no server if none was registered with room
\* all through the search, or the auth server lost Redis.
RoomIsFound == auth.phase = "refusing" /\ auth.redis = "open" => steady = {}

\* A server that has opened its socket makes itself known, if Redis and MySQL can
\* be reached, its connection lasts and it is not ended before.
StartedServerRegistered ==
    \A k \in Procs :
        proc[k].phase = "redis" /\ up = {"redis", "mysql"}
            ~> Registered(k) \/ proc[k].phase = "gone" \/ proc[k].redis = "broken"

\* A signal ends a server wherever it is, also while it waits for Redis or MySQL.
SignalEndsServer == \A k \in Procs : ~proc[k].running ~> proc[k].phase = "gone"

\* The exception that ends the auth server, when a registration is gone between KEYS
\* and HGETALL, is only thrown over a server that has ended, has lost its connection
\* to Redis or was held up for longer than the expiry exceeds the period: while every
\* server renews in time a search is safe, however long it takes.
AbortsOnlyOverLostServer ==
    [][auth.phase # "dead" /\ auth'.phase = "dead" =>
          \E k \in auth.todo :
              \/ proc[k].phase = "gone" \/ proc[k].redis # "open"
              \/ proc[k].held \/ proc[k].due <= Period - Ttl]_vars
=============================================================================
