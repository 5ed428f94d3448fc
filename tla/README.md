# A verification project for the UE5 MMO server

TLA+ models of the C++ servers under `src/Server` and of the Unreal client plugin
under `src/client/Plugins/MMOClient`, TLC configurations that check them on small
instances, and theorems about them checked by TLAPS. Run `tlc -config X.cfg M` on
the module named in the table of runs, and `tlapm M.tla` on the modules `*Proofs`.

`PROJECT.json` lists the components, the runs, the mutants that show that each
property can fail, the source lines of each definition, the hazards and findings.

## 1. Inventory

Three server programs share one base class; they meet in Redis and MySQL, and
talk UDP to the Unreal client.

| component (source) | state | operations | correct when |
|---|---|---|---|
| zone grid (`game/src/ZoneManager.cpp`) | two maps zone → id → entity, one of all entities, one of players | zone id of a position, 3x3 neighbourhood, add, remove | ids name cells, nearness is touching, the two maps never drift apart |
| game world (`GameServer.cpp`, `Player.cpp`, `Entity.cpp`, `BaseServer.cpp`) | `sessionMap`, `Player` objects with a raw pointer to their session, zone maps | connect (Redis hash, then the row), move, heartbeat, disconnect, heartbeat check, save on a signal | everybody with a session is in the world, nobody stays without one, the last position is saved, clients are told what is around them |
| auth server (`auth/src/main.cpp`, `BaseServer.cpp`) | `sessionMap`, the hashes `session_<key>`, rows of `characters` | connect (makes the key), login, list, create, delete, select, heartbeat, heartbeat check | a hash lasts from one heartbeat to the next, and not for ever; it says what the session says; it names characters of its own account only |
| Redis and MySQL clients (`common/src`) | one connection each | HSET, HGETALL, EXPIRE, SELECT, UPDATE | as used by the two servers |
| server lifecycle (`BaseServer.cpp`, `main.cpp`s) | threads, flags, the registration in Redis | start, main loop, register every 15 s with 30 s expiry, stop; the auth server's search for a game server | who is known in Redis handles packets, who died is forgotten, a client finds room where there is some, signals get through |
| logger (`common/include/Log.h`) | queue, mutex, condition variable, ring buffer | log, worker | no entry lost, doubled or reordered, all written |
| UDP socket server (`SocketServer.cpp`) | a socket, an io thread | receive, send | one packet handled at a time |
| chat server (`chat/src`) | `sessionMap` | connect, heartbeat | the chat itself is a TODO |
| packets, encryption, compression, configuration | none | conversions | not about behaviour over time |
| web GUI (`webGUI`) | a thread of its own | reads the others' state | read-only but for log levels |
| mobs, NPCs (`MobManager`) | lists | none is ever called | — |
| client entities (`NetworkedEntityManager.cpp`) | a map of all entities, four by type, ids by shard, the actors in the level | spawn, despawn, shard change, deload, clear, select a character | the maps agree, each actor stands for one entity, the controller has no character but one that was selected |
| client connections (`MMOClient.cpp`) | client state, sockets, heartbeat timers, retry counter | connect, `TickSockets`, timers, packets, calls from Blueprint | the state tells which socket is open; what times out was silent; the client ends somewhere |
| client movement (`MMOPlayerMovementComponent.cpp`) | the position last sent, whether one was sent | poll for the own id, report every 50 ms, take over the server's answer | mover, server and observers come to agree |
| client game instance | forwards delegates | — | — |

How they interact. The client connects to the auth server, which makes a session
key, and after login and character selection stores account and character in the
Redis hash of that key. The client shows the key to a game server, which reads the
hash, loads the row of the character and places a `Player` in the zone of its
position; its other writes to the hash are `fd` and, on each heartbeat, the expiry.
Game servers register themselves in Redis, and the auth server picks one with
room. A server's socket thread handles packets; its own thread runs the heartbeat
check; the main thread runs the signal handler. None of them takes a lock.

What is hard about it:

* three clocks have to fit: the eviction of a session, and the expiry of its hash
  after a login and after a heartbeat;
* a disconnection acts long after it was decided, on a character that may be back
  from another port;
* a `Player` is shared by a session and two maps and points back raw;
* datagrams are lost, doubled and late, and only some requests are repeated;
* a packet from anybody creates a session;
* the signal handler saves while moves are handled;
* a server makes itself known only after it has waited for Redis and MySQL with its
  socket open, and stays known by renewing in time;
* the server answers every report of a position to the reporter too, who takes the
  answer for a correction;
* the client's maps and sockets are edited in many places by hand, and a batch of
  datagrams goes on being handled after one of them closed the socket.

## 2. Modules

| module | models | checked by |
|---|---|---|
| `Zones` | the arithmetic of `ZoneManager.cpp` (truncating division, stride 1000) and the two-level maps | `MCGameWorld`, `ZonesProofs` |
| `GameWorld` (extends `Zones`) | one game server process | `MCGameWorld`, `GameWorldProofs` |
| `AbstractWorld` | what a game server promises of positions: a character comes in where the table has it and goes out leaving it where it stands | implemented by `GameWorld` |
| `AuthServer` | one auth server process and the hashes in Redis | `MCAuthServer`, `AuthServerProofs` |
| `ServerRegistry` | several server processes from start to end, their registrations in Redis, the auth server's search | `MCServerRegistry`, `ServerRegistryProofs` |
| `AbstractLog` | what a log promises: one order of all entries, all written | implemented by `LogQueue` |
| `LogQueue` | `Log` and `LogWorker` | `MCLogQueue`, `LogQueueProofs` |
| `Movement` | the movement component, the server's answer and broadcast, an observer | `MCMovement`, `MovementProofs` |
| `ClientEntities` | `NetworkedEntityManager` | `MCClientEntities`, `ClientEntitiesProofs` |
| `ClientConnection` | the connections of `MMOClient` | `MCClientConnection`, `ClientConnectionProofs` |

State and actions carry the names of the source. An action is a whole handler, from
the packet to the last packet sent and the last field written; where the code gives
another thread the chance to run in between, it is several: the heartbeat check is
`CollectTimeouts` and then one disconnection at a time, the log worker is split at
every point at which the mutex changes hands, a client's receive is `Receive` (the
batch is read) and then `HandlePacket` per datagram.

**Faults.** `GameWorld`, `AuthServer` and the two client modules have a constant
`Faults`: what the environment may do beyond the ordinary. Without it the code does
what it should, and the properties of the ordinary runs hold; each kind of fault
takes some of them away, and section 3 says which. The kinds are
listed with their meaning in `FaultKinds` of each module. A property that holds
under more faults says more; the runs named `...Faults` have the most.

`GameWorld`. `sessionMap[e]` is created by any packet, as `operator[]` does. The
heap is explicit (`players`, cells from `Objs`): a `Player` lives while a session or
a zone holds it (`Collect`), and its session pointer becomes `Dangling` when the
session is erased (`Orphan`). What is read through a dangling pointer is
nondeterministic (`Garbage`). The zone id is stored with the Player and changed by
`Move` in the order of `MoveTo`: position, removal (which culls by the position),
insertion. `told` is what each endpoint was sent a spawn for and no despawn since.
Time is one bit per session, `fresh`: more than HEARTBEAT_TIMEOUT_SEC or not. Two
Players of one character are possible, as in the code, under `"reconnect"`. A
disconnection erases its session and then calls the base class with a reference into
it; `"freed_addr"` is that the memory has another address by then, whose session goes
too. The signal handler clears `running` after it has saved, so the heartbeat check may
start in `stopping` as well.

`AuthServer`. Time is counted in seconds of Redis' clock. An `age` per session counts from
the EXPIRE of its last heartbeat, a `ttl` per hash is Redis' own. `Login` writes the hash and sets
T + 2, a heartbeat sets T + 1, `CharSelect` sets none. A heartbeat sets `lastHeartbeat`
after the EXPIRE, and the check evicts when T + 1 full seconds have passed since; so
the hash is gone when `age` reaches T + 1, and the session falls silent only some time later, by
a step of its own (`FallSilent`). In between the session lives, its key does not, and a
heartbeat keeps the one without the other. `late` is history: the keys of sessions whose
heartbeat or selection came more than T after the heartbeat before. `GameHeartbeat` and
`FdAfterExpiry` are what game servers do to the hash. Keys are names: two random
64-bit keys in use are taken to differ. The client's password and the name checks
have an outcome and no content. A hash's `charName` is the character it is of.

`ServerRegistry`. A process goes through `run` and `mainLoop` command by command;
HSET and EXPIRE are two steps, as are KEYS and each HGETALL of the search. Time
(`Tick`) passes anywhere, so any step may take any time: `due` says how late the next
registration is. `sessions` changes under the main loop's feet; `counted` is
`num_sessions`, which the loop takes at its head and after an eviction, and which is
what gets registered. Redis and MySQL are reachable or not, once and for all; an
open Redis connection may break and nothing opens it again. `held`, `cut`, `ended`
and `steady` are history, for the properties only.

`LogQueue`. Everything of `Log.h` that can interleave. The mutex is `held` by the
worker or free: the others hold it for one step only. Its refinement mapping
reads the abstract log off it: accepted is what was written, what is in the worker's
hands and what is queued, one after the other.

`Movement`. One moving entity, its own client and one observer. Three legs carry
datagrams: `report` to the server, `echo` back to the mover, `relay` to the
observer; each delivers and loses them in any order until the network is `calm`, from
when on a report's echo is back within the 50 ms of the timer. `spoilt` remembers the
legs whose newest datagram was lost or overtook another. Positions are far enough
apart to be told from each other by the tolerances, and near enough for the observer.

`ClientEntities`. One game thread. Location, animation and names are left out, and so is
`SpawnedActors`, which nothing reads. The list of a shard is modelled by how often it has each id: `Add` appends whatever is
there, `Remove` takes all; the order of a list means nothing to anyone. `SpawnEntity` is
called by packets and from Blueprint, for any type and any id, the own one included; only
`SpawnPlayerEntity` possesses. The engine may refuse an actor (`no_actor`), have no
controller or pawn to possess with (`no_pawn`), or destroy an actor (`level_change`). `selected` is
`SelectedCharacterId`, which may change at any time; `chosen`, history, is what it has
been since the last clear.

`ClientConnection`. Sockets, their datagrams under way as sets (they carry no
data), timers in seconds, and the environment: answers that may be late or never come,
a game server that dies. A closed socket's datagrams are gone, as the next has another
port. Between two handlers Blueprint may call whatever connects, disconnects, shuts down or sets
the state. `TickSockets` runs once a second, in phase with nothing: `oldOut` and `oldIn`
are the datagrams that were under way, or asked for, before the last second began.
`prompt` chooses at the start whether the environment loses nothing and gives every answer
within a second of its request, wherever the tick falls between them, so that one run checks
both what holds always and what holds then. `fresh` and `cut` are history: whether the game socket was
opened after the last tick, and whether Blueprint has closed a socket or set the state
since the client last connected. An open UDP socket is
taken to report `SCS_Connected`; `SendHeartbeat` would otherwise never send.

## 3. Runs

`pass`: TLC checks all states. `violation`: TLC finds a behaviour in which the code
does other than a comment or a name of its own says; the findings of `PROJECT.json`
quote that line.

| run | shows |
|---|---|
| `GameWorldFaults` | reconnects, partial hashes, failing SQL, crashes, a second erasure that reads a freed address: heap, sessions and zones still fit together; zone ids name cells on both sides of both axes, and nearness of ids is touching of cells |
| `GameWorldOrdinary` | two characters: in the world while connected, told of each other, evicted when silent; and the server implements `AbstractWorld` |
| `GameWorldReconnect` (violation) | a character connected twice: the disconnection of one session empties the zone's slot, and the other session's live Player is in no zone. TLC's trace has a stray session, collected by the heartbeat check, that connects before it is disconnected; the timeout of a first session after a reconnect does the same |
| `GameWorldDespawn` (violation) | after a long move those left behind are not told |
| `AuthOrdinary` | clients in time and late ones, logins to another account: who was never late finds the key of the login good, only who was leaves a hash that lives for ever, hash and session agree |
| `AuthFaults` | failing commands, hashes that expire before a selection or under a game server's hands: a hash names only its account's characters |
| `MCLogQueue` | two threads, a worker, spurious wake-ups: the buffer holds the latest, and the whole implements `AbstractLog`: all entries written once, in one order |
| `ClientFaults` | any spawns and selections; refused, unpossessed and destroyed actors; deload: the maps agree, actors stand for entities, and nobody is controlled who was not selected |
| `Connection` | losses, doubles, delays, refusals, a dead game server, calls from Blueprint: one server at a time, no timer without a socket, the state tells which is open unless Blueprint closed one or set the state; in a prompt environment a connection that was answered only ends with the game server's death, which brings the client back to the auth server |
| `ConnectionSilence` (violation) | with the real 2 s, 6 s and 5 retries, a new game connection times out at the next tick if that comes before the answer to its connect request |
| `Registry` | two processes that start, are signalled, crash and lose Redis, and a search among them: known servers handle packets, dead ones are forgotten, nobody is turned away while there is room, the search only ends the auth server over a server that was lost, started servers get known, signalled ones end |
| `Movement` | steps, reports, echoes, broadcasts over a network that delays, loses and reorders until it calms down: the movement comes to rest, at rest all agree, and one report heals what losses left behind |

### Where the properties end

The runs about the ordinary case leave out some faults because the code does not
stand up to them. Adding the fault to the `.cfg` shows how:

* `"reconnect"` in `GameWorldOrdinary`: a refused second connect, or the timeout of an
  older session, leaves a Player without a session or out of its zone (`LiveInWorld`,
  `PlayerHasSession`);
* `"late_packet"` there: a move between the shutdown save and the exit is lost: for
  `AbstractWorld` nobody walks any more (`ImplementsAbstractWorld`);
* `"freed_addr"` there: the second erasure of a disconnection may take another endpoint's
  session, whose Player is then without one (`PlayerHasSession`);
* `"unconnected"` in `AuthOrdinary`: sessions without a key share the hash under the empty
  one (`HashMatchesSession`, and `HashNamesOwnCharacter` too);
* `"relogin"` in `AuthFaults`: the first account's character goes into the hash of the
  second (`HashNamesOwnCharacter`).

Some properties exclude by their own words what the code does:

* `LiveKeyFound` and `HashesExpire` are about clients in time. A selection that comes after the
  hash was gone makes one without expiry, which nothing deletes (`late`), and between the
  hash's end and the session's eviction a heartbeat keeps a session whose key is dead.
  The comment of `auth/src/main.cpp:97`, "1 hour expiration", is stale: the line sets
  HEARTBEAT_TIMEOUT_SEC + 2, 14 s;
* `DeadServerForgotten` leaves out a server that dies between HSET and EXPIRE (`cut`);
* `RestMeansAgreement` leaves out an actor that was never reported (`hasSent`) and
  legs whose newest datagram was lost or overtaken (`spoilt`);
* `StateMatchesSockets` says nothing after Blueprint has closed a socket or set the state,
  until the client connects again (`cut`): `DisconnectGame` in `GAME` leaves the state;
* `PromptServerKept` is about connections that have been answered: before that,
  `ConnectionSilence` shows a prompt server given up;
* `ControlsOwnCharacter` says whom the controller does not have. A player left without a
  pawn, when there was none to possess or the own id was spawned by `SpawnEntity`, has no
  property, as nothing promises one.

Also seen while modelling, and kept in the models though no run is about them:

* a session made by a stray packet has no address, so `SkipTimeout` passes over it
  for ever; a mover is never told what it left behind (`ToldOfRemoval`); ids of zones
  500 columns out coincide;
* `DeloadEntity` leaves the id in its type's map; the retry counter of the client
  outlives a successful connection; a lost connect request to the auth server is
  never repeated;
* without `calm` in `Movement`, `ComesToRest` fails: with a round trip longer than the
  timer the echo of one report undoes the step reported by the next, and the two
  positions chase each other after the player has stopped. A last report that is lost is
  not repeated, and an actor that walks to the origin before its first report is not
  reported (`WorthSending`);
* a registration that expires between KEYS and HGETALL ends the auth server: the debug
  line makes an empty "port" and `std::stoi` throws in the io thread (`Look`);
  `AbortsOnlyOverLostServer` says what keeps that from happening;
* a registration is not deleted on a stop; a server signalled while it waits for MySQL goes on to
  register once before it ends (`GoesOn`); a server whose `run` failed
  waits for a signal ("useless"); the game server itself does not look at
  `max_players`.

### Bounds

* Zones, in `GameWorldFaults`: the zones of the players' positions against `Landmarks`, the
  `Window` of positions on and just before cell borders on both sides of the origin, in the cells that
  touch a player's and beyond on both axes, and at the ends of the range in which ids do not
  collide.
  `NearbyMatchesGrid` and `ZoneIdsNameCells` are proved for the rest.
* `GameWorld`: two endpoints, one or two characters, two heap cells: two sessions of
  one character, or two characters that see each other. A third would add no new
  pair. Positions: the origin's cell, the next, and one out of reach; size 10. With
  two heap cells a third Player cannot be made before one is freed; the theorems
  have no such bound. `GameWorldFaults` goes without `"late_packet"`: TLC finds the same states with
  it, as a packet handled while the process stops does what it did before, and the
  four invariants of the heap are proved with it.
* `AuthServer`: two accounts, characters and keys. `AuthOrdinary` has two endpoints and a
  timeout of 1 s instead of 12: two sessions, or one and the hash of a session it
  replaced. `AuthFaults` has one endpoint and 2 s, as sessions share nothing but the table of
  characters. What matters is how T, T + 1 and T + 2 lie to each other, and the theorems
  hold for every T.
* `LogQueue`: two threads of three entries, a buffer of two: the buffer overflows
  while the queue holds several. `MaxEntries` bounds `Push`.
* `ClientEntities`: two ids, two shards, two actors: an actor may be missing,
  an id may come back as another type or in another shard, and either id may be
  selected, or neither.
* `ClientConnection`: `Connection` has a timeout of 2, heartbeats every second and one
  retry, so that a timeout still needs a missed answer and the retry can both
  succeed and be in vain. A datagram that is lost is one that is late for ever.
  `ConnectionSilence` has the real 6, 2 and 5. Seconds stop counting at
  Timeout + 1, where nothing distinguishes them, and datagrams under way are a set.
* `ServerRegistry`: two processes on one address, one after the other or one refused;
  room for one session each, so that both are full, either or none; an
  expiry of 2 over a period of 1 in place of 30 over 15: what matters is that a
  renewal can be early, due, late by less and late by more than the difference.
  The theorems have any numbers. `due` stops counting at -Ttl and `ended` at Ttl.
* `Movement`: the origin and two more positions, three steps of the player and
  two datagrams on a leg: one step can be undone by the echo of another while the
  next is reported. `RestingAgree` has no such bounds.

### Fairness

* `GameWorld!LiveSpec` (for `SilentPlayerLeaves`): the heartbeat check and the end of the main loop are weakly
  fair. The server thread runs them in a loop with a sleep, independent of packets.
* `ServerRegistry!Spec`: a process goes on with what it can do (the retry loops sleep and
  try again, the main loop goes round), and time passes. Nothing else is fair: no
  signal, no client, no search. Eventually registering needs Redis and MySQL to be
  reachable, the connection to last and the process not to be ended.
* `Movement!Spec`: the poll and the move timer of the client repeat, and what is
  under way is delivered or lost. The two liveness properties are about a calm
  network, and nothing says that it calms down.
* `LogQueue!Spec`: a thread that pushed goes on to `notify_one`, and the worker goes
  on. Logging and spurious wake-ups are not fair. Weak fairness of taking the mutex
  is enough since only the worker keeps it beyond a step. The fairness of
  `AbstractLog!Spec` follows from it, which `ImplementsAbstractLog` checks.
* `ClientConnection!FairSpec`: the engine's timers fire and a batch that was read is
  handled (weak); a datagram sent again and again is received and answered some day
  (strong, as closing a socket interrupts it); what is sent to a dead server does not stay under
  way (weak). There is one socket at a time, so fairness does not say whose.
  `BackToAuth` needs it.

## 4. Proofs

All are for any number of endpoints, characters, accounts, keys, heap cells,
processes, threads and positions.

`ZonesProofs`, from `ZoneSizeAssumption` (the configured size is an integer):
`OwnZoneIsNear`, `NearnessIsSymmetric`, `TouchingIsNear`, `CollidingCells`, `NearbyMatchesGrid` and
`ZoneIdsNameCells`. The last two are why the stride is good enough: within 498 cells of the origin no two
cells share an id, nor do two cells of a neighbourhood. It also has the laws of the two-level maps
(`PutLookup`, `EraseLookup`, and that no empty bucket is kept).

`GameWorldProofs`, from `GameWorldAssumption` and whatever `Faults` is:
`TypeCorrect`, `IndexesNeverDrift`, `EntitiesStayPlaced`, `SessionsOwnTheirPlayers`.
None of the four is inductive alone. `Move` finds the slot to empty through the
session's player (`SessionOwnsPlayer`); that it empties that player's slot and no
other needs the stored zone to be the slot's (`PlacedWhereItStands`), and the two
indexes are equal after it because they were before. So `IInv` is their conjunction;
`Consistent` is the same on explicit values, and the step is proved action by action
from the laws of the maps and of the heap (collecting frees only what nothing holds).

For the world without `"reconnect"`, that is, where a character connects only after its
last Player is gone, and without `"freed_addr"`, `PlayersHaveSessions`, `ConnectedAreInWorld` and
`NeighboursKnowEachOther` are `PlayerHasSession`, `LiveInWorld` and `SameZoneTold`; all
other faults are allowed. So is `MapsMissNobody`, the comment of `ZoneManager.h` that
`GameWorldReconnect` refutes with reconnects. `Ordinary` adds to `IInv` that every Player is held by its session,
so that nothing is collected while it is connected and no session pointer dangles; that no
two Players are of one character, so that no insertion takes another's slot; that
each is in the zone it believes itself in; and that any two in one zone know of each other:
a newcomer is told of all who are there, and they of it. `PositionsAreSaved` also excludes
packets after the shutdown save and a table that cannot be written
(`Faults \subseteq {"partial_hash", "crash"}`): it is an action property, for
which `SInv` says that from the shutdown save on the table has the position of every
Player in memory. No run lists `PositionSaved`, as the next result implies it.

`ServerImplementsWorld`, under the same conditions, is that the server refines `AbstractWorld`
(`ImplementsAbstractWorld`). Its `world` is `WorldOf(players)`, the positions of the characters that
have a Player, and its `saved` is the table; sessions, hashes, zones, heap and the heartbeat
check have no counterpart. That `WorldOf` is well defined needs `NoTwins`. There is a lemma for each
kind of step: `ConnectEnters` (the row is read at the connect and the Player kept by its session),
`MoveWalks`, `DisconnectLeaves` (one Player leaves memory, and its row is the one written),
`SignalStops` (the handler reaches every Player through the sessions, and writes no
row but theirs) and `OthersAreUnseen`; a Player without a character, after a connect with a partial
hash, is in neither world. `WInv` adds to the invariant that a process that is down has no
disconnection under way. The abstract world makes the promises plain: while the
process lives only `Enter`, `Walk` and `Leave` touch a character, nobody comes in or walks after `Stop`, and what
`Stop` and `Leave` saved is what the next `Enter` reads, over exits, crashes and restarts.

`IdsNameCells` and `NearbyTouch` bring the arithmetic of `Zones` into the running
server, for positions within 498 columns of the origin: the zone stored with a Player
was computed from where it stands now (`Located`), so the id is that of the cell.
The hypothesis is needed: `CollidingCells` says which ids coincide, and (500, 0) and (-500, 1) are
the cells nearest the origin that do. What goes wrong out there is only that
too many are told: `NeighboursNeverMissed` has no range and no condition on `Faults`.

`AuthServerProofs`, from `AuthServerAssumption`. `Base` (types, no two sessions with
one key, address and key come together, no character without login) holds for every
`Faults` and gives `TypeCorrect`. Each property of the hashes then has its own
strengthening:

* `KeyGoodBetweenHeartbeats` (`LiveKeyFound`) and `EveryHashExpires` (`HashesExpire`), for
  `Faults \subseteq {"relogin"}`: `HashOutlives` says that a session's age and its
  hash's remaining time together exceed the timeout, unless its key is `late`. A tick moves one up and the
  other down, so the sum only changes when an expiry is set, to T + 1 or T + 2 on a
  session of age at most T. So a selection in time finds a hash that exists, and cannot
  bring one back without expiry; one that is too late makes its key `late`.
* `HashAgreesWithSession` (`HashMatchesSession`), unless connect requests are lost or
  Redis fails: needs that a hash reduced to its `fd` names no character
  (`FieldsTogether`) and that nothing is stored under the empty key.
* `HashNamesOnlyOwn` (`HashNamesOwnCharacter`), unless an endpoint logs in to a second
  account or without key, and whatever Redis does: needs that a session's character is
  its account's, that a hash's account is its session's, and `FieldsTogether`.

Each strengthening was checked by TLC in the environments it is proved for.

`ServerRegistryProofs`, from `ServerRegistryAssumption`: `RegistryTypeCorrect`,
`RegisteredInTime`, `DeadForgotten`, `KnownServersHandle`, `ClientFindsRoom` and
`AbortsOverLostOnly`. The invariant relates a process to its own hash, so every
action keeps it for one process and `Tick` for all (`ProcOK`): `InTime` says that a
hash has at least as long to live as its server has until the next registration,
and Ttl - Period more; `NeverIsCut` that a hash without expiry is waiting
for EXPIRE or was cut off from it; `GoneInTime` that a dead server's hash and
the time since its death add up to the expiry at most. `SelectionOK` says that a
server registered with room ever since the search began is still to be looked at.
`AbortsOverLostOnly` adds that who is looked at has registered once (`TodoOK`):
then `InTime` leaves no way for its hash to be gone but that the server ended, lost Redis
or was late. `RegisteredInTime` states `RegisteredUnlessStalled`; no run lists that, as
`AbortsOnlyOverLostServer` rests on the same fact.

`LogQueueProofs`, from `LogQueueAssumption`: `LogTypeCorrect`, `BufferShowsLatest`, and
`LogImplementsAbstractLog`, that the steps of the logger are steps of
the abstract log or stutter. The strengthening says that an entry is in the
worker's hands exactly while it handles one: so the entry it takes off the queue
goes to where it was in the abstract order, and the one it writes was the next.

`MovementProofs`, from `MovementAssumption`: `MovementTypeCorrect` and `RestingAgree`. The
invariant is `LegsEndRight`: on a leg that is not spoilt, taking over what is under way
in its order ends at the sender's position. Sending always restores it, whatever
was lost before, and taking a datagram off keeps it unless that was the newest.

`ClientEntitiesProofs`, from `ClientEntitiesAssumption` and whatever `Faults` is:
`TypeCorrect`, `ActorsMatchEntities`, `OwnCharacterControlled` and, for `MapsAgree`, `MapsInStep`.
`DespawnEntity` destroys the actor its entity names, and the possession stays right only if no
other entity has that actor; a shard change edits one list, and is enough only if the id was
nowhere else. So the strengthening has them together, with what
`chosen` remembers: the possessed actor was spawned for an id that was selected when it was
possessed, and a clear, which is all that `chosen` forgets at, leaves no actor.
`TypesListEntities` is about stale ids in the maps of the types: without `"deload"` there are none.
No run lists it (TLC was run on it before it was proved, and finds it violated with
`"deload"`).

`ClientConnectionProofs`, from `ClientConnectionAssumption` and whatever `Faults` is:
`TypeCorrect`, `OneServer`, `TimersHaveSockets` and `StateTellsSockets`. The packets of a batch
are handled one by one, and one of them may close the socket they came from; so the
invariant has, beside the consistency of a client's fields (`Sound`), that a batch
belongs to an open socket, or to the auth socket that one of its packets has closed by
going on to the game server (`BatchOfOpenSocket`). Each operator of the
model has a lemma that says which fields it leaves alone, and each action one that
says what it keeps. `PromptServersAreKept` is about the time since the last sign of
life in the prompt environment. Its invariant says that every datagram is one of its server's
(`Fits`), that there was no call from Blueprint but `SelectCharacter`, and where the next sign of life
is (`Heard`): either the heartbeat timer runs and will fire within an interval of the last one, or
a heartbeat is under way, there or back, at most an interval after it, or one was
already under way when the last second began, and so is here before the next is over. The theorem needs `Interval + 1 <= Timeout` (the
code has 2 and 6): an answer that straddles a tick is a second older than the timer that asked
for it.

Only model-checked: the liveness properties (`SilentPlayerLeaves`, `BackToAuth`,
`StartedServerRegistered`, `SignalEndsServer`, `ComesToRest`, `ReportHeals`, and the fairness part of
`ImplementsAbstractLog`), as the prover has no fairness or ENABLED. Every invariant and every
action property of the passing runs, and the refinement by the game server, has a theorem. No module has a recursive operator.

## 5. Not modelled

* Data races. Handlers are atomic, although the socket thread, the server thread,
  the signal handler and the web GUI share maps and connections without a lock. A
  torn access is undefined behaviour of which no outcome is excluded, so there is
  no property left to state beyond the one that there should be a lock.
* The UDP sockets, packet layouts, encryption, compression, configuration files and the
  web GUI: I/O and conversions without state of their own.
* Chat messages, mobs, NPCs and items on the server: no code makes them.
* The client's chat socket, which is never given an address and shares nothing with the
  others, what Blueprint calls from inside a delegate that a handler broadcasts, the packets that only
  pass data on, and the game instance, which forwards delegates. The walk of the AI
  controller to the position an observer was told is the engine's: a teleport
  does not cancel it.
* The UDP server's endpoint map, which only grows. It never calls the connection handlers
  that `BaseServer` installs; the auth server calls the first of them itself when a
  connect request arrives (`auth/src/main.cpp:370`), which is `AuthServer!Connect`. `std::_Exit` loses log entries that are still queued.
* Two game servers and one character: each process saves what it last knew, so the
  eviction on the first may overwrite what the second has saved (section 6).
* 32-bit overflow of zone ids: positions beyond two million zone sizes.

## 6. Plan

Done: `Zones` and `GameWorld` with its abstract world and proofs; `AuthServer` with proofs; `ServerRegistry`, the
start, registration and end of servers, with proofs; `LogQueue` with its abstract log and
proofs; `Movement` with proofs; `ClientEntities` and `ClientConnection` with proofs.

Left, in this order:

1. `Handoff`: an auth server, two game servers and the row of one character: a
   character deleted between selection and connection, a late save of the server
   that was left. An abstract specification (a character is played by at most one
   session, of its account) which it implements in the ordinary environment.
2. `WorldView`: `GameWorld`'s packets as messages that are lost and overtake each
   other, on the one side `told`, on the other the client's entities.
