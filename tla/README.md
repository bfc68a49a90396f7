# A TLA+ verification of griefly

griefly is a networked multiplayer simulation of a space station. A Go server
(`gopath/src/griefly-server`) knows nothing of the game: it numbers the players,
puts everything they send into one order, sends that order to everybody and cuts
it into ticks. Every client (`sources/client`, `sources/core`, C++/Qt) runs the
*whole* world and applies the same messages in the same order. One client, the
*master*, is trusted: a client that joins gets the master's world through the
server's asset pipes, and every few ticks the clients' world hashes are compared
with the master's. So the system is correct when

1. every client is given the same stream of messages, whole, in order, and cut at
   the same places (the registry);
2. a joiner's starting world and the stream it then gets fit together (registry,
   asset pipe, client network, saving and loading);
3. a client's step from one tick to the next depends on nothing but the world and
   the stream, and what it does to the world is sound (core).

This directory holds TLA+ modules for these parts, TLC configurations that check
small instances, and TLAPS proofs for all instances. Paths below are relative to
`src/`; `S/` abbreviates `gopath/src/griefly-server/`, `C/` `sources/client/` and
`K/` `sources/core/`.

## 1. Inventory

| Component | State | Operations | Hard behaviours |
|---|---|---|---|
| Registry (`S/client.go`) | `clients` (id to inbox), `players` (login to id), `masterID`, `nextID`, `clientVersion`, `currentTick`, `nextTickCallbacks`, `hashes` | `registerPlayer`, `removePlayer`, `sendAll/One/Master`, tick handlers, hash checks, restart, forced tick, ping | handlers that lose clients half way; re-login; game ends and starts with things pending |
| Connection (`S/client_conn.go`) | position of `Run`, the `reciever` goroutine, its read error, a pending `RemovePlayer` | login, main loop, swallowing after a failed write | three goroutines per client, requests by id that arrive late |
| Messages, login, user database (`S/message.go`, `auth.go`, `json_db.go`, `model.go`) | the user files | parsing, password check, guest names | none beyond the registry's |
| Asset server (`S/assetserver.go`) | table of pipes; per pipe two channels, a rest buffer, an error | `MakePipe`, upload, download, `Read`, `Write`, `Close` | blocking channels, errors racing data, repeated requests |
| Dump writer, statistics (`S/telemetry.go`) | files, counters | `DumpMap` | upload that must not be blocked by a failing disk |
| Client network (`C/net/Network2.cpp`) | socket, receive buffer, state of the handshake, message queue | `handleNewData`, `HandleHeader/Body`, `sendMap`, `downloadMap` | the map arrives beside the stream |
| Client game loop (`C/Game.cpp`) | world, messages of the tick, the queue it takes from | `Process`, `ProcessInputMessages`, `InitWorld` | messages up to a tick are taken, the rest waits; the map is saved in between |
| Core tick (`K/CoreImplementation.cpp`) | messages of the tick, player to mob | `StartTick`, `FinishTick`, `ProcessInputMessage` | order of the phases of a tick |
| Object table (`K/ObjectFactory.cpp`, `Idptr.h`) | table by id, next id, ids to delete | create, `DeleteLater`, `ProcessDeletion`, `Hash` | use after deletion, id reuse after a load |
| Object processor (`K/objects/ObjectProcessor.cpp`) | list and lookup of objects to process | `Add`, `RunProcess` | list changed while it is walked |
| Loader and saver (`K/WorldLoaderSaver.cpp`, `FastSerializer.h`) | none | `Save`, `Load`, map generation | what is hashed but not saved makes a joiner diverge |
| Random numbers (`K/SynchronizedRandom.cpp`) | seed, calls, generator | `RandomU32`, `SetParams` | the generator's state is not saved, only where it is |
| Tiles, movables, forces (`K/objects/Tile.cpp`, `movable/Movable.cpp`, `PhysicsEngine.cpp`) | contents, turf, sums of passability, force queues | add/remove, `TryMove`, bump, forces | an object in two places or none; stale sums |
| Doors, closets, walls, windows (`K/objects/Door.cpp`, `movable/Closet.cpp`, `turfs/`, `movable/structures/`) | state, timers, contents, neighbours | open, close, break, turn, build | timers against bumps; neighbours that come and go |
| Atmospherics (`K/atmos/*`) | gas per cell and holder, flows | `ProcessGroup`, `Finalize`, `Connect`, fire | integer rounding; neighbours changed one after another |
| Pipes and tanks (`K/objects/movable/Pipes.cpp`, `GasTank.cpp`) | ends, held gas, state | join, pass gas on, turn, burst | both ends must agree |
| Mobs and minds (`K/objects/mobs/*`, `Lobby.cpp`) | mob per player, health, posture | login, damage, death, ghost, `MoveMindTo` | a player that controls two mobs or none |
| Interface and items (`K/objects/mobs/HumanInterface.cpp`, `movable/items/`) | slots, hands, states of items | take, drop, put on, use, shoot | an item in two slots, or lost between them |
| Representation and windows (`C/representation/`) | frames, views, camera | `Swap`, `SynchronizeViews`, `PerformPixelMovement`, clicks, closing | three threads, one frame; the end of all three |
| Sight, chat, map editor, launcher, vendored Go | not the game's state | | |

How they interact: a connection and the registry talk through unbuffered request
channels (`newPlayers`, `droppedPlayers`, `versionCheck`), the registry's buffered
inbox and one buffered inbox per client; a join makes a pipe, sends its upload URL
to the master and its download URL to the joiner; a client answers a hash request
through its connection. In the client the network thread feeds a queue that the
game loop empties once per tick, and frames go back to the main thread; the core is single
threaded, and every class of object is called from its tick.

`PROJECT.json` lists the components with their sources, the state of each, and
under `hazards` every place where this code can go wrong in a way a unit test
would hardly reach.

## 2. Modules

| Module | Models | Kind |
|---|---|---|
| `Registry` | `S/client.go`: the registry's state and every handler of its loop | component |
| `Server` | `Registry` with the connections of `S/client_conn.go` | composition |
| `GameSession` | what the registry promises about members and master | abstract specification |
| `AssetPipe` | `S/assetserver.go` and `DumpMap` of `S/telemetry.go` | component |
| `Lockstep` | the clients of one game: `C/net/Network2.cpp`, `C/Game.cpp`, saving and loading, random numbers; the registry as clients see it | composition |
| `Client` | the three threads of one client: `C/Game.cpp`, `C/representation/` | component |
| `Objects` | `K/ObjectFactory.cpp`, `K/objects/ObjectProcessor.cpp`, `K/objects/Object.cpp`; the phases of a tick; saving | component |
| `Gas`, `AtmosGrid`, `Pipes` | `K/atmos/AtmosHolder.cpp`, `AtmosGrid.cpp`, `K/objects/movable/Pipes.cpp`, `GasTank.cpp` as functions | operators |
| `Atmos` | the part of a tick that moves gas, and what players do to it | component |
| `Physics`, `Things`, `Tiles`, `Movables`, `Items`, `Humans` | vectors and forces; classes and their constructors; tiles and containers; steps, bumps, doors, closets, walls; items; mobs and minds: operators from worlds to worlds | operators |
| `Station` | a tick of the station: turns, gusts, messages, physics | composition |
| `MCServer`, `MCAssetPipe`, `MCLockstep`, `MCClient`, `MCObjects`, `MCAtmos`, `MCStation` | the small instances | for TLC |
| `ServerProofs`, `AtmosProofs` | theorems of the component each is named for | proofs |
| `LockstepProofs` | theorems of `Lockstep` and of `AssetPipe`, which share no name | proofs |
| `ClientProofs` | theorems of `Client` and of `Objects`, which share no name | proofs |
| `StationSound`, `StationSteps`, `StationProofs` | what a sound world is and what each operation on it does; what turns and actions do; theorems of `Station` | proofs |
| `FoldInduction` | induction over a fold, for any operator that is folded | lemmas |

The modules meet where the code's parts do. `Server` shows that every client is sent one
history with requests at the right places; `Lockstep` takes that stream for granted
and shows that the worlds made of it are equal; `AssetPipe` is the channel the map takes
between two clients; `Objects`, `Atmos` and `Station` look into a world's tick at three
levels (memory and turns, gas, things and people); `Client` is what becomes of a world
on the screen.

### Registry and Server

The registry is one goroutine, so handlers do not overlap; but a client's
goroutine can empty the client's inbox between any two sends of one handler, and
a send to a full inbox drops the client. A handler that sends more than once is
therefore a chain of actions, and the variable `stage` says which comes next:
while it is not `"select"` only the chain goes on (and the connections' own
steps). `joining`, `drops` and `scan` are the local variables that a chain needs: who is
being registered, whom a loop has yet to remove, and which answers a hash check has yet to look at.

* `registerPlayer` checks, takes or reuses an id; `ReenterPlayer` and
  `AdmitClient` are its later parts, `DropClient` is the removal loop at the end
  of `sendAll`, which may wipe the tables under them (`cleanUp`).
* `removePlayer` elects the next master. The code takes the first key of a Go map,
  which is a random one: any of `Successors`.
* `handleGameMessage` sends a message on with its sender's id, or drops it when it has no place for one.
* `handleNewTick`, `RunCallback`, `checkForHashStart`, `checkHashes`,
  `maybeSendConnCounter` and `TickDone` are the phases of a tick in the order of
  `handleNewTick` (client.go:521-527).
* `sendMaster` loops over masters it drops; `DropMaster` is one turn of the loop.
* An inbox is a Go channel that one connection gets when it registers, so the
  connection names it; `closed` is the set of closed ones. A send on a closed
  channel panics in Go; the model keeps such states out of `InboxOwnership`.

A connection `c` is `pc[c]` (`start`, `create`, `created`, `hello`, `loop`,
`leave`, `drain`, `gone`), `reader[c]` (the `reciever` goroutine and whether its
error is waiting), and `removing` (a `RemovePlayer` call that names `id[c]`).
`alive` is the client behind it: it dies at any time, and writes to it fail from
then on. Data is abstract: a message is its kind and the tick, id or joiner it is
about. `gap`, `world` and `told` are history variables for properties: how many messages
a client's world lacks, which ids have a mob, and which hashes were answered.

`GameSession` has three actions, start, join and leave, over the set of members
and the master. `SessionRefined` maps `Members` and `masterID` to it.

### AssetPipe

One pipe, from `MakePipe` to the last goroutine that uses it. HTTP requests are
processes; `ServeHTTP` picks any id that a client was told, any method, and an
upload with or without `Content-Length`; then a request is an uploader
(`announce`, `upload`, `fail`, `close`), a reader (`wait`, `read`) or over.
`DumpMap` is a reader that also has `pump`, the deferred copy to nowhere. A byte
is its position in the body and a slice of the body a pair of positions, so that
what arrives can be compared with what was sent without any content. `info`
carries a pointer, so the error of an upload may be seen through a `PipeInfo`
sent before it happened: `err[r]` is read when the info is taken. `Read`'s
`select` is the choice between `ReadData`, `ReadInfo` and the end of the data.
Pipes share nothing but the table of ids and its mutex, so one pipe is enough.

### Lockstep

Each client is three threads that hand messages on, one action per step:
`HandleBody` (socket thread), `InitWorld` and `sendMap` (main thread),
`ProcessTick`, `QueueMessage`, `SaveWorld` and `Hash` (game thread, by the type of the
message it takes). A world is the sequence of what happened in it, each step with the
random number it drew, the players that have a mob, and one room in which a welding tool may set
plasma on fire: two worlds are equal exactly if the same messages met the same numbers in the same
ticks and the same burns in them. `Save` and `Load` say what of it a map file keeps: the generator's state is rebuilt
from the seed and the count, and whether it burns is lost, because `operator<<` and `operator>>` of `AtmosHolder` leave
`fire` out. `Hashed` is what a hash is of, which is all that is saved and the fire (`K/atmos/AtmosHolder.h:82`).
`Burnt` and `Switched` are as much of the fire as that takes, a cell that spreads it to itself; `AtmosGrid` has the rest.
`doused` is a history variable: the clients whose map was saved in a fire, or by one of them.
`Run` is the tick as a recursive function over its messages. `truth` is a history variable:
the founder's world after each message of the stream.
The registry is as coarse as a client can see it (joins wait for a tick and are carried out in
their order, one request per joiner; when nobody is left they are turned away); `Server` has it in detail. A connection can break at any time, and a player can come back
while the old connection is still a member.

### Client

The main, game and socket thread share `old_frame_` and `is_updated_` and queue slots
for each other. A frame is its number, the entities in view and the camera's place.
`SynchronizeViews` is two actions, `CopyFrame` and `ShowFrame`, because
`is_updated_` is reset after the mutex is released. `GetPixelSpeedForDistance`, the
camera's shift and the levels a click runs through are the code's arithmetic; the axes are
treated alike, so TLC has one of them.

### Objects

The core is one thread, but it calls into the code of the game's objects, which
changes the very list and table it is walking. `stage` is where the thread stands:
map generation (`generate`), the loop of `FinishWorldCreation` (`finish`), between
two ticks (`idle`), the loop of `RunProcess` (`walk`), inside one object's `Process`
(`process`), and the rest of the tick, which is the atmosphere, the messages and the
physics (`calls`). In the three stages that run code of objects, that code is any
sequence of `CreateImpl`, `Delete` and `SetFreq`, the only calls it has that change
this state; no `AfterWorldCreation` deletes, so neither does the stage `finish`.
`CreateImpl` runs the `AfterWorldCreation` of the new object, and every object that
has a frequency sets it there: the parameter `f`.

* An object is its id. `live` is the table without its null entries, `doomed` is
  `ids_to_delete_` without the null pointers a second `Delete` puts into it.
* `RunProcess` is one action per kind of entry. `RemoveStale` moves the last entry
  into the place of a stale one and ends the walk, as the `return` in the code does:
  the entries behind get no turn in this tick. `cut` records it.
* Only `game_tick % how_often_` is read, so `tick` counts modulo a common multiple
  of the frequencies.
* `hearers` is a set; ids only grow and removing keeps the order, so its order is
  that of the ids.
* `Saved` is what `Save` writes and `Loaded` the world `Load` makes of it in a fresh
  factory: the list is read with the processor, its lookup is rebuilt from it
  (`LoadObjectsPlaces`), and each object that is loaded lists itself if it is not listed.

`freed`, `hearing`, `ran`, `due` and `cut` are history variables for properties.

### Atmos

A holder is a record of amounts, pressure, temperature and volume (`Gas`); energy is
exchanged as gases are, so both are "stuff". `Connect` keeps the code's integer
divisions and what they leave over. `AtmosGrid` has the five stages over the inner
cells of groups and then over the borders, fifteen steps in all; `Spread` does one
stage at once, which the theorem `StageIsParallel` justifies for every grid. The machines
of `Pipes` take their turns one by one in the order of their ids, after their sockets
were joined in that order. `ProcessConsequences` applies wind, pressure and fire to what
stands on a tile: the module has the gas itself and the forces it sends, `Station` what they do.

### Station

The world is a record and every operation of the code an operator from worlds to worlds,
so that a call that makes ten others is one expression, as it is one step of the one
thread. `Things` gives the classes and what their constructors set, `Tiles` contents,
sums and reach, `Movables` creation, steps, forces, bumps, doors, closets, walls,
windows, `Items` guns, tools and clothes, `Humans` hands, bodies, death, login and
minds. A tick is `StartTick` (turns, then any gust the layout offers), any messages of
players, `FinishTick` (physics). A random number that a message draws is a choice
(`chance`). An assertion that fails adds to `failed`, and the program has stopped.
An `IdPtr` is an id, valid until `Delete`.

## 3. Runs

All runs but `objects` say `CHECK_DEADLOCK FALSE`, because these bounded
systems really stop: clients do not reconnect, ticks end at `MaxTick`, a pipe is used once,
a window is closed. The world of `objects` never stops, and the run checks that.

| Run | Instance | Shows |
|---|---|---|
| `churn` | 3 connections, the administrator on two of them, inboxes of 2, one tick, any message of a client | `SystemAfterTick`, `InboxOwnership`, `SameHistory` |
| `orderly` | 3 connections, two administrators and a guest, inboxes that never fill, 2 ticks, a counter at the second | `GameSound`, `NoOrphanInbox`, `ClientsHaveMob`, `SessionRefined` |
| `live` | fairness, an administrator and a user, inboxes of 1, 3 ticks, a hash check every second one, equal or different hashes | `HandlerEnds`, `JoinResolves`, `ClosedEnds`, `DroppedOnEvidence` |
| `assets` | 3 requests and `DumpMap`, body of 5, slices to 3, read buffer 2, channel 2 | `PipeSound`, `InOrder`, `CompleteAtEnd`, `DumpDrains`, `DownloadEnds` |
| `objects` | up to 3 objects, frequencies 0, 1 and 2, any calls between any two steps | `ListSound`, `WalkIsComplete`, `MemorySound`, `SaveLosesNothing`, `OncePerTick` |
| `lockstep` | 3 connections of 2 players, 2 ticks, a key or a click on the welding tool, plasma for one tick, a break or a test of the hash checks | `WorldsAgree`, `HashesOfTick`, `PlayersKnown`, `EveryonePlays` |
| `client` | 3 frames, 2 entities, one axis of 12-pixel tiles | `ChatInOrder`, `CameraOnMob`, `ClickHitsTop`, `ClosesDown` |
| `atmos` | 8 x 8 cells in groups of 4, 9 machines, 2 ticks, 3 steps by people | `CellsSound`, `FlowsBalance`, `PipesMutual`, `GasConserved` |
| `station` | 5 maps of 4 x 3 tiles, 2 players, 3 acts | `WellPlaced`, `SumsAreCurrent`, `ShapeFollowsState`, `ForcesQueued`, `MindsSound`, `WallsMatch`, `OneStepPerTick` |
| `dangling` | an announcement that drops the last client | finding |
| `coffin` | somebody shut in a closet without air | finding |
| `burning` | `lockstep` without breaks and tests: somebody joins while a cell burns | finding |

The properties that end in `Sound` join what belongs together: `GameSound` types, unique ids, and a
master exactly while there is a game; `PipeSound` types, capacities, and no use after the
close; `ListSound` types, and agreement of list, lookup and frequencies; `MemorySound` that nothing is
freed twice, in use or still heard; `CellsSound` types, and no stale pressure;
`MindsSound` one living mob per player, and no assertion that fails.

**Bounds.** `MaxID` bounds the players of a game, `MaxTick` and `MaxTicks` ticks,
`MaxMessages` what clients send besides hash answers, `MaxActs` the acts of
players, `Plasma` the ticks a fire can last, `MaxFaults` broken connections, `MaxFrames` and `MaxMail` frames and slots
in a queue, `ChunkSize` and `ReadSize` the sizes of single copies, `MaxId` the objects
ever created. The constants `PlayerQueueLength`, `RegistryQueueLength`,
`StartHashCheckEvery`, `SendConnCountEvery`, `PipeQueueLength`, `HashEvery`, `TileSize` and the timers and
supplies of `Station` (`DOOR_TIME`, `FUEL`, `HUMAN_MAX_HEALTH`, ...) are the code's, made small.
They are enough for the cases that matter to happen:

* Inboxes of two messages fill up within a tick, so that every send of every handler finds
  a full inbox in some state (`churn`, `live`); three connections are a
  master, a client and a joiner, the most one handler distinguishes; the tick of `churn` carries out joins
  and may be one an administrator forces; the ticks of `live` let a join, a hash check, its decision a tick
  later and a late answer overlap. That requests for hashes come right after a tick too is for the theorem
  `RequestsAfterTick`: the one tick of `churn` asks for maps only. The administrator's two connections there
  are alike, so the run counts them as one another (`SYMMETRY`); it checks invariants only. The one message of `churn` may be a restart, after which dead games' joins meet the next game.
* In `orderly` inboxes never fill: what a full one does to the books of the registry is for the theorem `GameIsSound`,
  which holds for every capacity.
* In `assets` the body needs more slices than the channel holds and slices are larger than
  the read buffer, so that both sides block and rests are kept.
* Three objects are one that is processed, one that it removes and one whose entry moves;
  a world goes on for any number of ticks with those it has.
* In `lockstep` two ticks are one in which a map is asked for and one in which its loader
  has to go on where the master's world was; the third connection comes back for a player
  who has a mob already. A fire of one tick is lit in one tick and goes out in the next: whoever loads a save made between
  the two has a world without it.
* In `atmos` the grid has four groups, so all fifteen steps have centres, inner and at
  borders; two ticks begin with different stages.
* `station` has one map for each group of rules (`MCStation` describes them); each starts from a game played for some
  ticks so that the three acts are spent on what the map is for; seven ticks let timers run out.
* In `client` three frames let one be overtaken twice; twelve pixels are more than one step of
  every speed.

Every property of a passing run has a mutant in `PROJECT.json`: a change of the code
that TLC refutes with it under the same configuration.

**Fairness.** Weak fairness of each goroutine's own steps: the registry's
`select` picks at random among ready cases, so none is passed over for ever
(`WF(RegistryStep)`); a connection's goroutine keeps running, and as a write has no
deadline this assumes that a client that is alive reads what is sent to it. For
the pipe it is assumed that a client that uploads or downloads goes on until it is
lost. In `Lockstep` each thread of a client runs (`WF`). In `Client` threads run, and two
strong fairnesses say what the code's loops do: the game thread gets to the end of its
queue again and again (it is faster than the network, `SF(NoMoreMessages)`), and each
round of the main loop looks whether the window is there (`SF(EndLoop)`), which other
rounds may come before but not for ever. Nothing is assumed of when clients connect,
send, or die, and being lost is never forced: a full pipe that nobody reads stays full.

### What holds only in part

* `NoOrphanInbox` is checked with distinct logins. With a login that is used again while its first
  join still waits, the second join overwrites the first one's inbox, which is never closed
  (`S/client.go:334`): add `INVARIANT NoOrphanInbox` to `churn.cfg` to see it. `InboxesKept` proves
  that this is the only way: no inbox is lost if no login joins again while its join waits (`Patient`).
* `ClientsHaveMob` and `SessionRefined` are checked with roomy inboxes as well, because of the finding
  `dangling`. `EveryClientHasMob`, `MasterStays` and `RegistryImplementsSession` prove them, with inboxes of any size, for behaviours that are
  `Patient` and `Lasting`: the announcement of a newcomer does not drop the last client.
* `DroppedOnEvidence` speaks of ids. `r.hashes` is reset when the next check starts and at no other time, so a client
  that comes back under its id, or gets the id in the next game, while a check is open is judged by the answer its
  predecessor gave. That the answer is its own does not hold.
* A client whose join still waits is in no table, so its removal is lost and the join
  registers a connection that is over (`S/client.go:357`). The registry notices only when
  the dead client's inbox is full. `InboxOwnership` and `SameHistory` hold all the same.
* `HandlerEnds` is checked where no master dangles (see `dangling`).
* `WorldsAgree` and `HashesOfTick` say nothing of a client whose map was saved in a fire, or by such a client (`doused`): see `burning`.
* `SaveLosesNothing` is about the table, the list, the lookup, the hearers and the next id: what `ObjectFactory` and the processor
  are made of. What the objects hold inside is saved and hashed from one list of members per class (`KV_SAVEABLE`); the exception, a
  cell's fire, is in `Lockstep`.
* `EveryonePlays` speaks of joiners whose master has a world and is not lost. A master
  lost before it loaded its own map leaves its joiner waiting for ever: there is no timeout
  (`S/telemetry.go:30` notes one to do).
* `WalkIsComplete` holds of ticks without a stale entry on the way: removing one ends the walk
  (`K/objects/ObjectProcessor.cpp:39`), and no line says what the entries behind are owed.
* `ChatInOrder` allows the loss of a frame that is swapped in while another is shown (`overrun`):
  `is_updated_` is reset outside the mutex (`C/representation/Representation.cpp:381`).
* `WallsMatch` leaves out the sides of walls at the edge of the map, where a tile is its own
  neighbour and a wall sets the bit opposite to the edge as well.
* `OneStepPerTick` leaves out projectiles; a shot moves twice at once unless it goes south.
* `MindsSound` includes `NoFailure`, which the maps of `station` keep and `coffin` does not.

### Findings

* `dangling` (`S/client.go:304`): announcing a newcomer drops the last client and
  `cleanUp` wipes the tables in the middle of the registration; the newcomer
  becomes the master of a game in which it is no player. Ids start from 1 again, and when they have been counted up to the
  master's, the registration of whoever gets it deletes the master's inbox without an election. `MasterStays` says that without this, and without a login that joins
  twice at once, the master is always a member.
* `coffin` (`K/objects/mobs/Human.cpp:533`): somebody who dies in a closed closet gets a ghost
  created in the closet, which takes items and humans only; the assertion in
  `ObjectFactory.cpp` fails and every client stops.
* `burning` (`K/atmos/AtmosHolder.cpp:173`): whether a cell burns is hashed and acted on, but neither saved nor loaded.
  Somebody who joins in a fire starts from a world without it, is dropped at the next hash check as out of sync, and has
  other gas than the rest from then on. `WorldsStayEqual` and `HashesAreOfTheTick` say that without such a save nothing else
  does this.

The lines that each of them contradicts are quoted in `PROJECT.json`.

Seen while modelling, and in the modules as the code has it, without a line that
says otherwise: an upload blocks for ever when the joiner that downloads it is lost;
`map_sending_` is cleared by the first of two overlapping uploads; pipes at the
edge of the map join themselves; an object pulled from one's own tile moves south;
a bullet at the edge never ends its flight; a security locker cannot be opened from outside; an item under a force opens
the closet it lies in; windows break from one side of each axis only; the
directions of a force are not computed anew when friction lessens it.

## 4. Proofs

Every theorem about a specification is about `Spec` (`ClientSpec` in `Client`), for all values of the constants that
satisfy the module's assumptions: `RegistryAssumption` and `ServerAssumption` (finite set
of connections, sentinels distinct, capacities and periods positive, administrators and
guests disjoint logins), `PipeAssumption` (a non-empty channel, copies that move at least
a byte), `ObjectsAssumption` (frequencies are natural numbers that divide `TickPeriod`, 0
among them), `GridAssumption`, `PipesAssumption`, `SocketsAssumption` and `AtmosAssumption` (sides of the
grid are multiples of the group, machines are finitely many, sockets are sides and a pump has one, cells start up to date), `ClientAssumption` (a frame has an entity once and its camera on
the player's mob), `LockstepAssumption` (each connection has a login, the period of hash checks is positive,
sentinels distinct), and for the station `MapAssumption`, `ThingsAssumption`, `MovablesAssumption`, `ItemsAssumption`,
`HumansAssumption`, `StationAssumption` (a map has a tile, timers and supplies are natural numbers, the creator is a
player) and `LayoutsAssumption`: a map has one turf on every tile, as both maps of the repository have and as
`LoadObject` demands in part (`K/WorldLoaderSaver.cpp:221` stops at a second one), with any things in any number on
them; the game played on it so far is any sequence of ticks, logins and messages of players; chances are any that the
code can draw and gusts of any place, way and strength.

| Theorem | Property | Inductive invariant |
|---|---|---|
| `ServerProofs!TypeCorrect` | types | `TypeInv` |
| `ServerProofs!InboxesOwned` | `InboxOwnership` | `TypeInv`, `OwnershipInv` |
| `ServerProofs!GameIsSound` (from `IdsAreUnique`, `MasterAlways`) | `GameSound` | `TypeInv`, `GameInv` |
| `ServerProofs!InboxesKept` (if `Patient`) | `NoOrphanInbox` | + `PlacesInv` |
| `ServerProofs!RegistryImplementsSession`, `EveryClientHasMob`, `MasterStays` (if `Patient` and `Lasting`) | `SessionRefined`, `ClientsHaveMob`, the master is a member | + `SessionInv`, `MobInv` |
| `ServerProofs!OneHistory` | `SameHistory` | + `HistoryInv` |
| `ServerProofs!RequestsAfterTick` | `SystemAfterTick` | + `OrderInv` |
| `ServerProofs!EvidenceForDrops` | `DroppedOnEvidence` | + `EvidenceInv`, `ScanInv` |
| `LockstepProofs!WorldsStayEqual`, `HashesAreOfTheTick`, `NobodyIsUnknown` | `WorldsAgree`, `HashesOfTick`, `PlayersKnown` | `LockstepInv`, for all three |
| `LockstepProofs!PipeIsSound` (from `PipeTyped`, `NeverUsedAfterClose`) | `PipeSound` | `UseInv` |
| `LockstepProofs!BytesInOrder` | `InOrder` | `UseInv`, `FlowInv` |
| `LockstepProofs!WholeAtEnd` | `CompleteAtEnd` | `UseInv`, `FlowInv`, `EndInv` |
| `ClientProofs!ListIsSound`, `MemoryIsSound` | `ListSound`, `MemorySound` | `ObjInv`, for all of these |
| `ClientProofs!WalkReachesDue`, `OneTurnPerTick` | `WalkIsComplete`, `OncePerTick` | |
| `ClientProofs!SaveIsFaithful` | `SaveLosesNothing` | |
| `ClientProofs!IdsAreFresh` | no id is given twice | |
| `AtmosProofs!ConnectConserves`, `ExchangeConserves` | an exchange of two holders, or of a centre and its neighbours, keeps every sum | lemmas on \div and % |
| `AtmosProofs!StageIsParallel`, `CentresInside` | centres of a stage have disjoint neighbourhoods, all inside the map | arithmetic modulo 5 |
| `AtmosProofs!CellsAreSound` | `CellsSound` | itself |
| `AtmosProofs!GasIsConserved` | `GasConserved`, for every closed room | `CellsSound` |
| `AtmosProofs!FlowsCorrect` | `FlowsBalance` | with the types |
| `AtmosProofs!PipesCorrect` | `PipesMutual` | with the types |
| `ClientProofs!ChatIsInOrder`, `CameraStaysOnMob`, `ClicksHitTop` | `ChatInOrder`, `CameraOnMob`, `ClickHitsTop` | `ClientInv` |
| `ClientProofs!GlideApproaches` | a glide never goes past its target | |
| `StationProofs!StationIsSafe` | the world is sound after every step | `Safe`, for all below |
| `StationProofs!ObjectsAreWellPlaced` | `WellPlaced` | |
| `StationProofs!SumsStayCurrent`, `ShapesFollowStates`, `WallsAlwaysMatch` | `SumsAreCurrent`, `ShapeFollowsState`, `WallsMatch` | |
| `StationProofs!ForcesStayQueued` | `ForcesQueued` | |
| `StationProofs!MindsAlwaysAgree` | `MindsAgree`, which is `MindsSound` without `NoFailure` | |
| `StationProofs!StepsAreSingle` | `OneStepPerTick` | with `Strides` of each step |

* `TypeInv`: types are not inductive alone. A handler stopped in a registration
  must still know whom it registers, a hash request must be for a tick of the game.
* `OwnershipInv`: an inbox belongs to nobody until its connection's request is
  taken up; from then on it is in exactly one of the table, the waiting joins and
  the registration under way, until it is closed. Each handler moves it between
  these places.
* `GameInv`: a game without a master is clean (no player, id or version) except
  between the announcement of a newcomer and its admission, and a player that
  re-enters does so while there is a master and nobody waits to be dropped.
* `HistoryInv`: the gap of each client is zero, or it is waiting for its drop; an
  inbox whose client is not registered, or waits for its join, is empty and lacks
  nothing.
* `OrderInv`: every inbox is ordered, and in the phases of a tick that ask about
  the world each one ends in the tick or in an earlier request of the same tick.
* `PlacesInv` is `NoOrphanInbox` with what a waiting join knows: the id it will get still belongs to its login,
  or the join is turned away. `Patient` is used where a second join would take that id.
* `SessionInv` and `MobInv`: outside the stages that are in the middle of a change the master is in the table, and who is
  in the table, or waits with a mob, has been announced; inside them the handler's local state says what is missing.
  Each step of the registry is then a start, a join, a leave or a stutter of `GameSession`.
* `EvidenceInv`: every answer in the registry's inbox and in the records of a check was given by that id for that
  tick. `ScanInv`: only checks that are pending are still to be looked at, and none outside the stage `checkHashes`.
* `LockstepInv`: what a client has read of the stream, what waits in its queue, and what is on the wire are, but for requests,
  the stream (`Placed`); a world is like `truth` at the place its client has read to (`Alike`); a save on
  its way to a joiner is like `truth` at the place where the joiner starts (`SaveInv`); a request asks for the
  world's tick at the place it lies in the queue, and the answer is the hash of a world like that one (`AnswerInv`); a player is announced, or is in the first world, before its first message
  (`PlayerInv`). Two worlds are alike if they are equal in a `View` that leaves out the test of the hash checks and, of a client
  that is `doused`, the fire and the plasma: every step of a world commutes with the view (`GenerateWorld`, `BurntWorld`,
  `SwitchedWorld`, `TickedWorld`), and a save brings back all but the fire (`SaveWorldSaves`). What a tick does is the function `Run`: `RunExists` shows that the recursion has a solution
  and `SetInduction` carries facts along it, with a set of numbers in the place of an operator.
* `UseInv`: each id is good for one request, so there is one uploader and one
  reader; once `data` is closed nobody uploads.
* `FlowInv`: what the reader has, the rest in `readBuf` and the slices in `data` lie
  end to end in the body, up to the last byte the uploader has written. `EndInv`: when `data`
  is closed the upload failed or is whole.
* `ObjInv` is `TypeOK`, `ListInv`, `FreedOnce`, `RestInv` and `WalkInv`. `ListInv`: list and lookup
  agree and hold every live object with a frequency. `RestInv`:
  between ticks nothing is doomed, and the hearers are exactly right up to those deleted
  in this tick. `WalkInv`: what the walk has passed and processed lies before `i`, what is due and has
  not run lies from `i` to `end`, and the list is never shorter than `end`: callbacks
  only append, and the one removal ends the walk. The lemmas `ListFits` (a list without
  repetitions is no longer than the ids) and `WalkUndisturbed` carry most of it.
* `Atmos`: `FlowsBalance` is inductive because the neighbourhoods of a stage's centres do not
  meet (`StageIsParallel`), so a pair of neighbours is touched by at most one exchange in a
  step; `CellsSound` because no exchange takes more than there is (`PartBound`) and each ends
  in `UpdateMacroParams`; `PipesMutual` because a pipe answers only when its own end is
  free (`Accepts`), and both ends are set in one step. `GasConserved` is a statement about sums, and the sums
  about `SumFunctionOnSet`: `SumChanges` says that a sum changes by what one summand changes. The exchange of one
  centre changes five cells, and in a closed room what they gain is zero
  (`ExchangeConserves`, `SpreadOne`); `SpreadKeeps` adds up the centres of a stage by induction, each of which
  finds its five cells as the stage began (`StageIsParallel`). A machine's turn is a chain of exchanges of two
  holders (`ConnectExchanges`, `ProcessedKeeps`).
* `ClientInv`: the frame that waits is the newest, what was shown is older than it, and while
  a frame is shown nothing else changes the views. `CameraOnMob` needs that the camera's shift
  and a view glide by the same odd function of the distance (`SpeedIsOdd`).

* `Safe` of `Station` is `Sound(Nil, Nil, world)`: types (`Formed`), places (`Settled`), queues (`Forces`), sums (`Sums`),
  shapes (`Shapes`), minds (`Minds`) and walls (`Walls`). None is inductive alone. That a sum is right after a step needs
  that what left the tile was in its contents once, which needs that it was in no hand; that a player is not left in a dead
  body needs that a body is in one place when its ghost is made; a wall can only be told of a neighbour if
  the turf under it is the one the tile names. Operations call each other in states where some
  part fails, so the lemmas of `StationSound` speak of `Sound(A, U, w)` with exceptions: `A` is on its way between containers, `U` has
  changed its shape but has not been told. Each operation has a lemma; `CreateSane`, `DeleteObjectSane`, `SetTurfSound` and
  the like say what it does to the exceptions, and from `Good` on there are none. `Since` relates a world to the one its step began
  with; it carries `OneStepPerTick`, and also that closets and humans outlive the loops that hold their ids.
  The start is proved as the rest is: `LoadedSound` reads a map thing by thing, a turf before or after what lies on it, and
  `BegunSound` runs `AfterWorldCreation` over all of it, where walls learn their neighbours one by one.
* `FoldInduction`: the operators of `Station` are folds (`ForEach`, `RunProcess`, `Map`, ...), and the library's induction
  theorems have an operator as a parameter, which no prover here can instantiate. `FoldKeeps` is proved for constants `Op` and `P` and
  the module is instantiated for each loop; `SetInduction` and `SpreadKeeps` use sets of numbers to the same end.

Only model-checked: liveness (`HandlerEnds`, `JoinResolves`, `ClosedEnds`, `DumpDrains`,
`DownloadEnds`, `EveryonePlays`, `ClosesDown`), which TLAPS cannot prove, and `NoFailure`, which is no theorem:
`coffin` refutes it, and `station` checks it on maps where nobody dies in a closet.

## 5. Plan

Done: `Registry`, `Server` and `GameSession`; `AssetPipe`; `Objects`; `Gas`, `Pipes` and `Atmos`;
`Physics` to `Station`; `Lockstep`; `Client`; the proofs above. What could follow:

1. `NoFailure` under the condition that nobody dies in a closet, which needs that every other container takes what is created in it.
2. The tick of `Station` as what one object's turn, the calls and the physics do in `Objects`.

## 6. Not modelled

The map editor, the launcher, vendored packages and assets hold no state of the game.
Sprites, shaders, sounds, texts and the units of the interface are drawn from a frame and
change nothing. What a player sees and hears (line of sight, `ChatFrameInfo`) is derived from the world in
each tick and not saved; `Client` takes it as the contents of a frame. Parsing and JSON bodies,
passwords (a choice between success and refusal), log lines and counters are left out. So are messages of a form that no
client of the repository sends: a first message that is no login (`S/client_conn.go:221`), or an OOC message
without a body (`S/client.go:496`), fails a type assertion and the server stops; in `Server` it ends one connection, or is forwarded.
An `IdPtr` is its id; the cast pointer it keeps (`K/Idptr.h:133`) is below the level of the
models. Of the objects, computers, signs, food, toys and books answer a click with text or nothing and are one
inert item; the monkey, which nothing creates for a player, ladders between levels and the magic tank of the map
makers, which makes gas, are left out. `PROJECT.json` gives the state of every component.
