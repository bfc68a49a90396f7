------------------------------ MODULE Lockstep ------------------------------
(* The clients of one game.  The server sends every client the same stream  *)
(* of messages; each client runs a world of its own and carries the stream  *)
(* out tick by tick, so that the worlds stay equal without ever being sent  *)
(* around.  Only a client that joins gets a world, which the master saves   *)
(* when it is asked to and uploads.                                         *)
(* In each client three threads hand messages on: the socket thread takes   *)
(* them off the wire, the main thread downloads and uploads maps, and the   *)
(* game thread takes messages off the queue and runs the ticks.             *)
(* A world is what happened in it, step by step, with the random number     *)
(* each step drew: any message lost, repeated, moved or met by another      *)
(* random number makes another world.  Of its rooms it has one, in which a  *)
(* welding tool may set plasma on fire: that a cell burns is hashed and     *)
(* acted on, but neither written to a map nor read from one.                *)
EXTENDS Naturals, Sequences, FiniteSets, Functions

CONSTANTS Clients,      \* the connections of client programs
          Logins,       \* the players; a login stands for its id in the game
          LoginOf,      \* the login each connection uses
          None, NoMap,  \* no value, and the map "no_map" of the first client
          HashEvery,    \* StartHashCheckEvery
          Plasma,       \* what there is to burn when the game begins, in ticks
          MaxTicks, MaxActs, MaxFaults    \* bounds: ticks, messages of players, broken connections and tests

VARIABLES stream,    \* what the server has sent to all clients since the game began
          members, waiting, master, founder,  \* the registry: clients, postponed joins in order, masterID, the first client
          wire,      \* per client: sent and not yet arrived
          socket,    \* per client: state of the connection
          queue,     \* per client: received_messages_
          map,       \* per client: the map named by SUCCESS_CONNECTION
          world, pending,    \* per client: world_ and messages_to_process_
          outgoing,  \* per client: maps the main thread has yet to post
          stored,    \* per joiner: the map behind its URL
          answers,   \* the hashes the server was sent
          troubles,  \* the clients that met a message or a frame of an unknown player
          read,      \* per client: how much of the stream its game thread has taken
          truth,     \* history: the first client's world after each message of the stream
          uploader,  \* history: who was asked for a joiner's map
          doused,    \* history: the clients whose map, or whose uploader's, was saved in a fire
          faults

registry == <<stream, truth, members, waiting, master, founder, uploader>>
threads == <<queue, map, world, pending, outgoing, stored, answers, troubles, doused>>
vars == <<registry, wire, socket, read, faults, threads>>

Tick == [type |-> "NEW_TICK"]
OfPlayer(type, login) == [type |-> type, id |-> login]
Success(url) == [type |-> "SUCCESS_CONNECTION", map |-> url]
MapUpload(url) == [type |-> "MAP_UPLOAD", url |-> url]
RequestHash(tick) == [type |-> "REQUEST_HASH", tick |-> tick]

\* What the server sends to all clients, which makes the worlds what they are.
\* Of what players do, a click on the welding tool is told apart.
Acts == {"ORDINARY", "MOUSE_CLICK"}
PlayerMessages == {OfPlayer(type, login) : type \in Acts \cup {"NEW_CLIENT"}, login \in Logins}
StreamMessages == {Tick} \cup PlayerMessages

Count(type, s) == Cardinality({i \in DOMAIN s : s[i].type = type})
-----------------------------------------------------------------------------
(* Worlds. *)
Generators == [seed : Clients, taken : Nat]

Worlds == [tick : Nat, players : SUBSET Logins, seed : Clients, calls : Nat, generator : Generators,
           steps : Seq([step : StreamMessages, drew : Generators \cup {None}]),
           unsync : Clients \cup {None}, welding : BOOLEAN, plasma : Nat, fire : BOOLEAN]

ASSUME LockstepAssumption == /\ LoginOf \in [Clients -> Logins]
                             /\ HashEvery \in Nat \ {0} /\ Plasma \in Nat
                             /\ None \notin Clients \cup Worlds /\ NoMap \notin Clients

\* A number drawn: the generator's state is its seed and the numbers taken.
Generate(w, step) ==
    [w EXCEPT !.calls = @ + 1, !.generator.taken = @ + 1,
              !.steps = Append(@, [step |-> step, drew |-> w.generator])]

\* What mapgen makes: the lobby, and a login mob for the client that does it.
Generated(c) ==
    [tick |-> 0, players |-> {LoginOf[c]}, seed |-> c, calls |-> 0,
     generator |-> [seed |-> c, taken |-> 0], steps |-> <<>>, unsync |-> None,
     welding |-> FALSE, plasma |-> Plasma, fire |-> FALSE]

\* What is written: all but the generator and whether it burns.
Save(w) == [tick |-> w.tick, players |-> w.players, seed |-> w.seed, calls |-> w.calls, steps |-> w.steps,
            unsync |-> w.unsync, welding |-> w.welding, plasma |-> w.plasma]

\* What is read back: the holder of a cell is made without a fire.
Restored(saved, taken) ==
    [tick |-> saved.tick, players |-> saved.players, seed |-> saved.seed, calls |-> saved.calls,
     generator |-> [seed |-> saved.seed, taken |-> taken], steps |-> saved.steps, unsync |-> saved.unsync,
     welding |-> saved.welding, plasma |-> saved.plasma, fire |-> FALSE]

\* Loading seeds the generator again and discards the numbers that were drawn.
LoadUnwound(saved) == Restored(saved, 0)

Load(saved) == Restored(saved, saved.calls)

\* What is hashed: all that is saved, and the fire.
Hashed(w) == [saved |-> Save(w), fire |-> w.fire]

\* A tool that is switched on sets its tile on fire in each of its turns, which
\* it has in every second tick; a fire goes on while there is plasma.
Burnt(w) ==
    LET lit == w.fire \/ (w.welding /\ w.tick % 2 = 0)
        fire == lit /\ w.plasma > 0
    IN [w EXCEPT !.fire = fire, !.plasma = IF fire THEN @ - 1 ELSE @]

StartTick(w) == Burnt(Generate([w EXCEPT !.tick = @ + 1], Tick))

Switched(w) == [w EXCEPT !.welding = ~@]

\* A known client is not created again; other messages go to the player's mob.
ProcessMessage(w, m) ==
    IF m.type = "NEW_CLIENT"
    THEN IF m.id \in w.players THEN w
         ELSE [w EXCEPT !.players = @ \cup {m.id}, !.steps = Append(@, [step |-> m, drew |-> None])]
    ELSE IF m.type = "MOUSE_CLICK" THEN Switched(Generate(w, m)) ELSE Generate(w, m)

\* A tick, and the messages that came before it one after the other.
Run(w, ms) ==
    LET run[n \in 0..Len(ms)] == IF n = 0 THEN StartTick(w) ELSE ProcessMessage(run[n - 1], ms[n]) IN run

Ticked(w, ms) == Run(w, ms)[Len(ms)]

\* One message of the stream carried out: the world, and what waits for the tick.
After(r, m) == IF m = Tick THEN [world |-> Ticked(r.world, r.pending), pending |-> <<>>]
               ELSE [r EXCEPT !.pending = Append(@, m)]
-----------------------------------------------------------------------------
LockstepTypeOK ==
    /\ members \subseteq Clients /\ waiting \in Seq(Clients \ members)
    /\ master \in Clients \cup {None} /\ founder \in Clients \cup {None}
    /\ socket \in [Clients -> {"off", "first", "open", "closed"}]
    /\ map \in [Clients -> Clients \cup {None, NoMap}]
    /\ read \in [Clients -> 0..Len(stream)]
    /\ troubles \subseteq Clients /\ doused \subseteq Clients

Init ==
    /\ stream = <<>> /\ truth = <<>> /\ members = {} /\ waiting = <<>> /\ master = None /\ founder = None
    /\ wire = [c \in Clients |-> <<>>] /\ socket = [c \in Clients |-> "off"]
    /\ queue = [c \in Clients |-> <<>>] /\ map = [c \in Clients |-> None]
    /\ world = [c \in Clients |-> None] /\ pending = [c \in Clients |-> <<>>]
    /\ outgoing = [c \in Clients |-> <<>>] /\ stored = [c \in Clients |-> None]
    /\ answers = {} /\ troubles = {} /\ doused = {}
    /\ read = [c \in Clients |-> 0] /\ uploader = [c \in Clients |-> None]
    /\ faults = 0

\* What lies on the wires after ms was sent to a client, and to all of them.
Sent(c, ms) == IF socket[c] = "closed" THEN wire[c] ELSE wire[c] \o ms
SentAll(ms) == [c \in Clients |-> IF c \in members THEN Sent(c, ms) ELSE wire[c]]
-----------------------------------------------------------------------------
(* The registry, as the clients see it. *)

\* The stream grows by at most one message at a time.
Streams(ms) == /\ stream' = stream \o ms
               /\ truth' = IF ms = <<>> THEN truth ELSE Append(truth, After(truth[Len(truth)], ms[1]))

\* The first client is told to make the world itself.
RegisterFirst(c) ==
    /\ founder = None
    /\ founder' = c /\ master' = c /\ members' = {c}
    /\ truth' = <<[world |-> Generated(c), pending |-> <<>>]>>
    /\ wire' = [wire EXCEPT ![c] = <<Success(NoMap)>>]
    /\ socket' = [socket EXCEPT ![c] = "first"]
    /\ UNCHANGED <<stream, waiting, uploader, read, faults, threads>>

\* The message that creates a player the game has not seen yet.
AnnouncedToNobody(c) == <<>>

Announced(c) ==
    IF \E i \in 1..Len(stream) : stream[i] = OfPlayer("NEW_CLIENT", LoginOf[c])
       \/ LoginOf[c] = LoginOf[founder]
    THEN <<>> ELSE <<OfPlayer("NEW_CLIENT", LoginOf[c])>>

\* Whoever used the login before is removed; a new login is announced; the map
\* is asked for at the next tick.  (A login whose first join still waits is
\* left to Server, and so is the end of a game.)
Register(c) ==
    LET old == {d \in members : LoginOf[d] = LoginOf[c]}
    IN /\ socket[c] = "off" /\ founder /= None
       /\ \A d \in Range(waiting) : LoginOf[d] /= LoginOf[c]
       /\ members \ old /= {}
       /\ members' = members \ old
       /\ waiting' = Append(waiting, c)
       /\ IF master \in old THEN master' \in members' ELSE UNCHANGED master
       /\ Streams(Announced(c))
       /\ wire' = [d \in Clients |-> IF d \in old THEN <<>> ELSE SentAll(Announced(c))[d]]
       /\ socket' = [d \in Clients |-> IF d \in old THEN "closed" ELSE IF d = c THEN "first" ELSE socket[d]]
       /\ UNCHANGED <<founder, uploader, read, faults, threads>>

\* Two clients at least are asked for a hash, after the tick it is about.
HashesDue(tick) == IF tick % HashEvery = 0 /\ \E c, d \in members : c /= d
                   THEN <<RequestHash(tick)>> ELSE <<>>

TickMessagesAskFirst(tick) == HashesDue(tick) \o <<Tick>>

TickMessages(tick) == <<Tick>> \o HashesDue(tick)

\* The master is asked for a map for each join that waits, in their order.
MapRequests == [i \in 1..Len(waiting) |-> MapUpload(waiting[i])]

\* A tick: NEW_TICK to all, a request for hashes, then the postponed joins,
\* each of which asks the master for a map and tells the joiner where it is.
NewTick ==
    LET tick == Count("NEW_TICK", stream) + 1 IN
       /\ members /= {} /\ tick <= MaxTicks
       /\ Streams(<<Tick>>)
       /\ wire' = [c \in Clients |->
                     IF c \in Range(waiting) THEN Sent(c, <<Success(c)>>)
                     ELSE IF c = master THEN Sent(c, TickMessages(tick) \o MapRequests)
                     ELSE SentAll(TickMessages(tick))[c]]
       /\ uploader' = [c \in Clients |-> IF c \in Range(waiting) THEN master ELSE uploader[c]]
       /\ read' = [c \in Clients |-> IF c \in Range(waiting) THEN Len(stream) + 1 ELSE read[c]]
       /\ members' = members \cup Range(waiting) /\ waiting' = <<>>
       /\ UNCHANGED <<master, founder, socket, faults, threads>>

\* A key, a click or a phrase of a client is sent on to all.
Forward(c, type) ==
    LET m == <<OfPlayer(type, LoginOf[c])>>
    IN /\ c \in members /\ socket[c] \in {"first", "open"}
       /\ Count("ORDINARY", stream) + Count("MOUSE_CLICK", stream) < MaxActs
       /\ Streams(m)
       /\ wire' = SentAll(m)
       /\ UNCHANGED <<members, waiting, master, founder, uploader, socket, read, faults, threads>>

\* A connection breaks: what has not arrived never will.
errorSocket(c) ==
    /\ socket[c] \in {"first", "open"} /\ faults < MaxFaults
    /\ faults' = faults + 1
    /\ socket' = [socket EXCEPT ![c] = "closed"] /\ wire' = [wire EXCEPT ![c] = <<>>]
    /\ UNCHANGED <<registry, read, threads>>

\* The server notices; joins that wait when nobody is left are turned away.
\* A join whose connection broke meanwhile is carried out all the same.
RemovePlayer(c) ==
    /\ socket[c] = "closed" /\ c \in members
    /\ members' = members \ {c}
    /\ IF members' = {} THEN master' = None
       ELSE IF master = c THEN master' \in members' ELSE UNCHANGED master
    /\ waiting' = IF members' = {} THEN <<>> ELSE waiting
    /\ socket' = [d \in Clients |-> IF members' = {} /\ d \in Range(waiting) THEN "closed" ELSE socket[d]]
    /\ UNCHANGED <<stream, truth, founder, uploader, wire, read, faults, threads>>
-----------------------------------------------------------------------------
(* A client. *)

\* The socket thread: the first message starts the main thread, the others
\* wait in the queue, whether a world is there already or not.
HandleBody(c) ==
    /\ wire[c] /= <<>>
    /\ wire' = [wire EXCEPT ![c] = Tail(@)]
    /\ \/ /\ socket[c] = "first"
          /\ map' = [map EXCEPT ![c] = Head(wire[c]).map]
          /\ socket' = [socket EXCEPT ![c] = "open"]
          /\ UNCHANGED queue
       \/ /\ socket[c] = "open"
          /\ queue' = [queue EXCEPT ![c] = Append(@, Head(wire[c]))]
          /\ UNCHANGED <<map, socket>>
    /\ UNCHANGED <<registry, read, faults, world, pending, outgoing, stored, answers, troubles, doused>>

\* The main thread: a map is made or loaded, and the game thread started.
InitWorld(c) ==
    /\ world[c] = None /\ map[c] /= None
    /\ \/ /\ map[c] = NoMap
          /\ world' = [world EXCEPT ![c] = Generated(c)]
       \/ /\ map[c] /= NoMap /\ stored[map[c]] /= None
          /\ world' = [world EXCEPT ![c] = Load(stored[map[c]])]
    /\ UNCHANGED <<registry, wire, socket, read, faults, queue, map, pending, outgoing, stored, answers, troubles, doused>>

sendMap(c) ==
    /\ outgoing[c] /= <<>>
    /\ stored' = [stored EXCEPT ![Head(outgoing[c]).url] = Head(outgoing[c]).data]
    /\ outgoing' = [outgoing EXCEPT ![c] = Tail(@)]
    /\ UNCHANGED <<registry, wire, socket, read, faults, queue, map, world, pending, answers, troubles, doused>>

\* The game thread takes a message.
Pops(c, type) == world[c] /= None /\ queue[c] /= <<>> /\ Head(queue[c]).type = type
Popped(c) == queue' = [queue EXCEPT ![c] = Tail(@)]

\* NEW_TICK: the tick runs with the messages that came before it.  A message
\* of a player without a mob fails an assertion, and a frame needs the mob of
\* the player that looks.
ProcessTick(c) ==
    LET w == Ticked(world[c], pending[c])
        unknown == {i \in 1..Len(pending[c]) :
                       /\ pending[c][i].type /= "NEW_CLIENT"
                       /\ \A j \in 1..(i - 1) : pending[c][j] /= OfPlayer("NEW_CLIENT", pending[c][i].id)
                       /\ pending[c][i].id \notin world[c].players}
    IN /\ Pops(c, "NEW_TICK") /\ Popped(c)
       /\ world' = [world EXCEPT ![c] = w]
       /\ pending' = [pending EXCEPT ![c] = <<>>]
       /\ read' = [read EXCEPT ![c] = @ + 1]
       /\ troubles' = IF unknown = {} /\ LoginOf[c] \in w.players THEN troubles ELSE troubles \cup {c}
       /\ UNCHANGED <<registry, wire, socket, faults, map, outgoing, stored, answers, doused>>

QueueMessage(c) ==
    \E type \in Acts \cup {"NEW_CLIENT"} :
       /\ Pops(c, type) /\ Popped(c)
       /\ pending' = [pending EXCEPT ![c] = Append(@, Head(queue[c]))]
       /\ read' = [read EXCEPT ![c] = @ + 1]
       /\ UNCHANGED <<registry, wire, socket, faults, map, world, outgoing, stored, answers, troubles, doused>>

\* The save to post, behind those that wait already.
UploadWhenIdle(c) == IF outgoing[c] = <<>> THEN <<[url |-> Head(queue[c]).url, data |-> Save(world[c])]>> ELSE <<>>

Upload(c) == <<[url |-> Head(queue[c]).url, data |-> Save(world[c])]>>

SaveWorld(c) ==
    /\ Pops(c, "MAP_UPLOAD") /\ Popped(c)
    /\ outgoing' = [outgoing EXCEPT ![c] = @ \o Upload(c)]
    /\ doused' = IF world[c].fire \/ c \in doused THEN doused \cup {Head(queue[c]).url} ELSE doused
    /\ UNCHANGED <<registry, wire, socket, read, faults, map, world, pending, stored, answers, troubles>>

\* The answer carries the world's own tick, not the one that was asked for.
Hash(c) ==
    /\ Pops(c, "REQUEST_HASH") /\ Popped(c)
    /\ answers' = answers \cup {[from |-> c, asked |-> Head(queue[c]).tick, tick |-> world[c].tick,
                                hash |-> Hashed(world[c])]}
    /\ UNCHANGED <<registry, wire, socket, read, faults, map, world, pending, outgoing, stored, troubles, doused>>

\* A player asks for a test of the hash checks: a string gets a unique value.
PerformUnsync(c) ==
    /\ world[c] /= None /\ faults < MaxFaults
    /\ faults' = faults + 1
    /\ world' = [world EXCEPT ![c].unsync = c]
    /\ UNCHANGED <<registry, wire, socket, read, queue, map, pending, outgoing, stored, answers, troubles, doused>>

ProcessInputMessages(c) == ProcessTick(c) \/ QueueMessage(c) \/ SaveWorld(c) \/ Hash(c)
MainThread(c) == InitWorld(c) \/ sendMap(c)

Next ==
    \/ NewTick
    \/ \E c \in Clients :
          \/ RegisterFirst(c) \/ Register(c) \/ errorSocket(c) \/ RemovePlayer(c)
          \/ \E type \in Acts : Forward(c, type)
          \/ HandleBody(c) \/ MainThread(c) \/ ProcessInputMessages(c) \/ PerformUnsync(c)

Fairness == \A c \in Clients : /\ WF_vars(HandleBody(c)) /\ WF_vars(ProcessInputMessages(c))
                               /\ WF_vars(InitWorld(c)) /\ WF_vars(sendMap(c))

Spec == Init /\ [][Next]_vars /\ Fairness
-----------------------------------------------------------------------------
\* A client that has carried out n messages of the stream has the world those
\* messages make of the first client's, whether it was there from the start or
\* loaded a save on the way: messages that reach it before its world is loaded
\* wait in the queue, and none is applied twice (Game.cpp, Network2.cpp,
\* WorldLoaderSaver.cpp).  Of a client whose world comes from a save made in a
\* fire nothing is said: AtmosHolder does not save it.
WorldsAgree ==
    /\ LockstepTypeOK
    /\ \A c \in Clients \ doused :
          world[c] /= None /\ world[c].unsync = None =>
             truth[read[c] + 1] = [world |-> world[c], pending |-> pending[c]]

\* Hashes that are compared are of one tick: every answer to a request is the
\* hash after the tick the server asked for, of the world the first client had
\* then, unless the client was unsynced on purpose or its world was saved in a
\* fire (Game.cpp: the answer carries GetGameTick, the request's tick is not read).
HashesOfTick ==
    \A a \in answers :
       /\ a.asked = a.tick
       /\ a.hash.saved.unsync = None /\ a.from \notin doused =>
            \E n \in 1..Len(stream) : /\ stream[n] = Tick /\ truth[n + 1].world.tick = a.tick
                                      /\ a.hash = Hashed(truth[n + 1].world)

\* What world_loader_saver_tests.cpp asks of a map, that the world loaded from
\* it has the hash of the one that was saved: clients that have carried out the
\* same messages hash alike.
SameHash ==
    \A c, d \in Clients :
       /\ world[c] /= None /\ world[c].unsync = None
       /\ world[d] /= None /\ world[d].unsync = None
       /\ read[c] = read[d]
       => Hashed(world[c]) = Hashed(world[d])

\* No client meets a message of a player who has no mob in its world, which
\* fails an assertion, nor draws a frame for one (CoreImplementation.cpp).
PlayersKnown == troubles = {}

\* Again and again nobody waits for anything: a joiner whose uploader has a
\* world has one, if neither of them is lost, and a client with a world has
\* carried out whatever it was sent.
Lost(c) == c /= None /\ socket[c] = "closed"
HasWorld(c) == c /= None /\ world[c] /= None
EveryonePlays ==
    []<>(\A c \in Clients :
            /\ HasWorld(uploader[c]) => HasWorld(c) \/ Lost(c) \/ Lost(uploader[c])
            /\ HasWorld(c) => Lost(c) \/ read[c] = Len(stream))
=============================================================================
