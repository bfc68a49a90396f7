------------------------------ MODULE Registry ------------------------------
(***************************************************************************)
(* The registry goroutine of griefly-server (client.go).  It owns the set  *)
(* of clients, elects the master client that holds the authoritative       *)
(* world, broadcasts every message to every client's inbox, and runs the   *)
(* handlers of a tick.                                                      *)
(*                                                                         *)
(* The registry is one goroutine, so its handlers never overlap each       *)
(* other, but a client's goroutine may empty the client's inbox between    *)
(* any two sends of one handler.  A handler that sends more than once is   *)
(* therefore a chain of actions; stage says which one comes next, and      *)
(* nothing but the rest of the chain can run until it is back at "select". *)
(*                                                                         *)
(* A connection that registers gets one inbox, a buffered Go channel, so a *)
(* connection names its inbox: queue[c] is what the channel of c buffers   *)
(* and c \in closed that it has been closed.                               *)
(***************************************************************************)
EXTENDS Integers, Sequences, FiniteSets

CONSTANTS
  Conn,                 \* connections, each with the inbox it is given
  Login,                \* logins of the user database, and guest names
  Admin,                \* logins whose UserInfo.IsAdmin is set
  Guest,                \* names that only newGuest gives out
  Version,              \* game versions of the clients
  HashValue,            \* hashes of a client's world
  None,                 \* nil; also the empty clientVersion
  PlayerQueueLength,    \* capacity of a client's inbox
  RegistryQueueLength,  \* capacity of the registry's inbox
  StartHashCheckEvery,  \* ticks between two hash checks
  SendConnCountEvery,   \* ticks between two connection counters
  MaxID,                \* bound: player ids are 1..MaxID
  MaxTick               \* bound: ticks of one game

ASSUME RegistryAssumption ==
  /\ IsFiniteSet(Conn)
  /\ Admin \subseteq Login
  /\ Guest \subseteq Login \ Admin
  /\ None \notin Conn \cup Login \cup Version \cup HashValue
  /\ PlayerQueueLength \in Nat \ {0}
  /\ RegistryQueueLength \in Nat \ {0}
  /\ StartHashCheckEvery \in Nat \ {0}
  /\ SendConnCountEvery \in Nat \ {0}
  /\ MaxID \in Nat \ {0}
  /\ MaxTick \in Nat \ {0}

ID == 1..MaxID
Tick == 1..MaxTick
NoMaster == -1

VARIABLES
  nextID,             \* the id the next new player gets
  clients,            \* clients[i]: inbox registered under id i, or None
  players,            \* players[l]: id of login l in this game, 0 if none
  masterID,           \* id of the master client, or NoMaster
  clientVersion,      \* version of this game, or None
  hashes,             \* hashes[t]: the pending hash check of tick t, or None
  currentTick,
  nextTickCallbacks,  \* joins that wait for the next tick
  inbox,              \* the registry's own channel of client messages
  queue,              \* queue[c]: what the inbox of c buffers
  closed,             \* inboxes that have been closed
  stage,              \* where the running handler stands
  joining,            \* argument of the running registerPlayer, or None
  drops,              \* removePlayer calls the running handler still makes
  scan                \* hash checks the running checkHashes still visits

(* History, read by properties only.                                       *)
VARIABLES
  gap,                \* gap[c]: messages the world of c has too many (+) or
                      \* too few (-) compared with all that was broadcast
  world               \* ids that have a mob in the world of this game

members == <<nextID, clients, players, masterID, clientVersion>>
channels == <<inbox, queue, closed>>
handler == <<stage, joining, drops, scan>>
history == <<gap, world>>
registry == <<members, hashes, currentTick, nextTickCallbacks, channels,
              handler, history>>

-----------------------------------------------------------------------------
(* Messages the registry puts into inboxes.                                *)

Reason == {"TooSlow", "OutOfSync", "ServerRestarting"}

\* NewClient carries the new id, Game its sender, RequestHash a tick, and
\* MapUpload the joiner it is for (None when the map is only dumped).
Message ==
  [kind : Reason \cup {"NewTick", "CurrentConnections", "Ping"}, body : {0}]
    \cup [kind : {"NewClient", "Game"}, body : ID]
    \cup [kind : {"RequestHash"}, body : Tick]
    \cup [kind : {"MapUpload"}, body : Conn \cup {None}]

Msg(kind, body) == [kind |-> kind, body |-> body]

(* Messages of clients, as they wait in the registry's inbox.              *)
ClientMessage ==
  [kind : {"Hash", "Restart", "NextTick", "Ping", "Game"},
   from : ID, tick : Tick \cup {0}, hash : HashValue \cup {None}]

HashCheck == [waitingClientCount : Int, hashes : [ID -> HashValue \cup {None}]]
Callback == [login : Login, id : ID, inbox : Conn]
Drop == [id : ID, reason : Reason]
Joining == [conn : Conn, login : Login, id : ID]

Stages == {"select", "reenter", "retry", "admit", "hashStart", "checkHashes", "callbacks"}

RegistryTypeOK ==
  /\ nextID \in 1..(MaxID + 1)
  /\ clients \in [ID -> Conn \cup {None}]
  /\ players \in [Login -> ID \cup {0}]
  /\ masterID \in ID \cup {NoMaster}
  /\ clientVersion \in Version \cup {None}
  /\ hashes \in [Tick -> HashCheck \cup {None}]
  /\ currentTick \in Tick \cup {0}
  /\ nextTickCallbacks \in Seq(Callback)
  /\ inbox \in Seq(ClientMessage)
  /\ queue \in [Conn -> Seq(Message)]
  /\ closed \subseteq Conn
  /\ stage \in Stages
  /\ joining \in Joining \cup {None}
  /\ drops \subseteq Drop
  /\ scan \subseteq Tick
  /\ gap \in [Conn -> Int]
  /\ world \subseteq ID

RegistryInit ==
  /\ nextID = 1
  /\ clients = [i \in ID |-> None]
  /\ players = [l \in Login |-> 0]
  /\ masterID = NoMaster
  /\ clientVersion = None
  /\ hashes = [t \in Tick |-> None]
  /\ currentTick = 0
  /\ nextTickCallbacks = <<>>
  /\ inbox = <<>>
  /\ queue = [c \in Conn |-> <<>>]
  /\ closed = {}
  /\ stage = "select"
  /\ joining = None
  /\ drops = {}
  /\ scan = {}
  /\ gap = [c \in Conn |-> 0]
  /\ world = {}

-----------------------------------------------------------------------------
(* Sending.                                                                *)

Members == {i \in ID : clients[i] # None}
Inboxes == {clients[i] : i \in Members}
HasRoom(c) == Len(queue[c]) < PlayerQueueLength
Reachable(i) == i \in Members /\ HasRoom(clients[i])

\* The select loop is free to take the next request.
Idle == stage = "select" /\ drops = {}

\* sendOne to every id of S at once: a full or absent inbox takes nothing.
SendTo(S, m) ==
  LET to == {clients[i] : i \in {j \in S : Reachable(j)}}
  IN queue' = [c \in Conn |-> IF c \in to THEN Append(queue[c], m) ELSE queue[c]]

\* Queue a message for every client; those whose inbox is full are removed by
\* the same handler, before it does anything else.
sendAll(m) ==
  /\ SendTo(Members, m)
  /\ drops' = [id : {i \in Members : ~HasRoom(clients[i])}, reason : {"TooSlow"}]
  /\ gap' = [c \in Conn |-> IF c \in Inboxes /\ ~HasRoom(c) THEN gap[c] - 1 ELSE gap[c]]
  /\ world' = IF m.kind = "NewClient" /\ Members # {} THEN world \cup {m.body} ELSE world

-----------------------------------------------------------------------------
(* Removing a client.                                                      *)

\* Mutant: every removal elects.
SuccessorsAlways(id) == IF Members \ {id} # {} THEN Members \ {id} ELSE {NoMaster}

\* Any other client may follow a master that goes.
Successors(id) ==
  IF masterID # id THEN {masterID}
  ELSE IF Members \ {id} # {} THEN Members \ {id} ELSE {NoMaster}

\* Mutant: the players of the old game stay.
cleanUpKeepsPlayers ==
  /\ nextID' = 1
  /\ clientVersion' = None
  /\ UNCHANGED players

cleanUp ==
  /\ players' = [l \in Login |-> 0]
  /\ nextID' = 1
  /\ clientVersion' = None

\* Mutant: the inbox is closed but not deleted.
removePlayerKeepsEntry(id, reason) ==
  \/ id \notin Members /\ UNCHANGED <<members, queue, closed>>
  \/ /\ id \in Members
     /\ closed' = closed \cup {clients[id]}
     /\ UNCHANGED <<members, queue>>

\* The client under id leaves with an optional reason; nothing happens when no
\* client is registered under it.
removePlayer(id, reason) ==
  \/ /\ id \notin Members
     /\ UNCHANGED <<members, queue, closed>>
  \/ /\ id \in Members
     /\ IF reason = None THEN UNCHANGED queue ELSE SendTo({id}, Msg(reason, 0))
     /\ closed' = closed \cup {clients[id]}
     /\ clients' = [clients EXCEPT ![id] = None]
     /\ masterID' \in Successors(id)
     /\ \/ masterID' = NoMaster /\ cleanUp
        \/ masterID' # NoMaster /\ UNCHANGED <<players, nextID, clientVersion>>

\* One of the removals the running handler owes.
DropClient ==
  \E d \in drops :
    /\ drops' = drops \ {d}
    /\ removePlayer(d.id, d.reason)
    /\ UNCHANGED <<hashes, currentTick, nextTickCallbacks, inbox, stage, joining, scan, history>>

-----------------------------------------------------------------------------
(* Registering a player.                                                   *)

\* newGuest draws a name no player has; other logins are used as they come.
LoginNames(l) == IF l \in Guest THEN {g \in Guest : players[g] = 0} ELSE {l}

NoPlayers == \A l \in Login : players[l] = 0

\* Only an administrator may start a game.
RefusesToStart(l) == NoPlayers /\ l \notin Admin

\* registerPlayer is entered from the select loop, and again when removing the
\* previous connection of the login ended the game.
AtRegistration(c) ==
  /\ drops = {}
  /\ \/ stage = "select"
     \/ stage = "retry" /\ joining.conn = c

RefusePlayer(c, l) ==
  /\ AtRegistration(c)
  /\ RefusesToStart(l)
  /\ stage' = "select"
  /\ joining' = None
  /\ UNCHANGED <<members, hashes, currentTick, nextTickCallbacks, channels,
                 drops, scan, history>>

checkForNewGame == currentTick' = IF Members = {} THEN 0 ELSE currentTick

\* Mutant: a new player is announced to nobody.
registerPlayerSilently(c, l, v) ==
  /\ AtRegistration(c)
  /\ ~RefusesToStart(l)
  /\ checkForNewGame
  /\ clientVersion' = IF clientVersion = None THEN v ELSE clientVersion
  /\ nextID <= MaxID
  /\ nextID' = nextID + 1
  /\ players' = [players EXCEPT ![l] = nextID]
  /\ joining' = [conn |-> c, login |-> l, id |-> nextID]
  /\ stage' = "admit"
  /\ UNCHANGED <<clients, masterID, hashes, nextTickCallbacks, inbox, closed, scan,
                 queue, drops, history>>

\* The first half of registerPlayer: a login of this game keeps its id, a new
\* one gets the next id and a mob on every client's map.
registerPlayer(c, l, v) ==
  /\ AtRegistration(c)
  /\ ~RefusesToStart(l)
  /\ checkForNewGame
  /\ clientVersion' = IF clientVersion = None THEN v ELSE clientVersion
  /\ \/ /\ players[l] # 0
        /\ joining' = [conn |-> c, login |-> l, id |-> players[l]]
        /\ stage' = "reenter"
        /\ UNCHANGED <<nextID, players, queue, drops, history>>
     \/ /\ players[l] = 0
        /\ nextID <= MaxID
        /\ nextID' = nextID + 1
        /\ players' = [players EXCEPT ![l] = nextID]
        /\ joining' = [conn |-> c, login |-> l, id |-> nextID]
        /\ stage' = "admit"
        /\ sendAll(Msg("NewClient", nextID))
  /\ UNCHANGED <<clients, masterID, hashes, nextTickCallbacks, inbox, closed, scan>>

\* Remove the connection the login had; when it was the last client this ended
\* the game, and the registration starts over.
ReenterPlayer ==
  /\ stage = "reenter"
  /\ removePlayer(joining.id, None)
  /\ \/ players'[joining.login] # 0 /\ stage' = "admit"
     \/ players'[joining.login] = 0 /\ stage' = "retry"
  /\ UNCHANGED <<hashes, currentTick, nextTickCallbacks, inbox, joining, drops, scan, history>>

\* Mutant: the client is added at once and its map requested at the next tick.
AdmitClientAtOnce ==
  /\ stage = "admit"
  /\ drops = {}
  /\ clients' = [clients EXCEPT ![joining.id] = joining.conn]
  /\ \/ masterID = NoMaster /\ masterID' = joining.id /\ UNCHANGED nextTickCallbacks
     \/ /\ masterID # NoMaster
        /\ nextTickCallbacks' = Append(nextTickCallbacks,
             [login |-> joining.login, id |-> joining.id, inbox |-> joining.conn])
        /\ UNCHANGED masterID
  /\ stage' = "select"
  /\ joining' = None
  /\ UNCHANGED <<nextID, players, clientVersion, hashes, currentTick, channels, drops,
                 scan, history>>

\* The second half of registerPlayer: the first client becomes the master of a
\* new world, any other waits for the next tick.
AdmitClient ==
  /\ stage = "admit"
  /\ drops = {}
  /\ LET c == joining.conn
         id == joining.id
     IN
     /\ closed' = closed \cup ({clients[id]} \ {None})
     /\ \/ /\ masterID = NoMaster
           /\ masterID' = id
           /\ clients' = [clients EXCEPT ![id] = c]
           /\ world' = {id}
           /\ UNCHANGED nextTickCallbacks
        \/ /\ masterID # NoMaster
           /\ clients' = [clients EXCEPT ![id] = None]
           /\ nextTickCallbacks' =
                Append(nextTickCallbacks, [login |-> joining.login, id |-> id, inbox |-> c])
           /\ UNCHANGED <<masterID, world>>
  /\ stage' = "select"
  /\ joining' = None
  /\ UNCHANGED <<nextID, players, clientVersion, hashes, currentTick, inbox, queue,
                 drops, scan, gap>>

-----------------------------------------------------------------------------
(* A tick: sendNewTick, checkForHashStart, checkHashes, maybeSendConnCounter, *)
(* invokeNextTickCallbacks, in this order.                                    *)

sendNewTick ==
  /\ currentTick < MaxTick
  /\ currentTick' = currentTick + 1
  /\ sendAll(Msg("NewTick", 0))
  /\ stage' = "hashStart"

handleNewTick ==
  /\ Idle
  /\ sendNewTick
  /\ UNCHANGED <<members, hashes, nextTickCallbacks, inbox, closed, joining, scan>>

StartsHashCheck ==
  currentTick % StartHashCheckEvery = 0 /\ Cardinality(Members) >= 2

PendingChecks == {t \in Tick : hashes[t] # None}

\* A check that starts now neither expires nor completes in the same tick, so
\* checkHashes passes over it.
checkForHashStart ==
  /\ stage = "hashStart"
  /\ drops = {}
  /\ stage' = "checkHashes"
  /\ \/ /\ StartsHashCheck
        /\ hashes' = [hashes EXCEPT ![currentTick] =
             [waitingClientCount |-> Cardinality(Members),
              hashes |-> [i \in ID |-> None]]]
        /\ scan' = PendingChecks \ {currentTick}
        /\ sendAll(Msg("RequestHash", currentTick))
     \/ /\ ~StartsHashCheck
        /\ scan' = PendingChecks
        /\ UNCHANGED <<hashes, queue, drops, history>>
  /\ UNCHANGED <<members, currentTick, nextTickCallbacks, inbox, closed, joining>>

\* Mutant: a client that has not answered counts as out of sync.
UnsyncedOrSilent(t) ==
  LET answers == hashes[t].hashes
  IN {i \in Members : masterID # NoMaster /\ answers[masterID] # None
                       /\ answers[i] # answers[masterID]}

\* Clients that answered the check with another hash than the master did.
Unsynced(t) ==
  LET answers == hashes[t].hashes
      mhash == IF masterID = NoMaster THEN None ELSE answers[masterID]
  IN {i \in ID : mhash # None /\ answers[i] \notin {None, mhash}}

\* Ask the master and the unsynced clients for their maps, and drop the latter;
\* whoever has no room for the request is too slow.
checkHashesOne(t) ==
  LET bad == Unsynced(t)
      asked == IF bad = {} THEN {} ELSE bad \cup {masterID}
  IN
  /\ SendTo(asked, Msg("MapUpload", None))
  /\ drops' = [id : {i \in asked : ~Reachable(i)}, reason : {"TooSlow"}]
               \cup [id : {i \in bad : Reachable(i)}, reason : {"OutOfSync"}]

\* Whether 500 ms have passed is up to the clock; a check whose clients have all
\* answered is done anyway.
checkHashes ==
  /\ stage = "checkHashes"
  /\ drops = {}
  /\ \E t \in scan :
       /\ scan' = scan \ {t}
       /\ \/ /\ hashes[t].waitingClientCount > 0
             /\ UNCHANGED <<hashes, queue, drops>>
          \/ /\ checkHashesOne(t)
             /\ hashes' = [hashes EXCEPT ![t] = None]
  /\ UNCHANGED <<members, currentTick, nextTickCallbacks, inbox, closed, stage, joining, history>>

maybeSendConnCounter ==
  /\ stage = "checkHashes"
  /\ drops = {}
  /\ scan = {}
  /\ stage' = "callbacks"
  /\ \/ /\ currentTick % SendConnCountEvery = 0
        /\ sendAll(Msg("CurrentConnections", 0))
     \/ /\ currentTick % SendConnCountEvery # 0
        /\ UNCHANGED <<queue, drops, history>>
  /\ UNCHANGED <<members, hashes, currentTick, nextTickCallbacks, inbox, closed, joining,
                 scan>>

\* requestMap of one joiner.  The master is asked for its map and the joiner gets
\* every message from here on; a master with a full inbox is dropped and its
\* successor asked.  Without a master, or a player, the joiner is turned away.
JoinMaster(cb) ==
  /\ players[cb.login] # 0
  /\ Members # {}
  /\ Reachable(masterID)
  /\ SendTo({masterID}, Msg("MapUpload", cb.inbox))
  /\ clients' = [clients EXCEPT ![cb.id] = cb.inbox]
  /\ gap' = [gap EXCEPT ![cb.inbox] = gap[clients[masterID]] + Len(queue[cb.inbox])]
  /\ nextTickCallbacks' = Tail(nextTickCallbacks)
  /\ UNCHANGED <<closed, drops>>

\* Mutant: a full inbox is tried again and again.
RetryMaster(cb) ==
  /\ players[cb.login] # 0
  /\ Members # {}
  /\ ~Reachable(masterID)
  /\ UNCHANGED <<drops, clients, gap, nextTickCallbacks, queue, closed>>

DropMaster(cb) ==
  /\ players[cb.login] # 0
  /\ Members # {}
  /\ ~Reachable(masterID)
  /\ drops' = [id : Members \cap {masterID}, reason : {"TooSlow"}]
  /\ UNCHANGED <<clients, gap, nextTickCallbacks, queue, closed>>

\* Mutant: the joiner is forgotten instead of turned away.
ForgetJoiner(cb) ==
  /\ players[cb.login] = 0 \/ Members = {}
  /\ nextTickCallbacks' = Tail(nextTickCallbacks)
  /\ UNCHANGED <<closed, clients, gap, queue, drops>>

TurnAway(cb) ==
  /\ players[cb.login] = 0 \/ Members = {}
  /\ closed' = closed \cup {cb.inbox}
  /\ nextTickCallbacks' = Tail(nextTickCallbacks)
  /\ UNCHANGED <<clients, gap, queue, drops>>

\* Mutant: joins do not wait for the end of a tick.
RunCallbackAtOnce ==
  /\ stage \in {"select", "callbacks"}
  /\ drops = {}
  /\ nextTickCallbacks # <<>>
  /\ LET cb == Head(nextTickCallbacks)
     IN JoinMaster(cb) \/ DropMaster(cb) \/ TurnAway(cb)
  /\ UNCHANGED <<nextID, players, masterID, clientVersion, hashes, currentTick, inbox,
                 stage, joining, scan, world>>

RunCallback ==
  /\ stage = "callbacks"
  /\ drops = {}
  /\ nextTickCallbacks # <<>>
  /\ LET cb == Head(nextTickCallbacks)
     IN JoinMaster(cb) \/ DropMaster(cb) \/ TurnAway(cb)
  /\ UNCHANGED <<nextID, players, masterID, clientVersion, hashes, currentTick, inbox,
                 stage, joining, scan, world>>

\* Mutant: the tick ends although joins still wait.
TickDoneEarly ==
  /\ stage = "callbacks"
  /\ drops = {}
  /\ stage' = "select"
  /\ UNCHANGED <<members, hashes, currentTick, nextTickCallbacks, channels, joining,
                 drops, scan, history>>

TickDone ==
  /\ stage = "callbacks"
  /\ drops = {}
  /\ nextTickCallbacks = <<>>
  /\ stage' = "select"
  /\ UNCHANGED <<members, hashes, currentTick, nextTickCallbacks, channels, joining,
                 drops, scan, history>>

-----------------------------------------------------------------------------
(* Messages of clients, taken from the registry's inbox.                   *)

Pending(kind) == Idle /\ inbox # <<>> /\ Head(inbox).kind = kind
FromAdmin(m) == \E l \in Admin : players[l] = m.from

add(check, i, h) ==
  [waitingClientCount |-> check.waitingClientCount - 1,
   hashes |-> [check.hashes EXCEPT ![i] = h]]

\* An answer to a hash request; one that comes after its check was done is lost.
handleHash ==
  /\ Pending("Hash")
  /\ LET m == Head(inbox)
     IN hashes' = IF hashes[m.tick] = None THEN hashes
                  ELSE [hashes EXCEPT ![m.tick] = add(@, m.from, m.hash)]
  /\ inbox' = Tail(inbox)
  /\ UNCHANGED <<members, currentTick, nextTickCallbacks, queue, closed, handler, history>>

\* An administrator ends the game for everyone.
handleRestart ==
  /\ Pending("Restart")
  /\ drops' = IF FromAdmin(Head(inbox))
              THEN [id : Members, reason : {"ServerRestarting"}] ELSE {}
  /\ inbox' = Tail(inbox)
  /\ UNCHANGED <<members, hashes, currentTick, nextTickCallbacks, queue, closed, stage,
                 joining, scan, history>>

\* An administrator may force a tick.
handleForcedNextTick ==
  /\ Pending("NextTick")
  /\ inbox' = Tail(inbox)
  /\ \/ FromAdmin(Head(inbox)) /\ sendNewTick
     \/ ~FromAdmin(Head(inbox)) /\ UNCHANGED <<currentTick, queue, drops, history, stage>>
  /\ UNCHANGED <<members, hashes, nextTickCallbacks, closed, joining, scan>>

handlePing ==
  /\ Pending("Ping")
  /\ SendTo({Head(inbox).from}, Msg("Ping", 0))
  /\ inbox' = Tail(inbox)
  /\ UNCHANGED <<members, hashes, currentTick, nextTickCallbacks, closed, handler, history>>

\* Anything else, OOC chat included, goes to everyone with its sender's id; what
\* has no place for an id, as a message without a body, is dropped.
handleGameMessage ==
  /\ Pending("Game")
  /\ \/ sendAll(Msg("Game", Head(inbox).from))
     \/ UNCHANGED <<queue, drops, history>>
  /\ inbox' = Tail(inbox)
  /\ UNCHANGED <<members, hashes, currentTick, nextTickCallbacks, closed, stage, joining,
                 scan>>

\* The version a login brings must be the one of this game, if there is one.
handleVersionCheck(v) == clientVersion \in {None, v}
=============================================================================
