------------------------------- MODULE Server -------------------------------
(***************************************************************************)
(* griefly-server: the registry together with the goroutines of its        *)
(* connections (client_conn.go).  A connection has a main goroutine, Run,  *)
(* whose position is pc, a reciever goroutine that forwards the client's   *)
(* messages, and, after a failed write, a goroutine that only calls        *)
(* RemovePlayer.  newPlayers, droppedPlayers and versionCheck are          *)
(* unbuffered, so a request and its service are one action.                *)
(***************************************************************************)
EXTENDS Registry

CONSTANTS
  LoginOf,     \* LoginOf[c]: the login sent on connection c
  MaxMessages  \* bound: client messages other than hash answers

ASSUME ServerAssumption ==
  /\ LoginOf \in [Conn -> Login]
  /\ MaxMessages \in Nat

VARIABLES
  pc,        \* where Run stands
  version,   \* game version the client of c announced
  id,        \* id the registry gave c, 0 before
  alive,     \* connections whose client is still there
  reader,    \* the reciever goroutine: off, on, or its error waits in readErrs
  removing,  \* connections with a RemovePlayer call under way
  asked,     \* hash requests the client of c has not answered yet
  sent,      \* client messages sent so far
  told       \* history: the answers to hash requests, with the id they came under

connections == <<pc, version, id, alive, reader, removing, asked, sent, told>>
vars == <<registry, connections>>

ServerTypeOK ==
  /\ RegistryTypeOK
  /\ pc \in [Conn -> {"start", "create", "created", "hello", "loop", "leave", "drain", "gone"}]
  /\ version \in [Conn -> Version \cup {None}]
  /\ id \in [Conn -> ID \cup {0}]
  /\ alive \subseteq Conn
  /\ reader \in [Conn -> {"off", "on", "err"}]
  /\ removing \subseteq Conn
  /\ asked \in [Conn -> SUBSET Tick]
  /\ sent \in 0..MaxMessages
  /\ told \subseteq [id : ID, tick : Tick, hash : HashValue]

Init ==
  /\ RegistryInit
  /\ pc = [c \in Conn |-> "start"]
  /\ version = [c \in Conn |-> None]
  /\ id = [c \in Conn |-> 0]
  /\ alive = Conn
  /\ reader = [c \in Conn |-> "off"]
  /\ removing = {}
  /\ asked = [c \in Conn |-> {}]
  /\ sent = 0
  /\ told = {}

Goto(c, from, to) ==
  /\ pc[c] = from
  /\ pc' = [pc EXCEPT ![c] = to]

-----------------------------------------------------------------------------
(* Logging in.                                                             *)

\* The first four bytes, the login message or the client's version are bad, or
\* the client hangs up.  (A first message of another kind, which no client of
\* the repository sends, stops the whole server and is left out.)
LoginFails(c) ==
  /\ Goto(c, "start", "gone")
  /\ alive' = alive \ {c}
  /\ UNCHANGED <<registry, version, id, reader, removing, asked, sent, told>>

CheckVersion(c) ==
  /\ Idle
  /\ \E v \in Version :
       /\ version' = [version EXCEPT ![c] = v]
       /\ \/ handleVersionCheck(v) /\ Goto(c, "start", "create") /\ UNCHANGED alive
          \/ ~handleVersionCheck(v) /\ Goto(c, "start", "gone") /\ alive' = alive \ {c}
  /\ UNCHANGED <<registry, id, reader, removing, asked, sent, told>>

\* Authentication fails, or the registry lets nobody but an administrator start.
Refused(c) ==
  /\ \/ Idle /\ LoginOf[c] \notin Guest /\ Goto(c, "create", "gone") /\ UNCHANGED registry
     \/ /\ pc[c] \in {"create", "created"}
        /\ pc' = [pc EXCEPT ![c] = "gone"]
        /\ RefusePlayer(c, LoginOf[c])
  /\ alive' = alive \ {c}
  /\ UNCHANGED <<version, id, reader, removing, asked, sent, told>>

\* The registry takes the request of CreatePlayer, or takes it up again.
CreatePlayer(c) ==
  /\ pc[c] \in {"create", "created"}
  /\ pc' = [pc EXCEPT ![c] = "created"]
  /\ \E l \in LoginNames(LoginOf[c]) : registerPlayer(c, l, version[c])
  /\ UNCHANGED <<version, id, alive, reader, removing, asked, sent, told>>

\* The registry replies, which unblocks CreatePlayer.
PlayerCreated(c) ==
  /\ stage = "admit"
  /\ joining.conn = c
  /\ Goto(c, "created", "hello")
  /\ id' = [id EXCEPT ![c] = joining.id]
  /\ AdmitClient
  /\ UNCHANGED <<version, alive, reader, removing, asked, sent, told>>

\* Write SuccessfulConnect; the main loop and the reciever start.
Hello(c) ==
  /\ Goto(c, "hello", "loop")
  /\ reader' = [reader EXCEPT ![c] = "on"]
  /\ UNCHANGED <<registry, version, id, alive, removing, asked, sent, told>>

HelloFails(c) ==
  /\ c \notin alive
  /\ Goto(c, "hello", "leave")
  /\ removing' = removing \cup {c}
  /\ UNCHANGED <<registry, version, id, alive, reader, asked, sent, told>>

-----------------------------------------------------------------------------
(* The main loop.                                                          *)

Take(c) ==
  /\ queue[c] # <<>>
  /\ queue' = [queue EXCEPT ![c] = Tail(@)]
  /\ UNCHANGED <<members, hashes, currentTick, nextTickCallbacks, inbox, closed, handler, history>>

\* The next message goes out to the client.
WriteMessage(c) ==
  /\ pc[c] = "loop"
  /\ Take(c)
  /\ asked' = IF Head(queue[c]).kind = "RequestHash" /\ c \in alive
              THEN [asked EXCEPT ![c] = @ \cup {Head(queue[c]).body}] ELSE asked
  /\ UNCHANGED <<pc, version, id, alive, reader, removing, sent, told>>

\* Writing fails: another goroutine asks for the removal, this one swallows all
\* that still comes.
WriteFails(c) ==
  /\ c \notin alive
  /\ Take(c)
  /\ Goto(c, "loop", "drain")
  /\ removing' = removing \cup {c}
  /\ UNCHANGED <<version, id, alive, reader, asked, sent, told>>

Drain(c) ==
  /\ pc[c] = "drain"
  /\ Take(c)
  /\ UNCHANGED connections

\* Mutant: swallowing messages never ends.
InboxClosedInLoop(c) ==
  /\ c \in closed
  /\ queue[c] = <<>>
  /\ Goto(c, "loop", "gone")
  /\ alive' = alive \ {c}
  /\ UNCHANGED <<registry, version, id, reader, removing, asked, sent, told>>

\* A closed and empty inbox ends the connection.
InboxClosed(c) ==
  /\ c \in closed
  /\ queue[c] = <<>>
  /\ pc[c] \in {"loop", "drain"}
  /\ pc' = [pc EXCEPT ![c] = "gone"]
  /\ alive' = alive \ {c}
  /\ UNCHANGED <<registry, version, id, reader, removing, asked, sent, told>>

\* The main loop finds the reciever's error.
Leave(c) ==
  /\ reader[c] = "err"
  /\ Goto(c, "loop", "leave")
  /\ removing' = removing \cup {c}
  /\ reader' = [reader EXCEPT ![c] = "off"]
  /\ UNCHANGED <<registry, version, id, alive, asked, sent, told>>

\* The registry serves a RemovePlayer call, which names the id and not the
\* connection.
RemovePlayer(c) ==
  /\ Idle
  /\ c \in removing
  /\ removePlayer(id[c], None)
  /\ removing' = removing \ {c}
  /\ pc' = [pc EXCEPT ![c] = IF @ = "leave" THEN "gone" ELSE @]
  /\ UNCHANGED <<hashes, currentTick, nextTickCallbacks, inbox, handler, history,
                 version, id, alive, reader, asked, sent, told>>

-----------------------------------------------------------------------------
(* The reciever and the client.                                            *)

\* RecvMessage: messages read earlier may still be forwarded when the client, or
\* the main loop, is gone.
RecvMessage(c, m) ==
  /\ reader[c] = "on"
  /\ Len(inbox) < RegistryQueueLength
  /\ inbox' = Append(inbox, m)
  /\ UNCHANGED <<members, hashes, currentTick, nextTickCallbacks, queue, closed, handler, history>>

AnswerHash(c) ==
  \E t \in asked[c], h \in HashValue :
    /\ RecvMessage(c, [kind |-> "Hash", from |-> id[c], tick |-> t, hash |-> h])
    /\ asked' = [asked EXCEPT ![c] = @ \ {t}]
    /\ told' = told \cup {[id |-> id[c], tick |-> t, hash |-> h]}
    /\ UNCHANGED <<pc, version, id, alive, reader, removing, sent>>

SendMessage(c) ==
  \E k \in {"Restart", "NextTick", "Ping", "Game"} :
    /\ sent < MaxMessages
    /\ sent' = sent + 1
    /\ RecvMessage(c, [kind |-> k, from |-> id[c], tick |-> 0, hash |-> None])
    /\ UNCHANGED <<pc, version, id, alive, reader, removing, asked, told>>

ReadFails(c) ==
  /\ c \notin alive
  /\ reader[c] = "on"
  /\ reader' = [reader EXCEPT ![c] = "err"]
  /\ UNCHANGED <<registry, pc, version, id, alive, removing, asked, sent, told>>

\* The client exits, crashes or loses its network.
ClientDies(c) ==
  /\ c \in alive
  /\ pc[c] \notin {"start", "gone"}
  /\ alive' = alive \ {c}
  /\ UNCHANGED <<registry, pc, version, id, reader, removing, asked, sent, told>>

-----------------------------------------------------------------------------

LoginStep(c) ==
  \/ LoginFails(c)
  \/ CheckVersion(c)
  \/ Refused(c)
  \/ CreatePlayer(c)
  \/ PlayerCreated(c)
  \/ Hello(c)
  \/ HelloFails(c)

LoopStep(c) ==
  \/ WriteMessage(c)
  \/ WriteFails(c)
  \/ Drain(c)
  \/ InboxClosed(c)
  \/ Leave(c)
  \/ RemovePlayer(c)

ClientStep(c) ==
  \/ AnswerHash(c)
  \/ SendMessage(c)
  \/ ReadFails(c)
  \/ ClientDies(c)

RegistryStep ==
  \/ DropClient /\ UNCHANGED connections
  \/ ReenterPlayer /\ UNCHANGED connections
  \/ handleNewTick /\ UNCHANGED connections
  \/ checkForHashStart /\ UNCHANGED connections
  \/ checkHashes /\ UNCHANGED connections
  \/ maybeSendConnCounter /\ UNCHANGED connections
  \/ RunCallback /\ UNCHANGED connections
  \/ TickDone /\ UNCHANGED connections
  \/ handleHash /\ UNCHANGED connections
  \/ handleRestart /\ UNCHANGED connections
  \/ handleForcedNextTick /\ UNCHANGED connections
  \/ handlePing /\ UNCHANGED connections
  \/ handleGameMessage /\ UNCHANGED connections

Next ==
  \/ RegistryStep
  \/ \E c \in Conn : LoginStep(c) \/ LoopStep(c) \/ ClientStep(c)

Spec == Init /\ [][Next]_vars

\* The registry's goroutine keeps running, its ticker keeps ticking, and Go's
\* select, which picks at random, passes over no ready request for ever.  A
\* connection's goroutine keeps running too, which assumes of a client that is
\* alive that it keeps reading: a write has no deadline.  Nothing is assumed of
\* what clients send or when they die.
Fairness ==
  /\ WF_vars(RegistryStep)
  /\ \A c \in Conn : WF_vars(LoginStep(c)) /\ WF_vars(LoopStep(c))

FairSpec == Spec /\ Fairness

-----------------------------------------------------------------------------
(* Properties.                                                             *)

Waiting == {nextTickCallbacks[k].inbox : k \in DOMAIN nextTickCallbacks}

\* The registry never sends to or closes an inbox it has closed (either panics
\* and stops the server), whatever mixture of removals, re-logins, ended games
\* and postponed joins led there: an inbox is registered under at most one id or
\* waits in at most one callback, and while it is it is open.
InboxOwnership ==
  /\ (Inboxes \cup Waiting) \cap closed = {}
  /\ Inboxes \cap Waiting = {}
  /\ \A i, j \in Members : clients[i] = clients[j] => i = j
  /\ \A k, n \in DOMAIN nextTickCallbacks :
       nextTickCallbacks[k].inbox = nextTickCallbacks[n].inbox => k = n

\* No two players of a game share an id and the next id is still free, also when
\* a game ends in the middle of registering a player.
IdsUnique ==
  /\ \A k, l \in Login : players[k] = players[l] /\ players[k] # 0 => k = l
  /\ \A l \in Login : players[l] < nextID

\* Clients without a master cannot be: whatever removes the master elects another
\* one or ends the game, and a game that has ended leaves no player, id or version.
MasterOrNoGame ==
  /\ Members # {} => masterID # NoMaster
  /\ masterID = NoMaster /\ Idle => NoPlayers /\ nextID = 1 /\ clientVersion = None

\* The registry keeps its books through every end of a game, also one in the middle
\* of a registration: its variables keep their types, ids are unique, and there is
\* a master exactly as long as there is a game.
GameSound == ServerTypeOK /\ IdsUnique /\ MasterOrNoGame

\* Every client works on the same history: the map a joiner gets and the messages
\* it gets afterwards are together what every other client got, with no message
\* missing or applied twice.  A client that missed one is about to be dropped.
SameHistory ==
  \A i \in Members : gap[clients[i]] = 0 \/ i \in {d.id : d \in drops}

\* A message that depends on the state of the world comes right after a tick: in
\* no inbox does it follow a message that changes the world.
SystemAfterTick ==
  \A c \in Conn : \A k \in 1..(Len(queue[c]) - 1) :
    queue[c][k + 1].kind \in {"RequestHash", "MapUpload"} =>
      queue[c][k].kind \in {"NewTick", "RequestHash", "MapUpload", "CurrentConnections"}

\* The registry's members and master go through a GameSession: every join, every
\* removal and every election is one of its steps.
Session == INSTANCE GameSession WITH
  Player <- ID, present <- Members, master <- masterID
SessionRefined == Session!Spec

\* An inbox that was given out and is open is still known to the registry, which
\* will send to it or close it; otherwise its connection waits for ever.
NoOrphanInbox ==
  \A c \in Conn :
    pc[c] \in {"hello", "loop", "drain"} /\ c \notin closed => c \in Inboxes \cup Waiting

\* Each client has a mob in the world of the running game, which is what the other
\* clients look up when they process its messages.
ClientsHaveMob == Members \subseteq world

\* A client is dropped as out of sync on evidence: for the tick of the check that
\* is decided, answers came in under its id and under the master's that differ,
\* however late, and whoever is master by now.  Silence is no evidence.
DroppedOnEvidence ==
  [][\A d \in drops' \ drops : d.reason = "OutOfSync" =>
       \E t \in PendingChecks \ PendingChecks', a, m \in told :
         /\ a.id = d.id /\ a.tick = t
         /\ m.id = masterID /\ m.tick = t
         /\ a.hash # m.hash]_vars

\* Whatever the registry starts it finishes: it always gets back to its select.
HandlerEnds == ~Idle ~> Idle

\* A join that waits for a tick is decided at the next one: the joiner gets the
\* master's map or its connection is closed.
JoinResolves ==
  \A c \in Conn : c \in Waiting /\ currentTick < MaxTick ~> c \notin Waiting

\* A connection whose inbox was closed ends, however much it still has to send.
ClosedEnds == \A c \in Conn : c \in closed ~> pc[c] = "gone"

\* The master is one of the clients, so that it can be asked for its map and its
\* removal is noticed.
MasterIsMember == masterID # NoMaster => masterID \in Members

=============================================================================
