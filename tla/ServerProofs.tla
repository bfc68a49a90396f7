---------------------------- MODULE ServerProofs ----------------------------
(***************************************************************************)
(* Proofs about Server, for every set of connections, logins and versions  *)
(* and every capacity and bound that the assumptions allow: types, who     *)
(* owns an inbox, ids and masters, the session the registry implements,    *)
(* and what every client of a game has been sent.                          *)
(***************************************************************************)
EXTENDS Server, FiniteSetTheorems, TLAPS

-----------------------------------------------------------------------------
(* Type correctness.  ServerTypeOK is not inductive: a handler stopped in   *)
(* the middle of a registration must still know whom it registers, a hash   *)
(* request must carry a tick of the game, and a client's message an id.     *)

TypeInv ==
  /\ ServerTypeOK
  /\ stage \in {"reenter", "retry", "admit"} => joining \in Joining
  /\ stage = "hashStart" => currentTick \in Tick
  /\ \A c \in Conn : pc[c] \in {"hello", "loop"} \/ reader[c] = "on" => id[c] \in ID

\* The messages that handlers broadcast or send to one client.
LEMMA MessageTypes ==
  /\ \A r \in Reason \cup {"NewTick", "CurrentConnections", "Ping"} : Msg(r, 0) \in Message
  /\ \A i \in ID : Msg("NewClient", i) \in Message /\ Msg("Game", i) \in Message
  /\ \A t \in Tick : Msg("RequestHash", t) \in Message
  /\ \A c \in Conn \cup {None} : Msg("MapUpload", c) \in Message
  BY DEF Msg, Message

\* sendOne keeps every inbox a sequence of messages.
LEMMA SendToType ==
  ASSUME RegistryTypeOK, NEW S, NEW m \in Message, SendTo(S, m)
  PROVE  queue' \in [Conn -> Seq(Message)]
  BY DEF SendTo, RegistryTypeOK

\* sendAll keeps the inboxes, the removals it causes and the history typed.
LEMMA SendAllType ==
  ASSUME RegistryTypeOK, NEW m \in Message, sendAll(m)
  PROVE  /\ queue' \in [Conn -> Seq(Message)]
         /\ drops' \subseteq Drop
         /\ gap' \in [Conn -> Int]
         /\ world' \subseteq ID
<1>1. queue' \in [Conn -> Seq(Message)]
  BY SendToType DEF sendAll
<1>2. drops' \subseteq Drop
  BY DEF sendAll, Drop, Reason, Members
<1>3. gap' \in [Conn -> Int]
  BY DEF sendAll, RegistryTypeOK
<1>4. m.kind = "NewClient" => m.body \in ID
  BY DEF Message, Reason
<1>5. world' \subseteq ID
  BY <1>4 DEF sendAll, RegistryTypeOK
<1> QED BY <1>1, <1>2, <1>3, <1>5

\* removePlayer keeps the members and the inboxes typed.
LEMMA RemovePlayerType ==
  ASSUME RegistryTypeOK, NEW i, NEW r \in Reason \cup {None}, removePlayer(i, r)
  PROVE  /\ nextID' \in 1..(MaxID + 1)
         /\ clients' \in [ID -> Conn \cup {None}]
         /\ players' \in [Login -> ID \cup {0}]
         /\ masterID' \in ID \cup {NoMaster}
         /\ clientVersion' \in Version \cup {None}
         /\ queue' \in [Conn -> Seq(Message)]
         /\ closed' \subseteq Conn
<1> USE RegistryAssumption
<1>1. CASE i \notin Members
  BY <1>1 DEF removePlayer, RegistryTypeOK, members
<1>2. CASE i \in Members
  <2>1. clients[i] \in Conn
    BY <1>2 DEF Members, RegistryTypeOK
  <2>2. queue' \in [Conn -> Seq(Message)]
    <3>1. r # None => Msg(r, 0) \in Message
      BY MessageTypes
    <3> QED BY <1>2, <3>1, SendToType DEF removePlayer, RegistryTypeOK
  <2>3. masterID' \in ID \cup {NoMaster}
    BY <1>2 DEF removePlayer, Successors, Members, RegistryTypeOK
  <2>4. clients' \in [ID -> Conn \cup {None}] /\ closed' \subseteq Conn
    BY <1>2, <2>1 DEF removePlayer, RegistryTypeOK
  <2>5. /\ nextID' \in 1..(MaxID + 1)
        /\ players' \in [Login -> ID \cup {0}]
        /\ clientVersion' \in Version \cup {None}
    BY <1>2 DEF removePlayer, cleanUp, RegistryTypeOK
  <2> QED BY <2>2, <2>3, <2>4, <2>5
<1> QED BY <1>1, <1>2

\* Every action of the registry's goroutine preserves TypeInv's registry half,
\* one lemma per group of handlers.
RegistryInv ==
  /\ RegistryTypeOK
  /\ stage \in {"reenter", "retry", "admit"} => joining \in Joining
  /\ stage = "hashStart" => currentTick \in Tick

\* Owed removals and those of a previous connection.
LEMMA RemovalsType ==
  ASSUME RegistryInv, DropClient \/ ReenterPlayer
  PROVE  RegistryInv'
<1> USE RegistryAssumption
<1>1. CASE DropClient
  <2>1. PICK d \in drops :
          /\ drops' = drops \ {d}
          /\ removePlayer(d.id, d.reason)
          /\ UNCHANGED <<hashes, currentTick, nextTickCallbacks, inbox, stage, joining, scan, history>>
    BY <1>1 DEF DropClient
  <2>2. d \in Drop /\ d.reason \in Reason
    BY <2>1 DEF RegistryInv, RegistryTypeOK, Drop
  <2>3. RegistryTypeOK'
    BY <2>1, <2>2, RemovePlayerType DEF RegistryInv, RegistryTypeOK, history
  <2> QED BY <2>1, <2>3 DEF RegistryInv
<1>2. CASE ReenterPlayer
  <2>1. RegistryTypeOK'
    BY <1>2, RemovePlayerType DEF RegistryInv, RegistryTypeOK, ReenterPlayer, history, Stages
  <2>2. UNCHANGED joining /\ stage' # "hashStart" /\ joining \in Joining
    BY <1>2 DEF RegistryInv, ReenterPlayer
  <2> QED BY <2>1, <2>2 DEF RegistryInv
<1> QED BY <1>1, <1>2

\* A tick, whether the ticker or an administrator asked for it.
LEMMA TickType ==
  ASSUME RegistryInv, sendNewTick, UNCHANGED <<members, hashes, nextTickCallbacks, closed, joining, scan>>,
         inbox' \in Seq(ClientMessage)
  PROVE  RegistryInv'
<1> USE RegistryAssumption
<1>1. Msg("NewTick", 0) \in Message
  BY MessageTypes
<1>2. currentTick' \in Tick
  BY DEF sendNewTick, RegistryInv, RegistryTypeOK, Tick
<1> QED
  BY <1>1, <1>2, SendAllType DEF sendNewTick, RegistryInv, RegistryTypeOK, members, Stages

\* The members can be counted.
LEMMA MembersFinite == Cardinality(Members) \in Nat
<1>1. IsFiniteSet(ID) /\ Members \subseteq ID
  BY FS_Interval, RegistryAssumption DEF ID, Members
<1> QED BY <1>1, FS_Subset, FS_CardinalityType

\* Starting a hash check.
LEMMA HashStartType ==
  ASSUME RegistryInv, checkForHashStart
  PROVE  RegistryInv'
<1> USE RegistryAssumption
<1>1. currentTick \in Tick
  BY DEF checkForHashStart, RegistryInv
<1>2. hashes' \in [Tick -> HashCheck \cup {None}]
  <2>1. [waitingClientCount |-> Cardinality(Members), hashes |-> [i \in ID |-> None]] \in HashCheck
    BY MembersFinite DEF HashCheck
  <2> QED BY <2>1 DEF checkForHashStart, RegistryInv, RegistryTypeOK
<1>3. scan' \subseteq Tick
  BY DEF checkForHashStart, PendingChecks
<1>4. /\ queue' \in [Conn -> Seq(Message)]
      /\ drops' \subseteq Drop
      /\ gap' \in [Conn -> Int]
      /\ world' \subseteq ID
  <2>1. Msg("RequestHash", currentTick) \in Message
    BY <1>1, MessageTypes
  <2> QED BY <2>1, SendAllType DEF checkForHashStart, RegistryInv, RegistryTypeOK, history
<1> QED
  BY <1>2, <1>3, <1>4 DEF checkForHashStart, RegistryInv, RegistryTypeOK, members, Stages

\* Deciding a hash check: an unsynced client implies a master to compare with.
LEMMA CheckHashesType ==
  ASSUME RegistryInv, checkHashes
  PROVE  RegistryInv'
<1> USE RegistryAssumption
<1>1. PICK t \in scan :
        /\ scan' = scan \ {t}
        /\ \/ /\ hashes[t].waitingClientCount > 0
              /\ UNCHANGED <<hashes, queue, drops>>
           \/ /\ checkHashesOne(t)
              /\ hashes' = [hashes EXCEPT ![t] = None]
  BY DEF checkHashes
<1>2. scan' \subseteq Tick /\ hashes' \in [Tick -> HashCheck \cup {None}]
  BY <1>1 DEF RegistryInv, RegistryTypeOK
<1>3. queue' \in [Conn -> Seq(Message)] /\ drops' \subseteq Drop
  <2>1. CASE UNCHANGED <<hashes, queue, drops>>
    BY <2>1 DEF RegistryInv, RegistryTypeOK
  <2>2. CASE checkHashesOne(t)
    <3>1. Msg("MapUpload", None) \in Message
      BY MessageTypes
    <3>2. queue' \in [Conn -> Seq(Message)]
      BY <2>2, <3>1, SendToType DEF checkHashesOne, RegistryInv
    <3>3. Unsynced(t) \subseteq ID /\ (Unsynced(t) # {} => masterID \in ID)
      BY DEF Unsynced, RegistryInv, RegistryTypeOK
    <3>4. drops' \subseteq Drop
      BY <2>2, <3>3 DEF checkHashesOne, Drop, Reason
    <3> QED BY <3>2, <3>4
  <2> QED BY <1>1, <2>1, <2>2
<1> QED
  BY <1>2, <1>3 DEF checkHashes, RegistryInv, RegistryTypeOK, members, history

\* The rest of a tick.
LEMMA TickEndType ==
  ASSUME RegistryInv, maybeSendConnCounter \/ RunCallback \/ TickDone
  PROVE  RegistryInv'
<1> USE RegistryAssumption
<1>1. CASE maybeSendConnCounter
  <2>1. Msg("CurrentConnections", 0) \in Message
    BY MessageTypes
  <2> QED
    BY <1>1, <2>1, SendAllType
    DEF maybeSendConnCounter, RegistryInv, RegistryTypeOK, members, history, Stages
<1>2. CASE RunCallback
  <2> DEFINE cb == Head(nextTickCallbacks)
  <2>1. /\ cb \in Callback
        /\ Tail(nextTickCallbacks) \in Seq(Callback)
    BY <1>2 DEF RunCallback, RegistryInv, RegistryTypeOK
  <2>2. cb.inbox \in Conn /\ cb.id \in ID
    BY <2>1 DEF Callback
  <2>3. CASE JoinMaster(cb)
    <3>1. Msg("MapUpload", cb.inbox) \in Message
      BY <2>2, MessageTypes
    <3>2. queue' \in [Conn -> Seq(Message)]
      BY <2>3, <3>1, SendToType DEF JoinMaster, RegistryInv
    <3>3. clients[masterID] \in Conn
      BY <2>3 DEF JoinMaster, Reachable, Members, RegistryInv, RegistryTypeOK
    <3>4. Len(queue[cb.inbox]) \in Nat /\ gap[clients[masterID]] \in Int
      BY <2>2, <3>3 DEF RegistryInv, RegistryTypeOK
    <3>5. gap' \in [Conn -> Int] /\ clients' \in [ID -> Conn \cup {None}]
      BY <2>2, <2>3, <3>4 DEF JoinMaster, RegistryInv, RegistryTypeOK
    <3> QED
      BY <1>2, <2>1, <2>3, <3>2, <3>5 DEF RunCallback, JoinMaster, RegistryInv, RegistryTypeOK
  <2>4. CASE DropMaster(cb)
    <3>1. drops' \subseteq Drop
      BY <2>4 DEF DropMaster, Drop, Reason, Members
    <3> QED BY <1>2, <2>4, <3>1 DEF RunCallback, DropMaster, RegistryInv, RegistryTypeOK
  <2>5. CASE TurnAway(cb)
    BY <1>2, <2>1, <2>2, <2>5 DEF RunCallback, TurnAway, RegistryInv, RegistryTypeOK
  <2> QED BY <1>2, <2>3, <2>4, <2>5 DEF RunCallback
<1>3. CASE TickDone
  BY <1>3 DEF TickDone, RegistryInv, RegistryTypeOK, members, channels, history, Stages
<1> QED BY <1>1, <1>2, <1>3

\* An answer keeps a hash check typed.
LEMMA AddType ==
  ASSUME NEW check \in HashCheck, NEW i \in ID, NEW h \in HashValue \cup {None}
  PROVE  add(check, i, h) \in HashCheck
<1>1. check.waitingClientCount - 1 \in Int
  BY DEF HashCheck
<1>2. [check.hashes EXCEPT ![i] = h] \in [ID -> HashValue \cup {None}]
  BY DEF HashCheck
<1> QED BY <1>1, <1>2 DEF add, HashCheck

\* Messages of clients.
LEMMA MessagesType ==
  ASSUME RegistryInv,
         \/ handleHash \/ handleRestart \/ handleForcedNextTick \/ handlePing \/ handleGameMessage
  PROVE  RegistryInv'
<1> USE RegistryAssumption
<1>1. inbox # <<>>
  BY DEF handleHash, handleRestart, handleForcedNextTick, handlePing, handleGameMessage, Pending
<1>2. Head(inbox) \in ClientMessage /\ Tail(inbox) \in Seq(ClientMessage)
  BY <1>1 DEF RegistryInv, RegistryTypeOK
<1>3. CASE handleHash
  <2> DEFINE m == Head(inbox)
  <2>1. m.from \in ID /\ m.hash \in HashValue \cup {None}
    BY <1>2 DEF ClientMessage
  <2>2. hashes' \in [Tick -> HashCheck \cup {None}]
    <3>1. CASE m.tick \in Tick /\ hashes[m.tick] # None
      <4>1. hashes[m.tick] \in HashCheck
        BY <3>1 DEF RegistryInv, RegistryTypeOK
      <4>2. add(hashes[m.tick], m.from, m.hash) \in HashCheck
        BY <4>1, <2>1, AddType
      <4> QED BY <1>3, <3>1, <4>2 DEF handleHash, RegistryInv, RegistryTypeOK
    <3>2. CASE ~(m.tick \in Tick /\ hashes[m.tick] # None)
      BY <1>3, <3>2 DEF handleHash, RegistryInv, RegistryTypeOK
    <3> QED BY <3>1, <3>2
  <2> QED
    BY <1>2, <1>3, <2>2 DEF handleHash, RegistryInv, RegistryTypeOK, members, handler, history
<1>4. CASE handleRestart
  <2>1. drops' \subseteq Drop
    BY <1>4 DEF handleRestart, Drop, Reason, Members
  <2> QED
    BY <1>2, <1>4, <2>1 DEF handleRestart, RegistryInv, RegistryTypeOK, members, history
<1>5. CASE handleForcedNextTick
  <2>1. inbox' \in Seq(ClientMessage)
    BY <1>2, <1>5 DEF handleForcedNextTick
  <2>2. CASE FromAdmin(Head(inbox)) /\ sendNewTick
    BY <1>5, <2>1, <2>2, TickType DEF handleForcedNextTick
  <2>3. CASE ~FromAdmin(Head(inbox))
    BY <1>5, <2>1, <2>3 DEF handleForcedNextTick, RegistryInv, RegistryTypeOK, members, history
  <2> QED BY <1>5, <2>2, <2>3 DEF handleForcedNextTick
<1>6. CASE handlePing
  <2>1. Msg("Ping", 0) \in Message
    BY MessageTypes
  <2> QED
    BY <1>2, <1>6, <2>1, SendToType
    DEF handlePing, RegistryInv, RegistryTypeOK, members, handler, history
<1>7. CASE handleGameMessage
  <2>1. Msg("Game", Head(inbox).from) \in Message
    BY <1>2, MessageTypes DEF ClientMessage
  <2>2. CASE sendAll(Msg("Game", Head(inbox).from))
    BY <1>2, <1>7, <2>1, <2>2, SendAllType DEF handleGameMessage, RegistryInv, RegistryTypeOK, members
  <2>3. CASE UNCHANGED <<queue, drops, history>>
    BY <1>2, <1>7, <2>3 DEF handleGameMessage, RegistryInv, RegistryTypeOK, members, history
  <2> QED BY <1>7, <2>2, <2>3 DEF handleGameMessage
<1> QED BY <1>3, <1>4, <1>5, <1>6, <1>7

\* The first half of a registration and its refusal.
LEMMA RegisterType ==
  ASSUME RegistryInv, NEW c \in Conn, NEW l \in Login, NEW v \in Version \cup {None},
         RefusePlayer(c, l) \/ registerPlayer(c, l, v)
  PROVE  RegistryInv'
<1> USE RegistryAssumption
<1>1. CASE RefusePlayer(c, l)
  BY <1>1 DEF RefusePlayer, RegistryInv, RegistryTypeOK, members, channels, history, Stages
<1>2. CASE registerPlayer(c, l, v)
  <2>1. currentTick' \in Tick \cup {0} /\ clientVersion' \in Version \cup {None}
    BY <1>2 DEF registerPlayer, checkForNewGame, RegistryInv, RegistryTypeOK
  <2>2. CASE players[l] # 0 /\ UNCHANGED <<nextID, players, queue, drops, history>>
    <3>1. joining' \in Joining /\ stage' = "reenter"
      BY <1>2, <2>2 DEF registerPlayer, RegistryInv, RegistryTypeOK, Joining
    <3> QED
      BY <1>2, <2>1, <2>2, <3>1 DEF registerPlayer, RegistryInv, RegistryTypeOK, history, Stages
  <2>3. CASE players[l] = 0 /\ sendAll(Msg("NewClient", nextID)) /\ nextID <= MaxID
    <3>1. nextID \in ID
      BY <2>3 DEF RegistryInv, RegistryTypeOK, ID
    <3>2. Msg("NewClient", nextID) \in Message
      BY <3>1, MessageTypes
    <3>3. joining' \in Joining /\ stage' = "admit"
      BY <1>2, <2>3, <3>1 DEF registerPlayer, Joining
    <3>4. nextID' \in 1..(MaxID + 1) /\ players' \in [Login -> ID \cup {0}]
      BY <1>2, <2>3, <3>1 DEF registerPlayer, RegistryInv, RegistryTypeOK, ID
    <3> QED
      BY <1>2, <2>1, <2>3, <3>2, <3>3, <3>4, SendAllType
      DEF registerPlayer, RegistryInv, RegistryTypeOK, Stages
  <2> QED BY <1>2, <2>2, <2>3 DEF registerPlayer
<1> QED BY <1>1, <1>2

\* The second half of a registration.
LEMMA AdmitType ==
  ASSUME RegistryInv, AdmitClient
  PROVE  RegistryInv' /\ joining.id \in ID
<1> USE RegistryAssumption
<1>1. joining.conn \in Conn /\ joining.id \in ID /\ joining.login \in Login
  BY DEF AdmitClient, RegistryInv, Joining
<1>2. closed' \subseteq Conn /\ clients' \in [ID -> Conn \cup {None}]
  BY <1>1 DEF AdmitClient, RegistryInv, RegistryTypeOK
<1>3. nextTickCallbacks' \in Seq(Callback)
  <2>1. [login |-> joining.login, id |-> joining.id, inbox |-> joining.conn] \in Callback
    BY <1>1 DEF Callback
  <2>2. \A e \in Callback : Append(nextTickCallbacks, e) \in Seq(Callback)
    BY DEF RegistryInv, RegistryTypeOK
  <2>3. nextTickCallbacks \in Seq(Callback)
    BY DEF RegistryInv, RegistryTypeOK
  <2> HIDE DEF RegistryInv
  <2> QED BY <2>1, <2>2, <2>3 DEF AdmitClient
<1>4. masterID' \in ID \cup {NoMaster} /\ world' \subseteq ID
  BY <1>1 DEF AdmitClient, RegistryInv, RegistryTypeOK
<1> QED
  BY <1>1, <1>2, <1>3, <1>4 DEF AdmitClient, RegistryInv, RegistryTypeOK, Stages

\* A step that leaves the registry alone, or only touches inboxes.
LEMMA RegistryUnchanged ==
  ASSUME RegistryInv, UNCHANGED registry
  PROVE  RegistryInv'
BY DEF RegistryInv, RegistryTypeOK, registry, members, channels, handler, history

LEMMA TakeType ==
  ASSUME RegistryInv, NEW c \in Conn, Take(c)
  PROVE  RegistryInv' /\ Head(queue[c]) \in Message
<1>1. queue[c] \in Seq(Message) /\ queue[c] # <<>>
  BY DEF Take, RegistryInv, RegistryTypeOK
<1>2. queue' \in [Conn -> Seq(Message)]
  <2>1. Tail(queue[c]) \in Seq(Message)
    BY <1>1
  <2> QED BY <2>1 DEF Take, RegistryInv, RegistryTypeOK
<1> QED
  BY <1>1, <1>2 DEF Take, RegistryInv, RegistryTypeOK, members, handler, history

LEMMA RecvMessageType ==
  ASSUME RegistryInv, NEW c \in Conn, NEW m \in ClientMessage, RecvMessage(c, m)
  PROVE  RegistryInv'
<1>1. inbox' \in Seq(ClientMessage)
  BY DEF RecvMessage, RegistryInv, RegistryTypeOK
<1> QED BY <1>1 DEF RecvMessage, RegistryInv, RegistryTypeOK, members, handler, history

\* The connections' half of TypeInv.
ConnectionInv ==
  /\ pc \in [Conn -> {"start", "create", "created", "hello", "loop", "leave", "drain", "gone"}]
  /\ version \in [Conn -> Version \cup {None}]
  /\ id \in [Conn -> ID \cup {0}]
  /\ alive \subseteq Conn
  /\ reader \in [Conn -> {"off", "on", "err"}]
  /\ removing \subseteq Conn
  /\ asked \in [Conn -> SUBSET Tick]
  /\ sent \in 0..MaxMessages
  /\ told \subseteq [id : ID, tick : Tick, hash : HashValue]
  /\ \A c \in Conn : pc[c] \in {"hello", "loop"} \/ reader[c] = "on" => id[c] \in ID

LEMMA TypeInvSplit == TypeInv <=> RegistryInv /\ ConnectionInv
BY DEF TypeInv, ServerTypeOK, RegistryInv, ConnectionInv

\* Logging in.
LEMMA LoginStepType ==
  ASSUME TypeInv, NEW c \in Conn, LoginStep(c)
  PROVE  TypeInv'
<1> USE RegistryAssumption, ServerAssumption
<1>0. RegistryInv /\ ConnectionInv
  BY TypeInvSplit
<1> SUFFICES RegistryInv' /\ ConnectionInv'
  BY TypeInvSplit DEF TypeInv, ServerTypeOK, RegistryInv, ConnectionInv
<1>1. CASE LoginFails(c)
  BY <1>0, <1>1, RegistryUnchanged DEF LoginFails, ConnectionInv, Goto
<1>2. CASE CheckVersion(c)
  BY <1>0, <1>2, RegistryUnchanged DEF CheckVersion, ConnectionInv, Goto
<1>3. CASE Refused(c)
  <2>1. LoginOf[c] \in Login
    OBVIOUS
  <2>2. UNCHANGED registry \/ RefusePlayer(c, LoginOf[c])
    BY <1>3 DEF Refused
  <2>3. RegistryInv'
    BY <1>0, <2>1, <2>2, RegistryUnchanged, RegisterType
  <2> QED BY <1>0, <1>3, <2>3 DEF Refused, ConnectionInv, Goto
<1>4. CASE CreatePlayer(c)
  <2>1. PICK l \in LoginNames(LoginOf[c]) : registerPlayer(c, l, version[c])
    BY <1>4 DEF CreatePlayer
  <2>2. l \in Login /\ version[c] \in Version \cup {None}
    BY <1>0, <2>1 DEF LoginNames, ConnectionInv
  <2>3. RegistryInv'
    BY <1>0, <2>1, <2>2, RegisterType
  <2> QED BY <1>0, <1>4, <2>3 DEF CreatePlayer, ConnectionInv
<1>5. CASE PlayerCreated(c)
  <2>1. RegistryInv' /\ joining.id \in ID
    BY <1>0, <1>5, AdmitType DEF PlayerCreated
  <2> QED BY <1>0, <1>5, <2>1 DEF PlayerCreated, ConnectionInv, Goto
<1>6. CASE Hello(c)
  BY <1>0, <1>6, RegistryUnchanged DEF Hello, ConnectionInv, Goto
<1>7. CASE HelloFails(c)
  BY <1>0, <1>7, RegistryUnchanged DEF HelloFails, ConnectionInv, Goto
<1> QED BY <1>1, <1>2, <1>3, <1>4, <1>5, <1>6, <1>7 DEF LoginStep

\* The main loop.
LEMMA LoopStepType ==
  ASSUME TypeInv, NEW c \in Conn, LoopStep(c)
  PROVE  TypeInv'
<1> USE RegistryAssumption, ServerAssumption
<1>0. RegistryInv /\ ConnectionInv
  BY TypeInvSplit
<1> SUFFICES RegistryInv' /\ ConnectionInv'
  BY TypeInvSplit DEF TypeInv, ServerTypeOK, RegistryInv, ConnectionInv
<1>1. CASE WriteMessage(c)
  <2>1. RegistryInv' /\ Head(queue[c]) \in Message
    BY <1>0, <1>1, TakeType DEF WriteMessage
  <2>2. Head(queue[c]).kind = "RequestHash" => Head(queue[c]).body \in Tick
    BY <2>1 DEF Message, Reason
  <2>3. asked' \in [Conn -> SUBSET Tick]
    BY <1>0, <1>1, <2>2 DEF WriteMessage, ConnectionInv
  <2> QED BY <1>0, <1>1, <2>1, <2>3 DEF WriteMessage, ConnectionInv
<1>2. CASE WriteFails(c)
  BY <1>0, <1>2, TakeType DEF WriteFails, ConnectionInv, Goto
<1>3. CASE Drain(c)
  BY <1>0, <1>3, TakeType DEF Drain, ConnectionInv, connections
<1>4. CASE InboxClosed(c)
  BY <1>0, <1>4, RegistryUnchanged DEF InboxClosed, ConnectionInv
<1>5. CASE Leave(c)
  BY <1>0, <1>5, RegistryUnchanged DEF Leave, ConnectionInv, Goto
<1>6. CASE RemovePlayer(c)
  <2>1. removePlayer(id[c], None)
    BY <1>6 DEF RemovePlayer
  <2>2. RegistryTypeOK'
    BY <1>0, <1>6, <2>1, RemovePlayerType
    DEF RemovePlayer, RegistryInv, RegistryTypeOK, handler, history
  <2>3. RegistryInv'
    BY <1>0, <1>6, <2>2 DEF RemovePlayer, RegistryInv, handler
  <2> QED BY <1>0, <1>6, <2>3 DEF RemovePlayer, ConnectionInv
<1> QED BY <1>1, <1>2, <1>3, <1>4, <1>5, <1>6 DEF LoopStep

\* The reciever and the client.
LEMMA ClientStepType ==
  ASSUME TypeInv, NEW c \in Conn, ClientStep(c)
  PROVE  TypeInv'
<1> USE RegistryAssumption, ServerAssumption
<1>0. RegistryInv /\ ConnectionInv
  BY TypeInvSplit
<1> SUFFICES RegistryInv' /\ ConnectionInv'
  BY TypeInvSplit DEF TypeInv, ServerTypeOK, RegistryInv, ConnectionInv
<1>1. CASE AnswerHash(c)
  <2>1. PICK t \in asked[c], h \in HashValue :
          /\ RecvMessage(c, [kind |-> "Hash", from |-> id[c], tick |-> t, hash |-> h])
          /\ asked' = [asked EXCEPT ![c] = @ \ {t}]
          /\ told' = told \cup {[id |-> id[c], tick |-> t, hash |-> h]}
          /\ UNCHANGED <<pc, version, id, alive, reader, removing, sent>>
    BY <1>1 DEF AnswerHash
  <2>2. id[c] \in ID /\ t \in Tick
    BY <1>0, <2>1 DEF RecvMessage, ConnectionInv
  <2>3. [kind |-> "Hash", from |-> id[c], tick |-> t, hash |-> h] \in ClientMessage
    BY <2>2 DEF ClientMessage
  <2>4. RegistryInv'
    BY <1>0, <2>1, <2>3, RecvMessageType
  <2>5. told' \subseteq [id : ID, tick : Tick, hash : HashValue]
    BY <1>0, <2>1, <2>2 DEF ConnectionInv
  <2> QED BY <1>0, <2>1, <2>4, <2>5 DEF ConnectionInv
<1>2. CASE SendMessage(c)
  <2>1. PICK k \in {"Restart", "NextTick", "Ping", "Game"} :
          /\ sent < MaxMessages
          /\ sent' = sent + 1
          /\ RecvMessage(c, [kind |-> k, from |-> id[c], tick |-> 0, hash |-> None])
          /\ UNCHANGED <<pc, version, id, alive, reader, removing, asked, told>>
    BY <1>2 DEF SendMessage
  <2>2. id[c] \in ID
    BY <1>0, <2>1 DEF RecvMessage, ConnectionInv
  <2>3. [kind |-> k, from |-> id[c], tick |-> 0, hash |-> None] \in ClientMessage
    BY <2>2 DEF ClientMessage
  <2>4. RegistryInv'
    BY <1>0, <2>1, <2>3, RecvMessageType
  <2> QED BY <1>0, <2>1, <2>4 DEF ConnectionInv
<1>3. CASE ReadFails(c)
  BY <1>0, <1>3, RegistryUnchanged DEF ReadFails, ConnectionInv
<1>4. CASE ClientDies(c)
  BY <1>0, <1>4, RegistryUnchanged DEF ClientDies, ConnectionInv
<1> QED BY <1>1, <1>2, <1>3, <1>4 DEF ClientStep

LEMMA RegistryStepType ==
  ASSUME TypeInv, RegistryStep
  PROVE  TypeInv'
<1>0. RegistryInv /\ ConnectionInv
  BY TypeInvSplit
<1>1. UNCHANGED connections
  BY DEF RegistryStep
<1>2. ConnectionInv'
  BY <1>0, <1>1 DEF ConnectionInv, connections
<1>3. RegistryInv'
  <2>1. handleNewTick => RegistryInv'
    BY <1>0, TickType DEF handleNewTick, RegistryInv, RegistryTypeOK
  <2> QED
    BY <1>0, <2>1, RemovalsType, HashStartType, CheckHashesType, TickEndType, MessagesType
    DEF RegistryStep
<1> QED BY <1>2, <1>3 DEF TypeInv, ServerTypeOK, RegistryInv, ConnectionInv

LEMMA TypeInvInit == Init => TypeInv
<1> USE RegistryAssumption, ServerAssumption
<1> SUFFICES ASSUME Init PROVE TypeInv
  OBVIOUS
<1>1. RegistryInv
  BY DEF Init, RegistryInit, RegistryInv, RegistryTypeOK, Tick, ID, Stages
<1>2. ConnectionInv
  BY DEF Init, ConnectionInv
<1> QED BY <1>1, <1>2, TypeInvSplit

LEMMA TypeInvStep == TypeInv /\ [Next]_vars => TypeInv'
<1> SUFFICES ASSUME TypeInv, [Next]_vars PROVE TypeInv'
  OBVIOUS
<1>1. CASE UNCHANGED vars
  <2>1. RegistryInv' /\ ConnectionInv'
    BY <1>1, TypeInvSplit, RegistryUnchanged DEF vars, ConnectionInv, connections
  <2> QED BY <2>1 DEF TypeInv, ServerTypeOK, RegistryInv, ConnectionInv
<1>2. CASE RegistryStep
  BY <1>2, RegistryStepType
<1>3. ASSUME NEW c \in Conn, LoginStep(c) \/ LoopStep(c) \/ ClientStep(c)
      PROVE  TypeInv'
  BY <1>3, LoginStepType, LoopStepType, ClientStepType
<1> QED BY <1>1, <1>2, <1>3 DEF Next

\* Every variable of the server keeps its type, whatever handlers, connections
\* and clients do.
THEOREM TypeCorrect == Spec => []ServerTypeOK
<1>1. TypeInv => ServerTypeOK
  BY DEF TypeInv
<1> QED BY <1>1, TypeInvInit, TypeInvStep, PTL DEF Spec

-----------------------------------------------------------------------------
(* Inboxes.  InboxOwnership is inductive once it says where inboxes come    *)
(* from: a connection that has no reply yet has an inbox nobody knows, and  *)
(* the running registration is for such a connection.                       *)

Given == Inboxes \cup Waiting \cup closed
Joins == {"reenter", "retry", "admit"}
Unregistered(c) == pc[c] \in {"start", "create", "created"}

OwnershipInv ==
  /\ InboxOwnership
  /\ \A c \in Conn : Unregistered(c) => c \notin Given
  /\ stage \in Joins => pc[joining.conn] = "created"

\* Removing a client closes its inbox and gives no other inbox to anybody.
LEMMA RemovePlayerOwnership ==
  ASSUME RegistryInv, InboxOwnership, NEW i, NEW r, removePlayer(i, r),
         UNCHANGED nextTickCallbacks
  PROVE  InboxOwnership' /\ Given' \subseteq Given
<1>1. Waiting' = Waiting
  BY DEF Waiting
<1>2. CASE i \notin Members
  BY <1>1, <1>2 DEF removePlayer, members, InboxOwnership, Inboxes, Members, Given
<1>3. CASE i \in Members
  <2>1. clients' = [clients EXCEPT ![i] = None] /\ closed' = closed \cup {clients[i]}
    BY <1>3 DEF removePlayer
  <2>2. Members' = Members \ {i} /\ \A j \in Members' : clients'[j] = clients[j]
    BY <2>1 DEF Members, RegistryInv, RegistryTypeOK
  <2>3. clients[i] \in Inboxes
    BY <1>3 DEF Inboxes
  <2>4. Inboxes' \subseteq Inboxes \ {clients[i]}
    BY <1>3, <2>2 DEF Inboxes, InboxOwnership
  <2>5. (Inboxes' \cup Waiting') \cap closed' = {} /\ Inboxes' \cap Waiting' = {}
    BY <1>1, <2>1, <2>3, <2>4 DEF InboxOwnership
  <2>6. \A j, k \in Members' : clients'[j] = clients'[k] => j = k
    BY <2>2 DEF InboxOwnership
  <2> QED BY <1>1, <2>1, <2>3, <2>4, <2>5, <2>6 DEF InboxOwnership, Given
<1> QED BY <1>2, <1>3

\* A handler that leaves clients, joins and closed inboxes alone.
LEMMA SameOwners ==
  ASSUME InboxOwnership, UNCHANGED <<clients, nextTickCallbacks, closed>>
  PROVE  InboxOwnership' /\ Given' = Given
BY DEF InboxOwnership, Inboxes, Members, Waiting, Given

\* Admitting a connection that was given nothing yet.
LEMMA AdmitOwnership ==
  ASSUME RegistryInv, InboxOwnership, AdmitClient, joining.conn \notin Given
  PROVE  InboxOwnership' /\ Given' \subseteq Given \cup {joining.conn}
<1> DEFINE c == joining.conn
           i == joining.id
<1>1. c \in Conn /\ i \in ID /\ c # None
  BY RegistryAssumption DEF RegistryInv, AdmitClient, Joining
<1>2. c \notin Inboxes \cup Waiting \cup closed
  BY DEF Given
<1>3. closed' = closed \cup ({clients[i]} \ {None})
  BY DEF AdmitClient
<1>4. \A x \in {clients[i]} \ {None} : x \in Inboxes /\ \A j \in Members \ {i} : clients[j] # x
  BY <1>1 DEF Inboxes, Members, InboxOwnership
<1>5. CASE masterID = NoMaster
  <2>1. clients' = [clients EXCEPT ![i] = c] /\ Waiting' = Waiting
        /\ UNCHANGED nextTickCallbacks
    BY <1>5 DEF AdmitClient, Waiting
  <2>2. Members' = Members \cup {i}
    BY <1>1, <2>1 DEF Members, RegistryInv, RegistryTypeOK
  <2>3. clients'[i] = c /\ \A j \in ID \ {i} : clients'[j] = clients[j]
    BY <1>1, <2>1 DEF RegistryInv, RegistryTypeOK
  <2>4. Inboxes' = {clients[j] : j \in Members \ {i}} \cup {c}
    BY <2>2, <2>3 DEF Inboxes, Members
  <2>5. (Inboxes' \cup Waiting') \cap closed' = {} /\ Inboxes' \cap Waiting' = {}
    BY <1>2, <1>3, <1>4, <2>1, <2>4 DEF InboxOwnership, Inboxes
  <2>6. \A j, k \in Members' : clients'[j] = clients'[k] => j = k
    BY <1>2, <2>2, <2>3 DEF InboxOwnership, Inboxes, Members
  <2>7. Given' \subseteq Given \cup {c}
    BY <1>3, <1>4, <2>1, <2>4 DEF Given, Inboxes
  <2> QED BY <2>1, <2>5, <2>6, <2>7 DEF InboxOwnership
<1>6. CASE masterID # NoMaster
  <2> DEFINE e == [login |-> joining.login, id |-> i, inbox |-> c]
  <2>1. clients' = [clients EXCEPT ![i] = None]
        /\ nextTickCallbacks' = Append(nextTickCallbacks, e)
    BY <1>6 DEF AdmitClient
  <2>2. Members' = Members \ {i} /\ \A j \in Members' : clients'[j] = clients[j]
    BY <1>1, <2>1 DEF Members, RegistryInv, RegistryTypeOK
  <2>3. Inboxes' = {clients[j] : j \in Members \ {i}}
    BY <2>2 DEF Inboxes
  <2>4. nextTickCallbacks \in Seq(Callback) /\ e.inbox = c
    BY DEF RegistryInv, RegistryTypeOK
  <2>5. /\ DOMAIN nextTickCallbacks' = DOMAIN nextTickCallbacks \cup {Len(nextTickCallbacks) + 1}
        /\ \A k \in DOMAIN nextTickCallbacks : nextTickCallbacks'[k] = nextTickCallbacks[k]
        /\ nextTickCallbacks'[Len(nextTickCallbacks) + 1] = e
    BY <2>1, <2>4
  <2>6. Waiting' = Waiting \cup {c}
    BY <2>4, <2>5 DEF Waiting
  <2>7. (Inboxes' \cup Waiting') \cap closed' = {} /\ Inboxes' \cap Waiting' = {}
    BY <1>2, <1>3, <1>4, <2>3, <2>6 DEF InboxOwnership, Inboxes
  <2>8. \A j, k \in Members' : clients'[j] = clients'[k] => j = k
    BY <2>2 DEF InboxOwnership
  <2>9. \A k, n \in DOMAIN nextTickCallbacks' :
          nextTickCallbacks'[k].inbox = nextTickCallbacks'[n].inbox => k = n
    BY <1>2, <2>4, <2>5 DEF InboxOwnership, Waiting
  <2>10. Given' \subseteq Given \cup {c}
    BY <1>3, <1>4, <2>3, <2>6 DEF Given, Inboxes
  <2> QED BY <2>7, <2>8, <2>9, <2>10 DEF InboxOwnership
<1> QED BY <1>5, <1>6

\* Running the first of the waiting joins.
LEMMA CallbackOwnership ==
  ASSUME RegistryInv, InboxOwnership, RunCallback
  PROVE  InboxOwnership' /\ Given' \subseteq Given
<1> DEFINE cb == Head(nextTickCallbacks)
<1>1. nextTickCallbacks \in Seq(Callback) /\ nextTickCallbacks # <<>>
  BY DEF RunCallback, RegistryInv, RegistryTypeOK
<1>2. cb \in Callback /\ cb = nextTickCallbacks[1] /\ 1 \in DOMAIN nextTickCallbacks
  BY <1>1
<1>3. cb.inbox \in Conn /\ cb.inbox # None /\ cb.id \in ID /\ cb.inbox \in Waiting
  BY <1>2, RegistryAssumption DEF Callback, Waiting
<1>4. ASSUME nextTickCallbacks' = Tail(nextTickCallbacks)
      PROVE  /\ Waiting' = Waiting \ {cb.inbox}
             /\ \A k, n \in DOMAIN nextTickCallbacks' :
                  nextTickCallbacks'[k].inbox = nextTickCallbacks'[n].inbox => k = n
  <2>1. /\ DOMAIN nextTickCallbacks' = 1..(Len(nextTickCallbacks) - 1)
        /\ \A k \in DOMAIN nextTickCallbacks' : nextTickCallbacks'[k] = nextTickCallbacks[k + 1]
    BY <1>1, <1>4
  <2>2. DOMAIN nextTickCallbacks = 1..Len(nextTickCallbacks) /\ Len(nextTickCallbacks) \in Nat
    BY <1>1
  <2>3. \A k \in DOMAIN nextTickCallbacks' : k + 1 \in DOMAIN nextTickCallbacks /\ k + 1 # 1
    BY <2>1, <2>2
  <2>4. \A n \in DOMAIN nextTickCallbacks : n = 1 \/ n - 1 \in DOMAIN nextTickCallbacks'
    BY <2>1, <2>2
  <2>5. Waiting' \subseteq Waiting \ {cb.inbox}
    BY <1>2, <2>1, <2>3 DEF Waiting, InboxOwnership
  <2>6. Waiting \ {cb.inbox} \subseteq Waiting'
    <3>1. SUFFICES ASSUME NEW n \in DOMAIN nextTickCallbacks,
                          nextTickCallbacks[n].inbox # cb.inbox
                   PROVE  nextTickCallbacks[n].inbox \in Waiting'
      BY DEF Waiting
    <3>2. n - 1 \in DOMAIN nextTickCallbacks' /\ (n - 1) + 1 = n
      BY <1>2, <2>2, <2>4, <3>1
    <3>3. nextTickCallbacks'[n - 1] = nextTickCallbacks[n]
      BY <2>1, <3>2
    <3> QED BY <3>2, <3>3 DEF Waiting
  <2>7. \A k, n \in DOMAIN nextTickCallbacks' :
          nextTickCallbacks'[k].inbox = nextTickCallbacks'[n].inbox => k = n
    <3>1. SUFFICES ASSUME NEW k \in DOMAIN nextTickCallbacks', NEW n \in DOMAIN nextTickCallbacks',
                          nextTickCallbacks'[k].inbox = nextTickCallbacks'[n].inbox
                   PROVE  k = n
      OBVIOUS
    <3>2. k + 1 = n + 1
      BY <2>1, <2>3, <3>1 DEF InboxOwnership
    <3> QED BY <2>1, <3>2
  <2> QED BY <2>5, <2>6, <2>7
<1>5. CASE JoinMaster(cb)
  <2>1. clients' = [clients EXCEPT ![cb.id] = cb.inbox] /\ UNCHANGED closed
        /\ nextTickCallbacks' = Tail(nextTickCallbacks)
    BY <1>5 DEF JoinMaster
  <2>2. Members' = Members \cup {cb.id}
    BY <1>3, <2>1 DEF Members, RegistryInv, RegistryTypeOK
  <2>3. clients'[cb.id] = cb.inbox /\ \A j \in ID \ {cb.id} : clients'[j] = clients[j]
    BY <1>3, <2>1 DEF RegistryInv, RegistryTypeOK
  <2>4. Inboxes' \subseteq Inboxes \cup {cb.inbox}
    BY <2>2, <2>3 DEF Inboxes, Members
  <2>5. (Inboxes' \cup Waiting') \cap closed' = {} /\ Inboxes' \cap Waiting' = {}
    BY <1>3, <1>4, <2>1, <2>4 DEF InboxOwnership
  <2>6. \A j, k \in Members' : clients'[j] = clients'[k] => j = k
    BY <1>3, <2>2, <2>3 DEF InboxOwnership, Inboxes, Members
  <2> QED BY <1>3, <1>4, <2>1, <2>4, <2>5, <2>6 DEF InboxOwnership, Given
<1>6. CASE DropMaster(cb)
  BY <1>6, SameOwners DEF DropMaster
<1>7. CASE TurnAway(cb)
  <2>1. UNCHANGED clients /\ closed' = closed \cup {cb.inbox}
        /\ nextTickCallbacks' = Tail(nextTickCallbacks)
    BY <1>7 DEF TurnAway
  <2>2. Inboxes' = Inboxes /\ Members' = Members
    BY <2>1 DEF Inboxes, Members
  <2> QED BY <1>3, <1>4, <2>1, <2>2 DEF InboxOwnership, Given
<1> QED BY <1>5, <1>6, <1>7 DEF RunCallback

\* Steps of the registry between two requests.
LEMMA RegistryStepOwnership ==
  ASSUME TypeInv, OwnershipInv, RegistryStep
  PROVE  OwnershipInv'
<1>1. RegistryInv /\ InboxOwnership /\ UNCHANGED pc
  BY TypeInvSplit DEF OwnershipInv, RegistryStep, connections
<1>2. InboxOwnership' /\ Given' \subseteq Given
  <2>1. CASE DropClient
    <3>1. PICK d \in drops : removePlayer(d.id, d.reason)
      BY <2>1 DEF DropClient
    <3> QED BY <1>1, <2>1, <3>1, RemovePlayerOwnership DEF DropClient
  <2>2. CASE ReenterPlayer
    BY <1>1, <2>2, RemovePlayerOwnership DEF ReenterPlayer
  <2>3. CASE RunCallback
    BY <1>1, <2>3, CallbackOwnership
  <2>4. CASE \/ handleNewTick \/ checkForHashStart \/ checkHashes \/ maybeSendConnCounter
             \/ TickDone \/ handleHash \/ handleRestart \/ handleForcedNextTick
             \/ handlePing \/ handleGameMessage
    <3>1. UNCHANGED <<clients, nextTickCallbacks, closed>>
      BY <2>4
      DEF handleNewTick, checkForHashStart, checkHashes, maybeSendConnCounter, TickDone,
          handleHash, handleRestart, handleForcedNextTick, handlePing, handleGameMessage,
          members, channels
    <3> QED BY <1>1, <3>1, SameOwners
  <2> QED BY <2>1, <2>2, <2>3, <2>4 DEF RegistryStep
<1>3. stage' \in Joins => stage \in Joins /\ joining' = joining
  BY DEF RegistryStep, DropClient, ReenterPlayer, handleNewTick, sendNewTick,
         checkForHashStart, checkHashes, maybeSendConnCounter, RunCallback, TickDone,
         handleHash, handleRestart, handleForcedNextTick, handlePing, handleGameMessage,
         handler, Joins
<1> QED BY <1>1, <1>2, <1>3 DEF OwnershipInv, Unregistered

\* Steps of a connection's login.
LEMMA LoginStepOwnership ==
  ASSUME TypeInv, OwnershipInv, NEW c \in Conn, LoginStep(c)
  PROVE  OwnershipInv'
<1>1. /\ RegistryInv
      /\ InboxOwnership
      /\ pc \in [Conn -> {"start", "create", "created", "hello", "loop", "leave", "drain", "gone"}]
  BY TypeInvSplit DEF OwnershipInv, ConnectionInv
<1>2. CASE UNCHANGED registry /\ (stage \in Joins => c # joining.conn \/ UNCHANGED pc)
           /\ (Unregistered(c)' => Unregistered(c)) /\ \A d \in Conn \ {c} : pc'[d] = pc[d]
  <2>1. InboxOwnership' /\ Given' = Given
    BY <1>1, <1>2, SameOwners DEF registry, members, channels
  <2>2. UNCHANGED <<stage, joining>>
    BY <1>2 DEF registry, handler
  <2>3. stage \in Joins => joining.conn \in Conn
    BY <1>1 DEF RegistryInv, Joins, Joining
  <2> QED BY <1>2, <2>1, <2>2, <2>3 DEF OwnershipInv, Unregistered
<1>3. CASE LoginFails(c) \/ CheckVersion(c) \/ Hello(c) \/ HelloFails(c)
  <2>1. pc[c] # "created" /\ UNCHANGED registry
    BY <1>3 DEF LoginFails, CheckVersion, Hello, HelloFails, Goto
  <2>2. \A d \in Conn \ {c} : pc'[d] = pc[d]
    BY <1>1, <1>3 DEF LoginFails, CheckVersion, Hello, HelloFails, Goto
  <2>3. Unregistered(c)' => Unregistered(c)
    BY <1>1, <1>3 DEF LoginFails, CheckVersion, Hello, HelloFails, Goto, Unregistered
  <2> QED BY <1>2, <2>1, <2>2, <2>3 DEF OwnershipInv
<1>4. CASE Refused(c)
  <2>1. pc' = [pc EXCEPT ![c] = "gone"]
    BY <1>4 DEF Refused, Goto
  <2>2. UNCHANGED <<clients, nextTickCallbacks, closed>>
    BY <1>4 DEF Refused, RefusePlayer, registry, members, channels
  <2>3. stage' \notin Joins
    BY <1>4 DEF Refused, RefusePlayer, registry, handler, Idle, Joins
  <2> QED BY <1>1, <2>1, <2>2, <2>3, SameOwners DEF OwnershipInv, Unregistered
<1>5. CASE CreatePlayer(c)
  <2>1. PICK l \in LoginNames(LoginOf[c]) : registerPlayer(c, l, version[c])
    BY <1>5 DEF CreatePlayer
  <2>2. UNCHANGED <<clients, nextTickCallbacks, closed>>
    BY <2>1 DEF registerPlayer
  <2>3. joining'.conn = c
    BY <2>1 DEF registerPlayer
  <2>4. pc' = [pc EXCEPT ![c] = "created"] /\ pc[c] \in {"create", "created"}
    BY <1>5 DEF CreatePlayer
  <2> QED BY <1>1, <2>2, <2>3, <2>4, SameOwners DEF OwnershipInv, Unregistered
<1>6. CASE PlayerCreated(c)
  <2>1. AdmitClient /\ joining.conn = c /\ pc[c] = "created" /\ pc' = [pc EXCEPT ![c] = "hello"]
    BY <1>6 DEF PlayerCreated, Goto
  <2>2. c \notin Given
    BY <2>1 DEF OwnershipInv, Unregistered
  <2>3. InboxOwnership' /\ Given' \subseteq Given \cup {c}
    BY <1>1, <2>1, <2>2, AdmitOwnership
  <2>4. stage' \notin Joins
    BY <2>1 DEF AdmitClient, Joins
  <2> QED BY <1>1, <2>1, <2>3, <2>4 DEF OwnershipInv, Unregistered
<1> QED BY <1>3, <1>4, <1>5, <1>6 DEF LoginStep

\* Steps of a connection's main loop, its reciever and its client.
LEMMA LoopStepOwnership ==
  ASSUME TypeInv, OwnershipInv, NEW c \in Conn, LoopStep(c) \/ ClientStep(c)
  PROVE  OwnershipInv'
<1>1. /\ RegistryInv
      /\ InboxOwnership
      /\ pc \in [Conn -> {"start", "create", "created", "hello", "loop", "leave", "drain", "gone"}]
  BY TypeInvSplit DEF OwnershipInv, ConnectionInv
<1>2. InboxOwnership' /\ Given' \subseteq Given /\ UNCHANGED <<stage, joining>>
  <2>1. CASE RemovePlayer(c)
    <3>1. UNCHANGED <<nextTickCallbacks, stage, joining>> /\ removePlayer(id[c], None)
      BY <2>1 DEF RemovePlayer, handler
    <3> QED BY <1>1, <3>1, RemovePlayerOwnership
  <2>2. CASE ~RemovePlayer(c)
    <3>1. UNCHANGED <<clients, nextTickCallbacks, closed, stage, joining>>
      BY <2>2 DEF LoopStep, ClientStep, WriteMessage, WriteFails, Drain, InboxClosed, Leave,
                  AnswerHash, SendMessage, ReadFails, ClientDies, RecvMessage, Take,
                  registry, members, channels, handler
    <3> QED BY <1>1, <3>1, SameOwners
  <2> QED BY <2>1, <2>2
<1>3. \A d \in Conn : \/ pc'[d] = pc[d]
                      \/ pc[d] \in {"loop", "drain", "leave"} /\ ~Unregistered(d)'
  BY <1>1 DEF LoopStep, ClientStep, WriteMessage, WriteFails, Drain, InboxClosed, Leave,
              RemovePlayer, AnswerHash, SendMessage, ReadFails, ClientDies, connections,
              Goto, Unregistered
<1>4. stage \in Joins => joining.conn \in Conn
  BY <1>1 DEF RegistryInv, Joins, Joining
<1> QED BY <1>2, <1>3, <1>4 DEF OwnershipInv, Unregistered

LEMMA OwnershipInit == Init => OwnershipInv
BY DEF Init, RegistryInit, OwnershipInv, InboxOwnership, Given, Inboxes, Members, Waiting, Joins

LEMMA OwnershipStep == TypeInv /\ OwnershipInv /\ [Next]_vars => OwnershipInv'
<1> SUFFICES ASSUME TypeInv, OwnershipInv, [Next]_vars PROVE OwnershipInv'
  OBVIOUS
<1>1. CASE UNCHANGED vars
  BY <1>1 DEF vars, registry, members, channels, handler, connections, OwnershipInv,
              InboxOwnership, Given, Inboxes, Members, Waiting, Unregistered
<1>2. CASE RegistryStep
  BY <1>2, RegistryStepOwnership
<1>3. ASSUME NEW c \in Conn, LoginStep(c) \/ LoopStep(c) \/ ClientStep(c)
      PROVE  OwnershipInv'
  BY <1>3, LoginStepOwnership, LoopStepOwnership
<1> QED BY <1>1, <1>2, <1>3 DEF Next

\* The registry never sends to an inbox it has closed and never closes one
\* twice, in every interleaving of registrations, removals and postponed joins.
THEOREM InboxesOwned == Spec => []InboxOwnership
<1>1. OwnershipInv => InboxOwnership
  BY DEF OwnershipInv
<1> QED BY <1>1, TypeInvInit, TypeInvStep, OwnershipInit, OwnershipStep, PTL DEF Spec

-----------------------------------------------------------------------------
(* Ids and masters.  Outside the middle of a registration a game that has   *)
(* no master has left nothing behind.                                       *)

Clean == NoPlayers /\ nextID = 1 /\ clientVersion = None

GameInv ==
  /\ IdsUnique
  /\ Members # {} => masterID # NoMaster
  /\ masterID = NoMaster /\ stage # "admit" => Clean
  /\ stage = "reenter" => masterID # NoMaster /\ drops = {}

\* A removal elects another master or ends the game.
LEMMA RemovePlayerGame ==
  ASSUME RegistryInv, IdsUnique, Members # {} => masterID # NoMaster,
         NEW i, NEW r, removePlayer(i, r)
  PROVE  /\ IdsUnique'
         /\ Members' # {} => masterID' # NoMaster
         /\ masterID' = NoMaster => Clean' \/ UNCHANGED members
<1> USE RegistryAssumption
<1>1. CASE i \notin Members
  <2>1. UNCHANGED members
    BY <1>1 DEF removePlayer
  <2> QED BY <2>1 DEF members, IdsUnique, Members
<1>2. CASE i \in Members
  <2>1. clients' = [clients EXCEPT ![i] = None] /\ masterID' \in Successors(i)
    BY <1>2 DEF removePlayer
  <2>2. Members' = Members \ {i}
    BY <2>1 DEF Members, RegistryInv, RegistryTypeOK
  <2>3. masterID # NoMaster
    BY <1>2
  <2>4. \A j \in ID : j # NoMaster
    BY DEF ID, NoMaster
  <2>5. Members' # {} => masterID' # NoMaster
    BY <2>1, <2>2, <2>3, <2>4 DEF Successors, Members
  <2>6. masterID' = NoMaster => Clean'
    BY <1>2 DEF removePlayer, cleanUp, Clean, NoPlayers
  <2>7. IdsUnique'
    BY <1>2 DEF removePlayer, cleanUp, IdsUnique
  <2> QED BY <2>5, <2>6, <2>7
<1> QED BY <1>1, <1>2

\* Ids are given out in order, so that a new one is nobody's.
LEMMA RegisterGame ==
  ASSUME RegistryInv, GameInv, NEW c \in Conn, NEW l \in Login, NEW v, registerPlayer(c, l, v)
  PROVE  GameInv'
<1> USE RegistryAssumption
<1>1. Members' = Members /\ UNCHANGED <<clients, masterID>>
  BY DEF registerPlayer, Members
<1>2. CASE players[l] # 0 /\ UNCHANGED <<nextID, players, queue, drops, history>> /\ stage' = "reenter"
  <2>1. masterID # NoMaster /\ drops = {}
    BY <1>2 DEF GameInv, Clean, NoPlayers, registerPlayer, AtRegistration
  <2> QED BY <1>1, <1>2, <2>1 DEF GameInv, IdsUnique, history
<1>3. CASE /\ players[l] = 0
           /\ nextID <= MaxID
           /\ nextID' = nextID + 1
           /\ players' = [players EXCEPT ![l] = nextID]
           /\ stage' = "admit"
  <2>1. nextID \in Nat /\ players \in [Login -> Int] /\ nextID # 0
    BY DEF RegistryInv, RegistryTypeOK, ID
  <2>2. players' \in [Login -> Int] /\ players'[l] = nextID
        /\ \A k \in Login \ {l} : players'[k] = players[k]
    BY <1>3, <2>1
  <2>3. \A k \in Login : players[k] < nextID
    BY DEF GameInv, IdsUnique
  <2>4. \A k \in Login : players'[k] < nextID'
    BY <1>3, <2>1, <2>2, <2>3
  <2>5. \A k \in Login \ {l} : players'[k] # players'[l]
    BY <2>1, <2>2, <2>3
  <2>6. IdsUnique'
    BY <2>2, <2>4, <2>5 DEF GameInv, IdsUnique
  <2> QED BY <1>1, <1>3, <2>6 DEF GameInv
<1> QED BY <1>2, <1>3 DEF registerPlayer

LEMMA AdmitGame ==
  ASSUME RegistryInv, GameInv, AdmitClient
  PROVE  GameInv'
<1> USE RegistryAssumption
<1>1. joining.id \in ID
  BY DEF AdmitClient, RegistryInv, Joining
<1>2. masterID' # NoMaster
  BY <1>1 DEF AdmitClient, ID, NoMaster
<1>3. UNCHANGED <<nextID, players>> /\ stage' = "select"
  BY DEF AdmitClient
<1> QED BY <1>2, <1>3 DEF GameInv, IdsUnique

\* A join adds a member only when there is one already.
LEMMA CallbackGame ==
  ASSUME RegistryInv, GameInv, RunCallback
  PROVE  GameInv'
<1>1. UNCHANGED <<nextID, players, masterID, clientVersion, stage>> /\ stage = "callbacks"
  BY DEF RunCallback
<1>2. Members' # {} => masterID # NoMaster
  BY DEF RunCallback, JoinMaster, DropMaster, TurnAway, GameInv, Members
<1> QED BY <1>1, <1>2 DEF GameInv, IdsUnique, Clean, NoPlayers

\* A step that keeps the members, and is neither in nor into a registration.
LEMMA SameGame ==
  ASSUME GameInv, UNCHANGED members,
         \/ UNCHANGED stage /\ drops' \subseteq drops
         \/ stage \notin {"admit", "reenter"} /\ stage' \notin {"admit", "reenter"}
  PROVE  GameInv'
BY DEF members, GameInv, IdsUnique, Members, Clean, NoPlayers

LEMMA RegistryStepGame ==
  ASSUME RegistryInv, GameInv, RegistryStep
  PROVE  GameInv'
<1>1. CASE DropClient
  <2>1. PICK d \in drops : removePlayer(d.id, d.reason)
    BY <1>1 DEF DropClient
  <2>2. UNCHANGED stage /\ stage # "reenter"
    BY <1>1, <2>1 DEF DropClient, GameInv
  <2> QED BY <2>1, <2>2, RemovePlayerGame DEF GameInv, members, Clean, NoPlayers
<1>2. CASE ReenterPlayer
  <2>1. removePlayer(joining.id, None) /\ masterID # NoMaster /\ stage' # "reenter"
    BY <1>2 DEF ReenterPlayer, GameInv
  <2> QED BY <2>1, RemovePlayerGame DEF GameInv, members, Clean, NoPlayers
<1>3. CASE RunCallback
  BY <1>3, CallbackGame
<1>4. CASE \/ handleNewTick \/ checkForHashStart \/ checkHashes \/ maybeSendConnCounter
           \/ TickDone \/ handleHash \/ handleRestart \/ handleForcedNextTick
           \/ handlePing \/ handleGameMessage
  <2>1. UNCHANGED members
    BY <1>4
    DEF handleNewTick, checkForHashStart, checkHashes, maybeSendConnCounter, TickDone,
        handleHash, handleRestart, handleForcedNextTick, handlePing, handleGameMessage
  <2>2. stage \notin {"admit", "reenter"} /\ stage' \notin {"admit", "reenter"}
    BY <1>4
    DEF handleNewTick, sendNewTick, checkForHashStart, checkHashes, maybeSendConnCounter,
        TickDone, handleHash, handleRestart, handleForcedNextTick, handlePing,
        handleGameMessage, Pending, Idle, handler
  <2> QED BY <2>1, <2>2, SameGame
<1> QED BY <1>1, <1>2, <1>3, <1>4 DEF RegistryStep

LEMMA ConnectionStepGame ==
  ASSUME TypeInv, GameInv, NEW c \in Conn, LoginStep(c) \/ LoopStep(c) \/ ClientStep(c)
  PROVE  GameInv'
<1> USE RegistryAssumption, ServerAssumption
<1>1. RegistryInv /\ ConnectionInv
  BY TypeInvSplit
<1>2. CASE CreatePlayer(c)
  <2>1. PICK l \in LoginNames(LoginOf[c]) : registerPlayer(c, l, version[c])
    BY <1>2 DEF CreatePlayer
  <2>2. l \in Login
    BY <2>1 DEF LoginNames
  <2> QED BY <1>1, <2>1, <2>2, RegisterGame
<1>3. CASE PlayerCreated(c)
  BY <1>1, <1>3, AdmitGame DEF PlayerCreated
<1>4. CASE RemovePlayer(c)
  <2>1. removePlayer(id[c], None) /\ UNCHANGED stage /\ stage # "reenter"
    BY <1>4 DEF RemovePlayer, handler, Idle
  <2> QED BY <1>1, <2>1, RemovePlayerGame DEF GameInv, members, Clean, NoPlayers
<1>5. CASE Refused(c)
  <2>1. UNCHANGED registry \/ RefusePlayer(c, LoginOf[c])
    BY <1>5 DEF Refused
  <2>2. CASE UNCHANGED registry
    BY <2>2, SameGame DEF registry, handler
  <2>3. CASE RefusePlayer(c, LoginOf[c])
    BY <2>3, SameGame DEF RefusePlayer, AtRegistration
  <2> QED BY <2>1, <2>2, <2>3
<1>6. CASE ~(CreatePlayer(c) \/ PlayerCreated(c) \/ RemovePlayer(c) \/ Refused(c))
  <2>1. UNCHANGED <<members, stage, drops>>
    BY <1>6 DEF LoginStep, LoopStep, ClientStep, LoginFails, CheckVersion, Hello, HelloFails,
                WriteMessage, WriteFails, Drain, InboxClosed, Leave, AnswerHash, SendMessage,
                ReadFails, ClientDies, RecvMessage, Take, registry, handler
  <2> QED BY <2>1, SameGame
<1> QED BY <1>2, <1>3, <1>4, <1>5, <1>6

LEMMA GameInit == Init => GameInv
<1> SUFFICES ASSUME Init PROVE GameInv
  OBVIOUS
<1>1. IdsUnique /\ Members = {} /\ Clean
  BY DEF Init, RegistryInit, IdsUnique, Members, Clean, NoPlayers
<1> QED BY <1>1 DEF Init, RegistryInit, GameInv

LEMMA GameStep == TypeInv /\ GameInv /\ [Next]_vars => GameInv'
<1> SUFFICES ASSUME TypeInv, GameInv, [Next]_vars PROVE GameInv'
  OBVIOUS
<1>1. CASE UNCHANGED vars
  BY <1>1, SameGame DEF vars, registry, handler
<1>2. CASE RegistryStep
  BY <1>2, RegistryStepGame, TypeInvSplit
<1>3. ASSUME NEW c \in Conn, LoginStep(c) \/ LoopStep(c) \/ ClientStep(c)
      PROVE  GameInv'
  BY <1>3, ConnectionStepGame
<1> QED BY <1>1, <1>2, <1>3 DEF Next

\* No id is out twice, and the next one is free, even when a game ends in the
\* middle of a registration.
THEOREM IdsAreUnique == Spec => []IdsUnique
<1>1. GameInv => IdsUnique
  BY DEF GameInv
<1> QED BY <1>1, TypeInvInit, TypeInvStep, GameInit, GameStep, PTL DEF Spec

\* While there are clients there is a master, and a game that ends leaves no
\* player, id or version to the next one.
THEOREM MasterAlways == Spec => []MasterOrNoGame
<1>1. GameInv => MasterOrNoGame
  BY DEF GameInv, MasterOrNoGame, Clean, Idle
<1> QED BY <1>1, TypeInvInit, TypeInvStep, GameInit, GameStep, PTL DEF Spec

\* The registry's books are in order: types, ids and the master, for every number
\* of clients, logins and ids.
THEOREM GameIsSound == Spec => []GameSound
<1>1. ServerTypeOK /\ IdsUnique /\ MasterOrNoGame => GameSound
  BY DEF GameSound
<1> QED BY <1>1, TypeCorrect, IdsAreUnique, MasterAlways, PTL

-----------------------------------------------------------------------------
(* Places.  An open inbox that was given out has a place in the table or in  *)
(* a join that waits, unless a login is used again while a join of it still  *)
(* waits: then two joins register two inboxes under one id.                  *)

\* Nobody logs in again while a join of theirs waits for its tick.
Patient ==
  stage \in Joins =>
    \A k \in DOMAIN nextTickCallbacks : nextTickCallbacks[k].login # joining.login

\* A join that waits is of a game that has ended, or will find the place of its id free.
WaitersSound ==
  /\ \A k, n \in DOMAIN nextTickCallbacks :
       nextTickCallbacks[k].login = nextTickCallbacks[n].login => k = n
  /\ \A k \in DOMAIN nextTickCallbacks :
       LET cb == nextTickCallbacks[k]
       IN players[cb.login] # 0 => players[cb.login] = cb.id /\ cb.id \notin Members

\* Whoever registers has its id, unless the game ended meanwhile.
JoinerKnown ==
  /\ stage = "reenter" => players[joining.login] = joining.id
  /\ stage = "admit" /\ masterID # NoMaster => players[joining.login] = joining.id
  /\ stage = "admit" /\ masterID = NoMaster => \A l \in Login \ {joining.login} : players[l] = 0

PlacesInv == NoOrphanInbox /\ WaitersSound /\ JoinerKnown

Running == {"hello", "loop", "drain"}
KeepsPlaces ==
  /\ closed \subseteq closed'
  /\ Inboxes \cup Waiting \subseteq Inboxes' \cup Waiting' \cup closed'

LEMMA OrphanKept ==
  ASSUME NoOrphanInbox, KeepsPlaces,
         \A c \in Conn : pc'[c] \in Running => pc[c] \in Running \/ c \in Inboxes' \cup Waiting'
  PROVE  NoOrphanInbox'
BY DEF NoOrphanInbox, KeepsPlaces, Running

\* What a removal does to the table and to the players.
LEMMA RemovePlayerBooks ==
  ASSUME RegistryInv, Members # {} => masterID # NoMaster, NEW i, NEW r, removePlayer(i, r)
  PROVE  /\ Members' = Members \ {i}
         /\ \A j \in Members' : clients'[j] = clients[j]
         /\ closed \subseteq closed' /\ \A j \in Members \ Members' : clients[j] \in closed'
         /\ \/ UNCHANGED <<players, nextID>> /\ (masterID = NoMaster <=> masterID' = NoMaster)
            \/ Members' = {} /\ masterID' = NoMaster /\ \A l \in Login : players'[l] = 0
         /\ masterID \in Members /\ masterID' # NoMaster => masterID' \in Members'
<1> USE RegistryAssumption
<1>1. CASE i \notin Members
  BY <1>1 DEF removePlayer, members, Members
<1>2. CASE i \in Members
  <2>1. clients' = [clients EXCEPT ![i] = None] /\ masterID' \in Successors(i)
        /\ closed' = closed \cup {clients[i]}
    BY <1>2 DEF removePlayer
  <2>0. \/ masterID' = NoMaster /\ \A l \in Login : players'[l] = 0
        \/ masterID' # NoMaster /\ UNCHANGED <<players, nextID>>
    BY <1>2 DEF removePlayer, cleanUp
  <2>2. Members' = Members \ {i} /\ \A j \in Members' : clients'[j] = clients[j]
    BY <2>1 DEF Members, RegistryInv, RegistryTypeOK
  <2>3. masterID # NoMaster
    BY <1>2
  <2>4. \A j \in Members : j # NoMaster
    BY DEF ID, NoMaster, Members
  <2>5. masterID' = NoMaster => Members' = {} /\ \A l \in Login : players'[l] = 0
    BY <2>0, <2>1, <2>2, <2>3, <2>4 DEF Successors
  <2>6. masterID \in Members /\ masterID' # NoMaster => masterID' \in Members'
    BY <1>2, <2>1, <2>2 DEF Successors
  <2> QED BY <1>2, <2>0, <2>1, <2>2, <2>3, <2>5, <2>6
<1> QED BY <1>1, <1>2

LEMMA RemovePlayerPlaces ==
  ASSUME RegistryInv, Members # {} => masterID # NoMaster, NEW i, NEW r, removePlayer(i, r),
         UNCHANGED nextTickCallbacks
  PROVE  KeepsPlaces
<1>1. Waiting' = Waiting
  BY DEF Waiting
<1> QED BY <1>1, RemovePlayerBooks DEF KeepsPlaces, Inboxes

LEMMA SamePlaces ==
  ASSUME UNCHANGED <<clients, nextTickCallbacks, closed>>
  PROVE  KeepsPlaces /\ Members' = Members
BY DEF KeepsPlaces, Inboxes, Waiting, Members

\* The joins that wait stay sound when players and members only go.
LEMMA WaitersKept ==
  ASSUME WaitersSound, UNCHANGED nextTickCallbacks, Members' \subseteq Members,
         \A l \in Login : players'[l] \in {0, players[l]}, RegistryInv
  PROVE  WaitersSound'
<1>1. \A k \in DOMAIN nextTickCallbacks : nextTickCallbacks[k].login \in Login
  <2>1. nextTickCallbacks \in Seq(Callback)
    BY DEF RegistryInv, RegistryTypeOK
  <2>2. \A k \in DOMAIN nextTickCallbacks : nextTickCallbacks[k] \in Callback
    BY <2>1
  <2> QED BY <2>2 DEF Callback
<1> QED BY <1>1 DEF WaitersSound

\* A removal in the middle of whatever the registry does.
LEMMA RemovePlayerWaiters ==
  ASSUME RegistryInv, GameInv, PlacesInv, NEW i, NEW r, removePlayer(i, r),
         UNCHANGED <<nextTickCallbacks, joining>>
  PROVE  WaitersSound' /\ (stage' = stage /\ stage # "reenter" => JoinerKnown')
<1>1. /\ Members' \subseteq Members
      /\ \/ UNCHANGED <<players, nextID>> /\ (masterID = NoMaster <=> masterID' = NoMaster)
         \/ masterID' = NoMaster /\ \A l \in Login : players'[l] = 0
  BY RemovePlayerBooks DEF GameInv
<1>2. WaitersSound'
  BY <1>1, WaitersKept DEF PlacesInv
<1>3. ASSUME stage = "admit" PROVE joining \in Joining
  BY <1>3 DEF RegistryInv
<1> QED BY <1>1, <1>2, <1>3 DEF PlacesInv, JoinerKnown, Joining


\* The joins that wait once the first is done, as places in the former sequence.
LEMMA CallbacksTail ==
  ASSUME RegistryInv, nextTickCallbacks # <<>>, nextTickCallbacks' = Tail(nextTickCallbacks)
  PROVE  /\ \A k \in DOMAIN nextTickCallbacks' :
              k + 1 \in DOMAIN nextTickCallbacks /\ nextTickCallbacks'[k] = nextTickCallbacks[k + 1]
              /\ k + 1 # 1 /\ k \in Int
         /\ Waiting \subseteq Waiting' \cup {Head(nextTickCallbacks).inbox}
<1>1. nextTickCallbacks \in Seq(Callback)
  BY DEF RegistryInv, RegistryTypeOK
<1>2. \A k \in DOMAIN nextTickCallbacks' :
        k + 1 \in DOMAIN nextTickCallbacks /\ nextTickCallbacks'[k] = nextTickCallbacks[k + 1]
        /\ k + 1 # 1 /\ k \in Int
  BY <1>1
<1>3. ASSUME NEW n \in DOMAIN nextTickCallbacks, n # 1
      PROVE  \E k \in DOMAIN nextTickCallbacks' : nextTickCallbacks'[k] = nextTickCallbacks[n]
  <2>1. n - 1 \in DOMAIN nextTickCallbacks' /\ nextTickCallbacks'[n - 1] = nextTickCallbacks[n]
    BY <1>1, <1>3
  <2> QED BY <2>1
<1>4. Head(nextTickCallbacks) = nextTickCallbacks[1]
  BY <1>1
<1> QED BY <1>2, <1>3, <1>4 DEF Waiting

\* The first of the waiting joins finds the place of its id free.
LEMMA CallbackPlaces ==
  ASSUME RegistryInv, IdsUnique, PlacesInv, RunCallback, UNCHANGED pc
  PROVE  PlacesInv'
<1> USE RegistryAssumption
<1> DEFINE cb == Head(nextTickCallbacks)
<1>1. /\ nextTickCallbacks \in Seq(Callback) /\ nextTickCallbacks # <<>>
      /\ cb = nextTickCallbacks[1] /\ 1 \in DOMAIN nextTickCallbacks /\ cb \in Callback
  <2>1. nextTickCallbacks \in Seq(Callback) /\ nextTickCallbacks # <<>>
    BY DEF RunCallback, RegistryInv, RegistryTypeOK
  <2> QED BY <2>1
<1>2. cb.id \in ID /\ cb.inbox \in Conn /\ cb.inbox # None /\ cb.login \in Login
  BY <1>1 DEF Callback
<1>3. UNCHANGED <<players, stage, joining, masterID>> /\ stage = "callbacks"
  BY DEF RunCallback
<1>4. JoinerKnown'
  BY <1>3 DEF JoinerKnown
<1>5. CASE JoinMaster(cb)
  <2>1. /\ players[cb.login] # 0
        /\ clients' = [clients EXCEPT ![cb.id] = cb.inbox]
        /\ nextTickCallbacks' = Tail(nextTickCallbacks) /\ closed' = closed
    BY <1>5 DEF JoinMaster
  <2>2. players[cb.login] = cb.id /\ cb.id \notin Members
    BY <1>1, <2>1 DEF PlacesInv, WaitersSound
  <2>3. Members' = Members \cup {cb.id} /\ clients'[cb.id] = cb.inbox
        /\ \A j \in Members : clients'[j] = clients[j]
    BY <1>2, <2>1, <2>2 DEF Members, RegistryInv, RegistryTypeOK
  <2>4. KeepsPlaces
    BY <1>1, <2>1, <2>3, CallbacksTail DEF KeepsPlaces, Inboxes
  <2>5. ASSUME NEW k \in DOMAIN nextTickCallbacks', players[nextTickCallbacks'[k].login] # 0
        PROVE  players[nextTickCallbacks'[k].login] = nextTickCallbacks'[k].id
               /\ nextTickCallbacks'[k].id \notin Members'
    <3>1. k + 1 \in DOMAIN nextTickCallbacks /\ nextTickCallbacks'[k] = nextTickCallbacks[k + 1] /\ k + 1 # 1
      BY <1>1, <2>1, CallbacksTail
    <3>2. /\ players[nextTickCallbacks[k + 1].login] = nextTickCallbacks[k + 1].id
          /\ nextTickCallbacks[k + 1].id \notin Members
          /\ nextTickCallbacks[k + 1].login # cb.login
      BY <1>1, <2>5, <3>1 DEF PlacesInv, WaitersSound
    <3>3. nextTickCallbacks[k + 1].login \in Login
      <4>1. nextTickCallbacks[k + 1] \in Callback
        BY <1>1, <3>1
      <4> QED BY <4>1 DEF Callback
    <3>4. nextTickCallbacks[k + 1].id # cb.id
      BY <1>2, <2>1, <2>2, <3>2, <3>3 DEF IdsUnique
    <3> QED BY <2>3, <3>1, <3>2, <3>4
  <2>6. ASSUME NEW k \in DOMAIN nextTickCallbacks', NEW n \in DOMAIN nextTickCallbacks',
               nextTickCallbacks'[k].login = nextTickCallbacks'[n].login
        PROVE  k = n
    <3>1. k + 1 = n + 1
      BY <1>1, <2>1, <2>6, CallbacksTail DEF PlacesInv, WaitersSound
    <3> QED BY <1>1, <2>1, <3>1, CallbacksTail
  <2>7. WaitersSound'
    BY <1>3, <2>5, <2>6 DEF WaitersSound
  <2> QED BY <1>4, <2>4, <2>7, OrphanKept DEF PlacesInv
<1>6. CASE DropMaster(cb)
  <2>1. UNCHANGED <<clients, nextTickCallbacks, closed>>
    BY <1>6 DEF DropMaster
  <2>2. WaitersSound'
    BY <1>3, <2>1, SamePlaces DEF PlacesInv, WaitersSound
  <2> QED BY <1>4, <2>1, <2>2, SamePlaces, OrphanKept DEF PlacesInv
<1>7. CASE TurnAway(cb)
  <2>1. /\ UNCHANGED clients /\ closed' = closed \cup {cb.inbox}
        /\ nextTickCallbacks' = Tail(nextTickCallbacks)
    BY <1>7 DEF TurnAway
  <2>2. Members' = Members
    BY <2>1 DEF Members
  <2>3. KeepsPlaces
    BY <1>1, <2>1, <2>2, CallbacksTail DEF KeepsPlaces, Inboxes
  <2>4. WaitersSound'
    <3>1. \A k \in DOMAIN nextTickCallbacks' :
            k + 1 \in DOMAIN nextTickCallbacks /\ nextTickCallbacks'[k] = nextTickCallbacks[k + 1] /\ k \in Int
      BY <1>1, <2>1, CallbacksTail
    <3>2. \A k, n \in DOMAIN nextTickCallbacks' : k + 1 = n + 1 => k = n
      BY <3>1
    <3> QED BY <1>3, <2>2, <3>1, <3>2 DEF PlacesInv, WaitersSound
  <2> QED BY <1>4, <2>3, <2>4, OrphanKept DEF PlacesInv
<1> QED BY <1>5, <1>6, <1>7 DEF RunCallback

\* An admission puts the inbox of the newcomer into the table or among the joins.
LEMMA AdmitPlaces ==
  ASSUME RegistryInv, GameInv, PlacesInv, Patient, AdmitClient,
         pc' = [pc EXCEPT ![joining.conn] = "hello"]
  PROVE  PlacesInv'
<1> USE RegistryAssumption
<1> DEFINE c == joining.conn
           i == joining.id
<1>1. /\ c \in Conn /\ i \in ID /\ c # None /\ joining.login \in Login
      /\ nextTickCallbacks \in Seq(Callback)
  BY DEF RegistryInv, RegistryTypeOK, AdmitClient, Joining
<1>2. stage = "admit" /\ stage' = "select" /\ UNCHANGED players
      /\ closed' = closed \cup ({clients[i]} \ {None})
  BY DEF AdmitClient
<1>3. \A k \in DOMAIN nextTickCallbacks : nextTickCallbacks[k].login # joining.login
  BY <1>2 DEF Patient, Joins
<1>4. \A k \in DOMAIN nextTickCallbacks : nextTickCallbacks[k] \in Callback
  BY <1>1
<1>5. JoinerKnown'
  BY <1>2 DEF JoinerKnown
<1>6. \A d \in Conn \ {c} : pc'[d] = pc[d] \/ pc'[d] \notin Running
  BY DEF Running
<1>7. ASSUME KeepsPlaces, c \in Inboxes' \cup Waiting', WaitersSound'
      PROVE  PlacesInv'
  BY <1>5, <1>6, <1>7, OrphanKept DEF PlacesInv
<1>8. CASE masterID = NoMaster
  <2>1. clients' = [clients EXCEPT ![i] = c] /\ UNCHANGED nextTickCallbacks
    BY <1>8 DEF AdmitClient
  <2>2. Members = {} /\ Members' = {i} /\ clients'[i] = c
    BY <1>1, <1>8, <2>1 DEF GameInv, Members, RegistryInv, RegistryTypeOK
  <2>3. Inboxes = {} /\ c \in Inboxes' /\ Waiting' = Waiting
    BY <2>1, <2>2 DEF Inboxes, Waiting
  <2>4. \A k \in DOMAIN nextTickCallbacks : players[nextTickCallbacks[k].login] = 0
    BY <1>2, <1>3, <1>4, <1>8 DEF PlacesInv, JoinerKnown, Callback
  <2>5. WaitersSound'
    BY <1>2, <2>1, <2>4 DEF PlacesInv, WaitersSound
  <2> QED BY <1>2, <1>7, <2>3, <2>5 DEF KeepsPlaces
<1>9. CASE masterID # NoMaster
  <2> DEFINE e == [login |-> joining.login, id |-> i, inbox |-> c]
  <2>1. clients' = [clients EXCEPT ![i] = None]
        /\ nextTickCallbacks' = Append(nextTickCallbacks, e)
    BY <1>9 DEF AdmitClient
  <2>2. Members' = Members \ {i} /\ \A j \in Members' : clients'[j] = clients[j]
    BY <1>1, <2>1 DEF Members, RegistryInv, RegistryTypeOK
  <2>3. /\ DOMAIN nextTickCallbacks' = DOMAIN nextTickCallbacks \cup {Len(nextTickCallbacks) + 1}
        /\ \A k \in DOMAIN nextTickCallbacks : nextTickCallbacks'[k] = nextTickCallbacks[k]
        /\ nextTickCallbacks'[Len(nextTickCallbacks) + 1] = e
    BY <1>1, <2>1
  <2>4. e.inbox = c /\ e.login = joining.login /\ e.id = i
    OBVIOUS
  <2>5. Waiting \subseteq Waiting' /\ c \in Waiting'
    BY <2>3, <2>4 DEF Waiting
  <2>6. KeepsPlaces
    BY <1>2, <2>2, <2>5 DEF KeepsPlaces, Inboxes, Members
  <2>7. players[joining.login] = i
    BY <1>2, <1>9 DEF PlacesInv, JoinerKnown
  <2>8. WaitersSound'
    <3> HIDE DEF e
    <3>1. \A k \in DOMAIN nextTickCallbacks' :
            LET cb == nextTickCallbacks'[k]
            IN players'[cb.login] # 0 => players'[cb.login] = cb.id /\ cb.id \notin Members'
      BY <1>2, <2>2, <2>3, <2>4, <2>7 DEF PlacesInv, WaitersSound
    <3>2. \A k, n \in DOMAIN nextTickCallbacks' :
            nextTickCallbacks'[k].login = nextTickCallbacks'[n].login => k = n
      BY <1>3, <2>3, <2>4 DEF PlacesInv, WaitersSound
    <3> QED BY <3>1, <3>2 DEF WaitersSound
  <2> QED BY <1>7, <2>5, <2>6, <2>8
<1> QED BY <1>8, <1>9

\* A registration gives an id to a login no waiting join has.
LEMMA RegisterPlaces ==
  ASSUME RegistryInv, GameInv, PlacesInv, Patient', NEW c \in Conn, NEW l \in Login, NEW v,
         registerPlayer(c, l, v)
  PROVE  WaitersSound' /\ JoinerKnown'
<1>1. UNCHANGED <<clients, masterID, nextTickCallbacks>> /\ drops = {}
      /\ stage \in {"select", "retry"} /\ stage' \in Joins /\ joining'.login = l
  BY DEF registerPlayer, AtRegistration, Joins
<1>2. \A k \in DOMAIN nextTickCallbacks : nextTickCallbacks[k].login # l
  BY <1>1 DEF Patient
<1>3. Members' = Members
  BY <1>1 DEF Members
<1>4. \A k \in DOMAIN nextTickCallbacks : nextTickCallbacks[k].login \in Login
  <2>1. nextTickCallbacks \in Seq(Callback)
    BY DEF RegistryInv, RegistryTypeOK
  <2>2. \A k \in DOMAIN nextTickCallbacks : nextTickCallbacks[k] \in Callback
    BY <2>1
  <2> QED BY <2>2 DEF Callback
<1>5. CASE players[l] # 0 /\ UNCHANGED players /\ joining' = [conn |-> c, login |-> l, id |-> players[l]]
           /\ stage' = "reenter"
  BY <1>1, <1>3, <1>5 DEF PlacesInv, WaitersSound, JoinerKnown
<1>6. CASE players' = [players EXCEPT ![l] = nextID] /\ joining' = [conn |-> c, login |-> l, id |-> nextID]
           /\ stage' = "admit"
  <2>1. players'[l] = nextID /\ \A k \in Login \ {l} : players'[k] = players[k]
    BY <1>6 DEF RegistryInv, RegistryTypeOK
  <2>2. WaitersSound'
    BY <1>1, <1>2, <1>3, <1>4, <2>1 DEF PlacesInv, WaitersSound
  <2>3. masterID = NoMaster => \A k \in Login : players[k] = 0
    BY <1>1 DEF GameInv, Clean, NoPlayers
  <2> QED BY <1>1, <1>6, <2>1, <2>2, <2>3 DEF JoinerKnown
<1> QED BY <1>5, <1>6 DEF registerPlayer


LEMMA RegistryStepPlaces ==
  ASSUME RegistryInv, GameInv, PlacesInv, RegistryStep
  PROVE  PlacesInv'
<1>0. UNCHANGED pc
  BY DEF RegistryStep, connections
<1>1. CASE DropClient
  <2>1. PICK d \in drops : removePlayer(d.id, d.reason)
    BY <1>1 DEF DropClient
  <2>2. UNCHANGED <<nextTickCallbacks, stage, joining>> /\ stage # "reenter"
    BY <1>1, <2>1 DEF DropClient, GameInv
  <2>3. KeepsPlaces /\ WaitersSound' /\ JoinerKnown'
    BY <2>1, <2>2, RemovePlayerPlaces, RemovePlayerWaiters DEF GameInv
  <2> QED BY <1>0, <2>3, OrphanKept DEF PlacesInv
<1>2. CASE ReenterPlayer
  <2>0. \/ players'[joining.login] # 0 /\ stage' = "admit"
        \/ players'[joining.login] = 0 /\ stage' = "retry"
    BY <1>2 DEF ReenterPlayer
  <2>1. removePlayer(joining.id, None) /\ UNCHANGED <<nextTickCallbacks, joining>> /\ stage = "reenter"
    BY <1>2 DEF ReenterPlayer
  <2>2. KeepsPlaces /\ WaitersSound'
    BY <2>1, RemovePlayerPlaces, RemovePlayerWaiters DEF GameInv
  <2>3. /\ masterID # NoMaster /\ joining \in Joining /\ players[joining.login] = joining.id
        /\ \/ UNCHANGED players /\ masterID' # NoMaster
           \/ \A l \in Login : players'[l] = 0
    BY <2>1, RemovePlayerBooks DEF GameInv, RegistryInv, PlacesInv, JoinerKnown
  <2>4. JoinerKnown'
    BY <2>0, <2>1, <2>3 DEF JoinerKnown, Joining
  <2> QED BY <1>0, <2>2, <2>4, OrphanKept DEF PlacesInv
<1>3. CASE RunCallback
  BY <1>0, <1>3, CallbackPlaces DEF GameInv
<1>4. CASE \/ handleNewTick \/ checkForHashStart \/ checkHashes \/ maybeSendConnCounter
           \/ TickDone \/ handleHash \/ handleRestart \/ handleForcedNextTick
           \/ handlePing \/ handleGameMessage
  <2>1. UNCHANGED <<members, nextTickCallbacks, closed>>
    BY <1>4
    DEF handleNewTick, checkForHashStart, checkHashes, maybeSendConnCounter, TickDone,
        handleHash, handleRestart, handleForcedNextTick, handlePing, handleGameMessage, channels
  <2>2. stage' \notin {"admit", "reenter"}
    BY <1>4
    DEF handleNewTick, sendNewTick, checkForHashStart, checkHashes, maybeSendConnCounter,
        TickDone, handleHash, handleRestart, handleForcedNextTick, handlePing,
        handleGameMessage, Pending, Idle, handler
  <2>3. KeepsPlaces /\ WaitersSound' /\ JoinerKnown'
    BY <2>1, <2>2, SamePlaces, WaitersKept DEF members, JoinerKnown, PlacesInv
  <2> QED BY <1>0, <2>3, OrphanKept DEF PlacesInv
<1> QED BY <1>1, <1>2, <1>3, <1>4 DEF RegistryStep

LEMMA ConnectionStepPlaces ==
  ASSUME TypeInv, GameInv, PlacesInv, Patient, Patient', NEW c \in Conn,
         LoginStep(c) \/ LoopStep(c) \/ ClientStep(c)
  PROVE  PlacesInv'
<1> USE RegistryAssumption, ServerAssumption
<1>1. /\ RegistryInv
      /\ pc \in [Conn -> {"start", "create", "created", "hello", "loop", "leave", "drain", "gone"}]
  BY TypeInvSplit DEF ConnectionInv
<1>2. CASE CreatePlayer(c)
  <2>1. PICK l \in LoginNames(LoginOf[c]) : registerPlayer(c, l, version[c])
    BY <1>2 DEF CreatePlayer
  <2>2. l \in Login
    BY <2>1 DEF LoginNames
  <2>3. WaitersSound' /\ JoinerKnown'
    BY <1>1, <2>1, <2>2, RegisterPlaces
  <2>4. UNCHANGED <<clients, nextTickCallbacks, closed>>
    BY <2>1 DEF registerPlayer
  <2>5. \A d \in Conn : pc'[d] \in Running => pc[d] \in Running
    BY <1>1, <1>2 DEF CreatePlayer, Running
  <2> QED BY <2>3, <2>4, <2>5, SamePlaces, OrphanKept DEF PlacesInv
<1>3. CASE PlayerCreated(c)
  <2>1. AdmitClient /\ pc' = [pc EXCEPT ![joining.conn] = "hello"]
    BY <1>3 DEF PlayerCreated, Goto
  <2> QED BY <1>1, <2>1, AdmitPlaces
<1>4. CASE RemovePlayer(c)
  <2>1. removePlayer(id[c], None) /\ UNCHANGED <<nextTickCallbacks, stage, joining>> /\ stage # "reenter"
    BY <1>4 DEF RemovePlayer, handler, Idle
  <2>2. KeepsPlaces /\ WaitersSound' /\ JoinerKnown'
    BY <1>1, <2>1, RemovePlayerPlaces, RemovePlayerWaiters DEF GameInv
  <2>3. \A d \in Conn : pc'[d] \in Running => pc[d] \in Running
    BY <1>1, <1>4 DEF RemovePlayer, Running
  <2> QED BY <2>2, <2>3, OrphanKept DEF PlacesInv
<1>5. CASE ~(CreatePlayer(c) \/ PlayerCreated(c) \/ RemovePlayer(c))
  <2>1. UNCHANGED <<members, nextTickCallbacks, closed>>
    BY <1>5 DEF LoginStep, LoopStep, ClientStep, LoginFails, CheckVersion, Refused, RefusePlayer,
                Hello, HelloFails, WriteMessage, WriteFails, Drain, InboxClosed, Leave, AnswerHash,
                SendMessage, ReadFails, ClientDies, RecvMessage, Take, registry, channels
  <2>2. UNCHANGED <<stage, joining>> \/ stage' = "select"
    BY <1>5 DEF LoginStep, LoopStep, ClientStep, LoginFails, CheckVersion, Refused, RefusePlayer,
                Hello, HelloFails, WriteMessage, WriteFails, Drain, InboxClosed, Leave, AnswerHash,
                SendMessage, ReadFails, ClientDies, RecvMessage, Take, registry, handler
  <2>3. \A d \in Conn : pc'[d] \in Running => pc[d] \in Running
    BY <1>1, <1>5 DEF LoginStep, LoopStep, ClientStep, LoginFails, CheckVersion, Refused,
                Hello, HelloFails, WriteMessage, WriteFails, Drain, InboxClosed, Leave, AnswerHash,
                SendMessage, ReadFails, ClientDies, Goto, Running, connections
  <2>4. KeepsPlaces /\ WaitersSound' /\ JoinerKnown'
    BY <1>1, <2>1, <2>2, SamePlaces, WaitersKept DEF members, JoinerKnown, PlacesInv
  <2> QED BY <2>3, <2>4, OrphanKept DEF PlacesInv
<1> QED BY <1>2, <1>3, <1>4, <1>5

LEMMA PlacesInit == Init => PlacesInv
<1> SUFFICES ASSUME Init PROVE PlacesInv
  OBVIOUS
<1>1. NoOrphanInbox
  BY DEF Init, NoOrphanInbox
<1>2. nextTickCallbacks = <<>> /\ stage = "select"
  BY DEF Init, RegistryInit
<1>3. DOMAIN nextTickCallbacks = {}
  BY <1>2
<1> QED BY <1>1, <1>2, <1>3 DEF PlacesInv, WaitersSound, JoinerKnown

LEMMA PlacesStep ==
  TypeInv /\ GameInv /\ PlacesInv /\ Patient /\ Patient' /\ [Next]_vars => PlacesInv'
<1> SUFFICES ASSUME TypeInv, GameInv, PlacesInv, Patient, Patient', [Next]_vars PROVE PlacesInv'
  OBVIOUS
<1>1. CASE UNCHANGED vars
  <2>1. UNCHANGED <<members, nextTickCallbacks, closed, stage, joining, pc>>
    BY <1>1 DEF vars, registry, channels, handler, connections
  <2> QED BY <2>1, SamePlaces, WaitersKept, OrphanKept, TypeInvSplit DEF members, JoinerKnown, PlacesInv
<1>2. CASE RegistryStep
  BY <1>2, RegistryStepPlaces, TypeInvSplit
<1>3. ASSUME NEW c \in Conn, LoginStep(c) \/ LoopStep(c) \/ ClientStep(c)
      PROVE  PlacesInv'
  BY <1>3, ConnectionStepPlaces
<1> QED BY <1>1, <1>2, <1>3 DEF Next

\* As long as nobody logs in again while a join of theirs waits, no inbox is
\* forgotten: its connection hears of every end.
THEOREM InboxesKept == Spec /\ []Patient => []NoOrphanInbox
<1>1. PlacesInv => NoOrphanInbox
  BY DEF PlacesInv
<1> QED
  BY <1>1, TypeInvInit, TypeInvStep, GameInit, GameStep, PlacesInit, PlacesStep, PTL DEF Spec


-----------------------------------------------------------------------------
(* Sessions.  A game that is not ended by the announcement of a newcomer     *)
(* goes as GameSession says, and every client of it has a mob.               *)

\* The announcement of a newcomer never drops the last client.
Lasting == stage = "admit" => ~NoPlayers

\* The id of a newcomer is nobody's in the table.
SessionInv ==
  /\ MasterIsMember
  /\ \A i \in Members : i < nextID
  /\ stage = "admit" => joining.id \notin Members /\ players[joining.login] = joining.id

\* Whoever plays was announced to the world, but for the first, who makes it.
MobInv ==
  /\ ClientsHaveMob
  /\ \A l \in Login : \/ players[l] \in {0} \cup world
                      \/ stage = "admit" /\ masterID = NoMaster /\ l = joining.login

LEMMA RemovePlayerSession ==
  ASSUME RegistryInv, GameInv, SessionInv, MobInv, NEW i, NEW r, removePlayer(i, r),
         UNCHANGED <<joining, world>>,
         stage' = "admit" => /\ \E l \in Login : players'[l] # 0
                             /\ \/ stage = "admit"
                                \/ players[joining.login] = joining.id /\ i = joining.id,
         stage # "admit" \/ UNCHANGED stage
  PROVE  SessionInv' /\ MobInv'
<1>1. /\ Members' = Members \ {i}
      /\ \/ UNCHANGED <<players, nextID>> /\ (masterID = NoMaster <=> masterID' = NoMaster)
         \/ Members' = {} /\ masterID' = NoMaster /\ \A l \in Login : players'[l] = 0
      /\ masterID \in Members /\ masterID' # NoMaster => masterID' \in Members'
  BY RemovePlayerBooks DEF GameInv
<1>2. MasterIsMember'
  BY <1>1 DEF SessionInv, MasterIsMember
<1>3. \A j \in Members' : j < nextID'
  BY <1>1 DEF SessionInv
<1>4. stage' = "admit" => joining.id \notin Members' /\ players'[joining.login] = joining.id
  BY <1>1 DEF SessionInv
<1>5. ClientsHaveMob'
  BY <1>1 DEF MobInv, ClientsHaveMob
<1>6. \A l \in Login : \/ players'[l] \in {0} \cup world
                       \/ stage' = "admit" /\ masterID' = NoMaster /\ l = joining.login
  BY <1>1 DEF MobInv
<1> QED BY <1>2, <1>3, <1>4, <1>5, <1>6 DEF SessionInv, MobInv

LEMMA SameSession ==
  ASSUME SessionInv, MobInv, UNCHANGED <<members, world>>,
         UNCHANGED <<stage, joining>> \/ (stage # "admit" /\ stage' # "admit")
  PROVE  SessionInv' /\ MobInv'
BY DEF SessionInv, MobInv, MasterIsMember, ClientsHaveMob, members, Members

LEMMA RegisterSession ==
  ASSUME RegistryInv, GameInv, SessionInv, MobInv,
         NEW c \in Conn, NEW l \in Login, NEW v, registerPlayer(c, l, v)
  PROVE  SessionInv' /\ MobInv'
<1>1. UNCHANGED <<clients, masterID>> /\ stage # "admit" /\ Members' = Members
  BY DEF registerPlayer, AtRegistration, Members
<1>2. CASE UNCHANGED <<nextID, players, history>> /\ stage' = "reenter"
  BY <1>1, <1>2 DEF SessionInv, MobInv, MasterIsMember, ClientsHaveMob, history
<1>3. CASE /\ nextID' = nextID + 1
           /\ players' = [players EXCEPT ![l] = nextID]
           /\ joining' = [conn |-> c, login |-> l, id |-> nextID]
           /\ stage' = "admit"
           /\ sendAll(Msg("NewClient", nextID))
  <2>1. /\ nextID \in Int /\ players'[l] = nextID
        /\ \A k \in Login \ {l} : players'[k] = players[k]
        /\ \A i \in Members : i \in Int
    BY <1>3 DEF RegistryInv, RegistryTypeOK, Members, ID
  <2>2. world' = IF Members # {} THEN world \cup {nextID} ELSE world
    BY <1>3 DEF sendAll, Msg
  <2>3. ASSUME NEW i \in Members PROVE i < nextID /\ i < nextID' /\ i # nextID
    <3>1. i < nextID /\ i \in Int /\ nextID \in Int /\ nextID' = nextID + 1
      BY <1>3, <2>1 DEF SessionInv
    <3> QED BY <3>1
  <2>4. SessionInv'
    BY <1>1, <1>3, <2>1, <2>3 DEF SessionInv, MasterIsMember
  <2>5. Members = {} => masterID = NoMaster
    BY DEF SessionInv, MasterIsMember
  <2>6. MobInv'
    BY <1>1, <1>3, <2>1, <2>2, <2>5 DEF MobInv, ClientsHaveMob
  <2> QED BY <2>4, <2>6
<1> QED BY <1>2, <1>3 DEF registerPlayer

LEMMA AdmitSession ==
  ASSUME RegistryInv, GameInv, PlacesInv, SessionInv, MobInv, AdmitClient
  PROVE  SessionInv' /\ MobInv'
<1> USE RegistryAssumption
<1> DEFINE i == joining.id
<1>1. /\ i \in ID /\ joining.conn \in Conn /\ joining.conn # None /\ joining.login \in Login
      /\ stage = "admit" /\ stage' = "select" /\ UNCHANGED <<nextID, players>>
      /\ i \notin Members /\ players[joining.login] = i /\ i # 0
  BY DEF AdmitClient, RegistryInv, Joining, SessionInv, ID
<1>2. i < nextID
  BY <1>1 DEF GameInv, IdsUnique
<1>3. CASE masterID = NoMaster
  <2>1. masterID' = i /\ clients' = [clients EXCEPT ![i] = joining.conn] /\ world' = {i}
    BY <1>3 DEF AdmitClient
  <2>2. Members' = {i}
    BY <1>1, <1>3, <2>1 DEF GameInv, Members, RegistryInv, RegistryTypeOK
  <2>3. \A l \in Login : players[l] \in {0, i}
    BY <1>1, <1>3 DEF PlacesInv, JoinerKnown
  <2> QED BY <1>1, <1>2, <2>1, <2>2, <2>3 DEF SessionInv, MobInv, MasterIsMember, ClientsHaveMob
<1>4. CASE masterID # NoMaster
  <2>1. clients' = [clients EXCEPT ![i] = None] /\ UNCHANGED <<masterID, world>>
    BY <1>4 DEF AdmitClient
  <2>2. Members' = Members
    BY <1>1, <2>1 DEF Members, RegistryInv, RegistryTypeOK
  <2> QED BY <1>1, <1>4, <2>1, <2>2 DEF SessionInv, MobInv, MasterIsMember, ClientsHaveMob
<1> QED BY <1>3, <1>4

\* A join that is carried out is of this game.
LEMMA CallbackSession ==
  ASSUME RegistryInv, GameInv, PlacesInv, SessionInv, MobInv, RunCallback
  PROVE  SessionInv' /\ MobInv'
<1> USE RegistryAssumption
<1> DEFINE cb == Head(nextTickCallbacks)
<1>1. /\ nextTickCallbacks \in Seq(Callback) /\ nextTickCallbacks # <<>>
      /\ cb = nextTickCallbacks[1] /\ 1 \in DOMAIN nextTickCallbacks /\ cb \in Callback
  <2>1. nextTickCallbacks \in Seq(Callback) /\ nextTickCallbacks # <<>>
    BY DEF RunCallback, RegistryInv, RegistryTypeOK
  <2> QED BY <2>1
<1>2. cb.id \in ID /\ cb.inbox \in Conn /\ cb.inbox # None /\ cb.login \in Login /\ cb.id # 0
  BY <1>1 DEF Callback, ID
<1>3. UNCHANGED <<players, stage, joining, masterID, nextID, world>> /\ stage = "callbacks"
  BY DEF RunCallback
<1>4. CASE JoinMaster(cb)
  <2>1. players[cb.login] # 0 /\ clients' = [clients EXCEPT ![cb.id] = cb.inbox]
    BY <1>4 DEF JoinMaster
  <2>2. players[cb.login] = cb.id
    BY <1>1, <2>1 DEF PlacesInv, WaitersSound
  <2>3. Members' = Members \cup {cb.id}
    BY <1>2, <2>1 DEF Members, RegistryInv, RegistryTypeOK
  <2>4. cb.id < nextID /\ cb.id \in world
    BY <1>2, <1>3, <2>2 DEF GameInv, IdsUnique, MobInv
  <2> QED BY <1>3, <2>3, <2>4 DEF SessionInv, MobInv, MasterIsMember, ClientsHaveMob
<1>5. CASE DropMaster(cb) \/ TurnAway(cb)
  <2>1. UNCHANGED members
    BY <1>3, <1>5 DEF DropMaster, TurnAway, members, RunCallback
  <2> QED BY <1>3, <2>1, SameSession
<1> QED BY <1>4, <1>5 DEF RunCallback


LEMMA RegistryStepSession ==
  ASSUME RegistryInv, GameInv, PlacesInv, Lasting', SessionInv, MobInv, RegistryStep
  PROVE  SessionInv' /\ MobInv'
<1>1. CASE DropClient
  <2>1. PICK d \in drops : removePlayer(d.id, d.reason)
    BY <1>1 DEF DropClient
  <2>2. UNCHANGED stage /\ UNCHANGED <<joining, world>>
    BY <1>1 DEF DropClient, history
  <2>3. stage' = "admit" => \E l \in Login : players'[l] # 0
    BY DEF Lasting, NoPlayers
  <2>4. stage' = "admit" => stage = "admit"
    BY <2>2
  <2> QED BY <2>1, <2>2, <2>3, <2>4, RemovePlayerSession
<1>2. CASE ReenterPlayer
  <2>1. removePlayer(joining.id, None) /\ UNCHANGED <<joining, world>> /\ stage = "reenter"
    BY <1>2 DEF ReenterPlayer, history
  <2>2. players[joining.login] = joining.id
    BY <2>1 DEF PlacesInv, JoinerKnown
  <2>3. stage' = "admit" => \E l \in Login : players'[l] # 0
    BY DEF Lasting, NoPlayers
  <2> QED BY <2>1, <2>2, <2>3, RemovePlayerSession
<1>3. CASE RunCallback
  BY <1>3, CallbackSession
<1>4. CASE \/ handleNewTick \/ checkForHashStart \/ checkHashes \/ maybeSendConnCounter
           \/ TickDone \/ handleHash \/ handleRestart \/ handleForcedNextTick
           \/ handlePing \/ handleGameMessage
  <2>1. UNCHANGED members
    BY <1>4
    DEF handleNewTick, checkForHashStart, checkHashes, maybeSendConnCounter, TickDone,
        handleHash, handleRestart, handleForcedNextTick, handlePing, handleGameMessage
  <2>2. stage # "admit" /\ stage' # "admit"
    BY <1>4
    DEF handleNewTick, sendNewTick, checkForHashStart, checkHashes, maybeSendConnCounter,
        TickDone, handleHash, handleRestart, handleForcedNextTick, handlePing,
        handleGameMessage, Pending, Idle, handler
  <2>3. UNCHANGED world
    BY <1>4
    DEF handleNewTick, sendNewTick, checkForHashStart, checkHashes, maybeSendConnCounter,
        TickDone, handleHash, handleRestart, handleForcedNextTick, handlePing,
        handleGameMessage, sendAll, Msg, history
  <2> QED BY <2>1, <2>2, <2>3, SameSession
<1> QED BY <1>1, <1>2, <1>3, <1>4 DEF RegistryStep

LEMMA ConnectionStepSession ==
  ASSUME TypeInv, GameInv, PlacesInv, SessionInv, MobInv, NEW c \in Conn,
         LoginStep(c) \/ LoopStep(c) \/ ClientStep(c)
  PROVE  SessionInv' /\ MobInv'
<1> USE RegistryAssumption, ServerAssumption
<1>1. RegistryInv
  BY TypeInvSplit
<1>2. CASE CreatePlayer(c)
  <2>1. PICK l \in LoginNames(LoginOf[c]) : registerPlayer(c, l, version[c])
    BY <1>2 DEF CreatePlayer
  <2>2. l \in Login
    BY <2>1 DEF LoginNames
  <2> QED BY <1>1, <2>1, <2>2, RegisterSession
<1>3. CASE PlayerCreated(c)
  BY <1>1, <1>3, AdmitSession DEF PlayerCreated
<1>4. CASE RemovePlayer(c)
  <2>1. removePlayer(id[c], None) /\ UNCHANGED <<stage, joining, world>> /\ stage # "admit"
    BY <1>4 DEF RemovePlayer, handler, history, Idle
  <2> QED BY <1>1, <2>1, RemovePlayerSession
<1>5. CASE ~(CreatePlayer(c) \/ PlayerCreated(c) \/ RemovePlayer(c))
  <2>1. UNCHANGED <<members, world>>
    BY <1>5 DEF LoginStep, LoopStep, ClientStep, LoginFails, CheckVersion, Refused, RefusePlayer,
                Hello, HelloFails, WriteMessage, WriteFails, Drain, InboxClosed, Leave, AnswerHash,
                SendMessage, ReadFails, ClientDies, RecvMessage, Take, registry, history
  <2>2. UNCHANGED <<stage, joining>> \/ (stage # "admit" /\ stage' # "admit")
    <3>1. CASE Refused(c)
      BY <3>1 DEF Refused, RefusePlayer, AtRegistration, registry, handler
    <3>2. CASE ~Refused(c)
      BY <1>5, <3>2 DEF LoginStep, LoopStep, ClientStep, LoginFails, CheckVersion, Hello, HelloFails,
                WriteMessage, WriteFails, Drain, InboxClosed, Leave, AnswerHash, SendMessage,
                ReadFails, ClientDies, RecvMessage, Take, registry, handler
    <3> QED BY <3>1, <3>2
  <2> QED BY <2>1, <2>2, SameSession
<1> QED BY <1>2, <1>3, <1>4, <1>5

LEMMA SessionInit == Init => SessionInv /\ MobInv
<1> SUFFICES ASSUME Init PROVE SessionInv /\ MobInv
  OBVIOUS
<1>1. Members = {} /\ masterID = NoMaster /\ stage = "select" /\ \A l \in Login : players[l] = 0
  BY DEF Init, RegistryInit, Members
<1> QED BY <1>1 DEF SessionInv, MobInv, MasterIsMember, ClientsHaveMob

LEMMA SessionStep ==
  TypeInv /\ GameInv /\ PlacesInv /\ Lasting' /\ SessionInv /\ MobInv /\ [Next]_vars
    => SessionInv' /\ MobInv'
<1> SUFFICES ASSUME TypeInv, GameInv, PlacesInv, Lasting', SessionInv, MobInv, [Next]_vars
             PROVE  SessionInv' /\ MobInv'
  OBVIOUS
<1>1. CASE UNCHANGED vars
  <2>1. UNCHANGED <<members, world>> /\ UNCHANGED <<stage, joining>>
    BY <1>1 DEF vars, registry, handler, history
  <2> QED BY <2>1, SameSession
<1>2. CASE RegistryStep
  BY <1>2, RegistryStepSession, TypeInvSplit
<1>3. ASSUME NEW c \in Conn, LoginStep(c) \/ LoopStep(c) \/ ClientStep(c)
      PROVE  SessionInv' /\ MobInv'
  BY <1>3, ConnectionStepSession
<1> QED BY <1>1, <1>2, <1>3 DEF Next

\* A removal is a client that leaves, with an election if it was the master.
LEMMA RemovalRefines ==
  ASSUME RegistryInv, GameInv, NEW i, NEW r, removePlayer(i, r)
  PROVE  [Session!Next]_<<Members, masterID>>
<1> USE RegistryAssumption
<1>1. CASE i \notin Members
  BY <1>1 DEF removePlayer, members, Members
<1>2. CASE i \in Members
  <2>1. Members' = Members \ {i} /\ masterID' \in Successors(i)
    BY <1>2, RemovePlayerBooks DEF removePlayer, GameInv
  <2>2. \/ masterID # i /\ masterID' = masterID
        \/ masterID = i /\ masterID' \in Members'
        \/ masterID = i /\ Members' = {} /\ masterID' = NoMaster
    <3>1. CASE masterID # i
      BY <2>1, <3>1 DEF Successors
    <3>2. CASE masterID = i /\ Members \ {i} # {}
      BY <2>1, <3>2 DEF Successors
    <3>3. CASE masterID = i /\ Members \ {i} = {}
      BY <2>1, <3>3 DEF Successors
    <3> QED BY <3>1, <3>2, <3>3
  <2>3. i \in ID
    BY <1>2 DEF Members
  <2>4. Session!Leave(i)
    BY <1>2, <2>1, <2>2 DEF Session!Leave
  <2> QED BY <2>3, <2>4 DEF Session!Next
<1> QED BY <1>1, <1>2

\* Every step of the registry and its connections is one of GameSession or leaves
\* members and master alone.
LEMMA StepRefines ==
  ASSUME TypeInv, GameInv, PlacesInv, SessionInv, [Next]_vars
  PROVE  [Session!Next]_<<Members, masterID>>
<1> USE RegistryAssumption
<1>1. RegistryInv
  BY TypeInvSplit
<1>2. CASE \E i, r : removePlayer(i, r)
  BY <1>1, <1>2, RemovalRefines
<1>3. CASE AdmitClient
  <2> DEFINE i == joining.id
  <2>1. i \in ID /\ joining.conn \in Conn /\ joining.conn # None /\ i \notin Members
    BY <1>1, <1>3 DEF AdmitClient, RegistryInv, Joining, SessionInv
  <2>2. CASE masterID = NoMaster
    <3>1. masterID' = i /\ clients' = [clients EXCEPT ![i] = joining.conn]
      BY <1>3, <2>2 DEF AdmitClient
    <3>2. Members = {} /\ Members' = {i}
      BY <1>1, <2>1, <2>2, <3>1 DEF GameInv, Members, RegistryInv, RegistryTypeOK
    <3> QED BY <2>1, <3>1, <3>2 DEF Session!Next, Session!Start
  <2>3. CASE masterID # NoMaster
    <3>1. clients' = [clients EXCEPT ![i] = None] /\ UNCHANGED masterID
      BY <1>3, <2>3 DEF AdmitClient
    <3> QED BY <1>1, <2>1, <3>1 DEF Members, RegistryInv, RegistryTypeOK
  <2> QED BY <2>2, <2>3
<1>4. CASE RunCallback
  <2> DEFINE cb == Head(nextTickCallbacks)
  <2>1. nextTickCallbacks \in Seq(Callback) /\ nextTickCallbacks # <<>> /\ UNCHANGED masterID
    BY <1>1, <1>4 DEF RunCallback, RegistryInv, RegistryTypeOK
  <2>2. cb \in Callback
    BY <2>1
  <2>3. CASE JoinMaster(cb)
    <3>1. Members # {} /\ clients' = [clients EXCEPT ![cb.id] = cb.inbox]
      BY <2>3 DEF JoinMaster
    <3>2. cb.id \in ID /\ Members' = Members \cup {cb.id}
      BY <1>1, <2>2, <3>1 DEF Callback, Members, RegistryInv, RegistryTypeOK
    <3> QED BY <2>1, <3>1, <3>2 DEF Session!Next, Session!Join
  <2>4. CASE DropMaster(cb) \/ TurnAway(cb)
    BY <2>1, <2>4 DEF DropMaster, TurnAway, Members
  <2> QED BY <1>4, <2>3, <2>4 DEF RunCallback
<1>5. CASE UNCHANGED <<clients, masterID>>
  BY <1>5 DEF Members
<1>6. \/ \E i, r : removePlayer(i, r)
      \/ AdmitClient \/ RunCallback \/ UNCHANGED <<clients, masterID>>
  <2>1. CASE UNCHANGED vars
    BY <2>1 DEF vars, registry, members
  <2>2. CASE RegistryStep
    BY <2>2 DEF RegistryStep, DropClient, ReenterPlayer, handleNewTick, checkForHashStart,
        checkHashes, maybeSendConnCounter, TickDone, handleHash, handleRestart,
        handleForcedNextTick, handlePing, handleGameMessage, members
  <2>3. ASSUME NEW c \in Conn, LoginStep(c) \/ LoopStep(c) \/ ClientStep(c)
        PROVE  \/ \E i, r : removePlayer(i, r)
               \/ AdmitClient \/ UNCHANGED <<clients, masterID>>
    BY <2>3 DEF LoginStep, LoopStep, ClientStep, LoginFails, CheckVersion, Refused, RefusePlayer,
        CreatePlayer, registerPlayer, PlayerCreated, Hello, HelloFails, WriteMessage, WriteFails,
        Drain, InboxClosed, Leave, RemovePlayer, AnswerHash, SendMessage, ReadFails, ClientDies,
        RecvMessage, Take, registry, members
  <2> QED BY <2>1, <2>2, <2>3 DEF Next
<1> QED BY <1>2, <1>3, <1>4, <1>5, <1>6

SoundSession == TypeInv /\ GameInv /\ PlacesInv /\ SessionInv /\ MobInv

LEMMA SoundSessions == Spec /\ []Patient /\ []Lasting => []SoundSession
<1>1. Init => SoundSession
  BY TypeInvInit, GameInit, PlacesInit, SessionInit DEF SoundSession
<1>2. SoundSession /\ Patient /\ Patient' /\ Lasting' /\ [Next]_vars => SoundSession'
  BY TypeInvStep, GameStep, PlacesStep, SessionStep DEF SoundSession
<1> QED BY <1>1, <1>2, PTL DEF Spec

\* Members and master go through a GameSession: the registry implements it, as
\* long as nobody logs in again while a join of theirs waits and no announcement
\* ends the game.
THEOREM RegistryImplementsSession == Spec /\ []Patient /\ []Lasting => SessionRefined
<1>1. Init => Session!Init
  <2>1. Init => Members = {} /\ masterID = NoMaster
    BY DEF Init, RegistryInit, Members
  <2> QED BY <2>1 DEF Session!Init
<1>2. SoundSession /\ [Next]_vars => [Session!Next]_<<Members, masterID>>
  BY StepRefines DEF SoundSession
<1> QED BY <1>1, <1>2, SoundSessions, PTL DEF Spec, SessionRefined, Session!Spec

\* Under the same two conditions every client has a mob in the world of its game.
THEOREM EveryClientHasMob == Spec /\ []Patient /\ []Lasting => []ClientsHaveMob
<1>1. SoundSession => ClientsHaveMob
  BY DEF SoundSession, MobInv
<1> QED BY <1>1, SoundSessions, PTL

\* What run dangling refutes holds but for these two conditions: the master is one
\* of the clients, so that there is somebody to ask for a map.
THEOREM MasterStays == Spec /\ []Patient /\ []Lasting => []MasterIsMember
<1>1. SoundSession => MasterIsMember
  BY DEF SoundSession, SessionInv
<1> QED BY <1>1, SoundSessions, PTL

-----------------------------------------------------------------------------
(* One history.  A connection that is no client yet has missed nothing and   *)
(* has been sent nothing, which is why the map it gets later is current.     *)

Quiet(c) == Unregistered(c) \/ c \in Waiting

HistoryInv ==
  /\ SameHistory
  /\ \A c \in Conn : Quiet(c) => gap[c] = 0 /\ queue[c] = <<>>

\* A quiet connection has no inbox among the clients.
LEMMA QuietInbox ==
  ASSUME OwnershipInv, NEW c \in Conn, Quiet(c)
  PROVE  c \notin Inboxes
BY DEF OwnershipInv, InboxOwnership, Quiet, Given

\* Sending reaches clients only.
LEMMA SendToClients ==
  ASSUME RegistryInv, NEW S, NEW m, SendTo(S, m), NEW c \in Conn, c \notin Inboxes
  PROVE  queue'[c] = queue[c]
BY DEF SendTo, Reachable, Inboxes, RegistryInv, RegistryTypeOK

LEMMA RemovePlayerQuiet ==
  ASSUME RegistryInv, NEW i, NEW r, removePlayer(i, r), NEW c \in Conn, c \notin Inboxes
  PROVE  queue'[c] = queue[c]
BY SendToClients DEF removePlayer

\* Removal only takes members away.
LEMMA RemovePlayerMembers ==
  ASSUME RegistryInv, NEW i, NEW r, removePlayer(i, r)
  PROVE  /\ Members' = Members \ {i}
         /\ \A j \in Members' : clients'[j] = clients[j]
BY DEF removePlayer, members, Members, RegistryInv, RegistryTypeOK

\* A broadcast from a handler that owes no removal.
LEMMA SendAllHistory ==
  ASSUME RegistryInv, OwnershipInv, HistoryInv, NEW m, sendAll(m), drops = {}, UNCHANGED clients
  PROVE  /\ SameHistory'
         /\ \A c \in Conn : Quiet(c) => gap'[c] = 0 /\ queue'[c] = <<>>
<1>1. Members' = Members
  BY DEF Members
<1>2. SameHistory'
  <2>1. SUFFICES ASSUME NEW i \in Members PROVE gap'[clients[i]] = 0 \/ i \in {d.id : d \in drops'}
    BY <1>1 DEF SameHistory
  <2>2. clients[i] \in Conn /\ gap[clients[i]] = 0
    BY <2>1 DEF HistoryInv, SameHistory, Members, RegistryInv, RegistryTypeOK
  <2>3. CASE HasRoom(clients[i])
    BY <2>2, <2>3 DEF sendAll
  <2>4. CASE ~HasRoom(clients[i])
    <3>1. [id |-> i, reason |-> "TooSlow"] \in drops'
      BY <2>4 DEF sendAll
    <3> QED BY <3>1
  <2> QED BY <2>3, <2>4
<1>3. ASSUME NEW c \in Conn, Quiet(c) PROVE gap'[c] = 0 /\ queue'[c] = <<>>
  <2>1. c \notin Inboxes /\ gap[c] = 0 /\ queue[c] = <<>>
    BY <1>3, QuietInbox DEF HistoryInv
  <2> QED BY <2>1, SendToClients DEF sendAll
<1> QED BY <1>2, <1>3

\* A step that touches neither members nor removals, nor quiet connections.
LEMMA SameHistoryKept ==
  ASSUME HistoryInv, UNCHANGED <<clients, gap>>, drops \subseteq drops'
  PROVE  SameHistory'
BY DEF HistoryInv, SameHistory, Members

\* The joins that wait, after the first is done and after one more comes.
LEMMA WaitingTail ==
  ASSUME nextTickCallbacks \in Seq(Callback), nextTickCallbacks # <<>>,
         nextTickCallbacks' = Tail(nextTickCallbacks)
  PROVE  Waiting' \subseteq Waiting
<1>1. \A k \in DOMAIN nextTickCallbacks' :
        /\ k + 1 \in DOMAIN nextTickCallbacks
        /\ nextTickCallbacks'[k] = nextTickCallbacks[k + 1]
  OBVIOUS
<1> QED BY <1>1 DEF Waiting

LEMMA WaitingAppend ==
  ASSUME nextTickCallbacks \in Seq(Callback), NEW e \in Callback,
         nextTickCallbacks' = Append(nextTickCallbacks, e)
  PROVE  Waiting' \subseteq Waiting \cup {e.inbox}
<1>1. \A k \in DOMAIN nextTickCallbacks' :
        \/ k \in DOMAIN nextTickCallbacks /\ nextTickCallbacks'[k] = nextTickCallbacks[k]
        \/ nextTickCallbacks'[k] = e
  OBVIOUS
<1> QED BY <1>1 DEF Waiting

\* Steps of the registry between two requests.
LEMMA RegistryStepHistory ==
  ASSUME TypeInv, OwnershipInv, GameInv, HistoryInv, RegistryStep
  PROVE  HistoryInv'
<1> USE RegistryAssumption
<1>1. RegistryInv /\ UNCHANGED pc
  BY TypeInvSplit DEF RegistryStep, connections
<1>2. ASSUME UNCHANGED nextTickCallbacks, SameHistory',
             \A c \in Conn : Quiet(c) => gap'[c] = 0 /\ queue'[c] = <<>>
      PROVE  HistoryInv'
  BY <1>1, <1>2 DEF HistoryInv, Quiet, Unregistered, Waiting
<1>3. ASSUME NEW S, NEW m, SendTo(S, m), UNCHANGED <<gap, nextTickCallbacks, clients>>, drops = {}
      PROVE  HistoryInv'
  <2>1. \A c \in Conn : Quiet(c) => gap'[c] = 0 /\ queue'[c] = <<>>
    BY <1>1, <1>3, QuietInbox, SendToClients DEF HistoryInv
  <2> QED BY <1>2, <1>3, <2>1, SameHistoryKept
<1>4. ASSUME NEW m, sendAll(m), UNCHANGED <<clients, nextTickCallbacks>>, drops = {}
      PROVE  HistoryInv'
  BY <1>1, <1>2, <1>4, SendAllHistory
<1>5. ASSUME UNCHANGED <<clients, nextTickCallbacks, queue, gap>>, drops \subseteq drops'
      PROVE  HistoryInv'
  BY <1>2, <1>5, SameHistoryKept DEF HistoryInv
<1>6. CASE DropClient
  <2>1. PICK d \in drops :
          /\ drops' = drops \ {d}
          /\ removePlayer(d.id, d.reason)
          /\ UNCHANGED <<nextTickCallbacks, history>>
    BY <1>6 DEF DropClient
  <2>2. SameHistory'
    BY <1>1, <2>1, RemovePlayerMembers DEF HistoryInv, SameHistory, history
  <2>3. \A c \in Conn : Quiet(c) => gap'[c] = 0 /\ queue'[c] = <<>>
    BY <1>1, <2>1, QuietInbox, RemovePlayerQuiet DEF HistoryInv, history
  <2> QED BY <1>2, <2>1, <2>2, <2>3
<1>7. CASE ReenterPlayer
  <2>1. removePlayer(joining.id, None) /\ UNCHANGED <<nextTickCallbacks, history, drops>>
    BY <1>7 DEF ReenterPlayer
  <2>2. SameHistory'
    BY <1>1, <2>1, RemovePlayerMembers DEF HistoryInv, SameHistory, history
  <2>3. \A c \in Conn : Quiet(c) => gap'[c] = 0 /\ queue'[c] = <<>>
    BY <1>1, <2>1, QuietInbox, RemovePlayerQuiet DEF HistoryInv, history
  <2> QED BY <1>2, <2>1, <2>2, <2>3
<1>8. CASE handleNewTick \/ maybeSendConnCounter \/ handleGameMessage
  BY <1>4, <1>5, <1>8 DEF handleNewTick, sendNewTick, maybeSendConnCounter,
                   handleGameMessage, Idle, Pending, members, history
<1>9. CASE checkForHashStart
  BY <1>4, <1>5, <1>9 DEF checkForHashStart, members, history
<1>10. CASE checkHashes
  BY <1>3, <1>5, <1>10 DEF checkHashes, checkHashesOne, members, history
<1>11. CASE handleHash \/ TickDone
  BY <1>5, <1>11 DEF handleHash, TickDone, members, channels, handler, history
<1>12. CASE handleRestart
  BY <1>5, <1>12 DEF handleRestart, Pending, Idle, members, history
<1>13. CASE handlePing
  BY <1>3, <1>13 DEF handlePing, Pending, Idle, members, handler, history
<1>14. CASE handleForcedNextTick
  BY <1>4, <1>5, <1>14 DEF handleForcedNextTick, sendNewTick, Pending, Idle, members, history
<1>15. CASE RunCallback
  <2> DEFINE cb == Head(nextTickCallbacks)
  <2>0. nextTickCallbacks \in Seq(Callback) /\ nextTickCallbacks # <<>>
    BY <1>1, <1>15 DEF RunCallback, RegistryInv, RegistryTypeOK
  <2>1. InboxOwnership' /\ InboxOwnership
    BY <1>1, <1>15, CallbackOwnership DEF OwnershipInv
  <2>2. cb \in Callback /\ cb.inbox \in Waiting /\ cb.inbox \in Conn /\ cb.id \in ID
    <3>1. cb \in Callback /\ cb = nextTickCallbacks[1] /\ 1 \in DOMAIN nextTickCallbacks
      BY <2>0
    <3> QED BY <3>1 DEF Callback, Waiting
  <2>3. drops = {}
    BY <1>15 DEF RunCallback
  <2>4. nextTickCallbacks' = Tail(nextTickCallbacks) => Waiting' \subseteq Waiting
    BY <2>0, WaitingTail
  <2>5. CASE JoinMaster(cb)
    <3>1. /\ masterID \in Members
          /\ SendTo({masterID}, Msg("MapUpload", cb.inbox))
          /\ clients' = [clients EXCEPT ![cb.id] = cb.inbox]
          /\ gap' = [gap EXCEPT ![cb.inbox] = gap[clients[masterID]] + Len(queue[cb.inbox])]
          /\ UNCHANGED drops
      BY <2>5 DEF JoinMaster, Reachable
    <3>2. Quiet(cb.inbox) /\ queue[cb.inbox] = <<>> /\ gap[cb.inbox] = 0
      BY <2>2 DEF Quiet, HistoryInv
    <3>3. gap[clients[masterID]] = 0
      BY <2>3, <3>1 DEF HistoryInv, SameHistory
    <3>4. gap' = gap
      BY <1>1, <2>2, <3>1, <3>2, <3>3 DEF RegistryInv, RegistryTypeOK
    <3>5. SameHistory'
      BY <1>1, <2>2, <3>1, <3>2, <3>4 DEF HistoryInv, SameHistory, Members, RegistryInv, RegistryTypeOK
    <3>6. \A c \in Conn : Quiet(c) => gap'[c] = 0 /\ queue'[c] = <<>>
      BY <1>1, <3>1, <3>4, QuietInbox, SendToClients DEF HistoryInv
    <3>7. \A c \in Conn : Quiet(c)' => Quiet(c)
      BY <1>1, <2>4, <2>5 DEF JoinMaster, Quiet, Unregistered
    <3> QED BY <3>5, <3>6, <3>7 DEF HistoryInv
  <2>6. CASE DropMaster(cb)
    BY <1>5, <2>3, <2>6 DEF DropMaster
  <2>7. CASE TurnAway(cb)
    <3>1. UNCHANGED <<clients, gap, queue, drops>> /\ Waiting' \subseteq Waiting
      BY <2>4, <2>7 DEF TurnAway
    <3> QED BY <1>1, <3>1, SameHistoryKept DEF HistoryInv, Quiet, Unregistered
  <2> QED BY <1>15, <2>5, <2>6, <2>7 DEF RunCallback
<1> QED
  BY <1>6, <1>7, <1>8, <1>9, <1>10, <1>11, <1>12, <1>13, <1>14, <1>15 DEF RegistryStep

\* Admission makes a quiet connection a client or lets it wait.
LEMMA AdmitHistory ==
  ASSUME TypeInv, OwnershipInv, HistoryInv, NEW c \in Conn, PlayerCreated(c)
  PROVE  HistoryInv'
<1>1. RegistryInv /\ AdmitClient /\ joining.conn = c /\ Unregistered(c)
  BY TypeInvSplit DEF PlayerCreated, Goto, Unregistered
<1>2. gap[c] = 0 /\ UNCHANGED <<gap, queue, drops>>
  BY <1>1 DEF HistoryInv, Quiet, AdmitClient
<1>3. joining.id \in ID
  BY <1>1 DEF AdmitClient, RegistryInv, Joining
<1>4. SameHistory'
  BY <1>1, <1>2, <1>3
  DEF AdmitClient, HistoryInv, SameHistory, Members, RegistryInv, RegistryTypeOK
<1>5. nextTickCallbacks' = nextTickCallbacks
      \/ \E e \in Callback : e.inbox = c /\ nextTickCallbacks' = Append(nextTickCallbacks, e)
  <2>1. [login |-> joining.login, id |-> joining.id, inbox |-> joining.conn] \in Callback
    BY <1>1 DEF AdmitClient, RegistryInv, Joining, Callback
  <2> QED BY <1>1, <2>1 DEF AdmitClient
<1>6. Waiting' \subseteq Waiting \cup {c}
  <2>1. nextTickCallbacks \in Seq(Callback)
    BY <1>1 DEF RegistryInv, RegistryTypeOK
  <2> QED BY <1>5, <2>1, WaitingAppend DEF Waiting
<1>7. \A d \in Conn : Quiet(d)' => Quiet(d)
  <2>1. pc' = [pc EXCEPT ![c] = "hello"] /\ pc = [d \in Conn |-> pc[d]]
    BY TypeInvSplit DEF PlayerCreated, Goto, ConnectionInv
  <2> QED BY <1>1, <1>6, <2>1 DEF Quiet, Unregistered
<1> QED BY <1>2, <1>4, <1>7 DEF HistoryInv

LEMMA ConnectionStepHistory ==
  ASSUME TypeInv, OwnershipInv, HistoryInv, NEW c \in Conn,
         LoginStep(c) \/ LoopStep(c) \/ ClientStep(c)
  PROVE  HistoryInv'
<1> USE RegistryAssumption, ServerAssumption
<1>0. RegistryInv /\ ConnectionInv
  BY TypeInvSplit
<1>1. CASE PlayerCreated(c)
  BY <1>1, AdmitHistory
<1> SUFFICES ASSUME ~PlayerCreated(c) PROVE HistoryInv'
  BY <1>1
<1>2. \A d \in Conn : Unregistered(d)' => Unregistered(d)
  <2>1. pc = [d \in Conn |-> pc[d]]
    BY <1>0 DEF ConnectionInv
  <2>2. \/ UNCHANGED pc
        \/ \E p \in {"hello", "gone", "loop", "leave", "drain"} : pc' = [pc EXCEPT ![c] = p]
        \/ Unregistered(c) /\ \E p \in {"create", "created"} : pc' = [pc EXCEPT ![c] = p]
    <3>1. CASE LoginStep(c)
      BY <3>1 DEF LoginStep, LoginFails, CheckVersion, Refused, CreatePlayer, Hello,
                  HelloFails, Goto, Unregistered
    <3>2. CASE LoopStep(c)
      <4>1. CASE RemovePlayer(c)
        <5>1. pc' = pc \/ pc' = [pc EXCEPT ![c] = "gone"]
          BY <2>1, <4>1 DEF RemovePlayer
        <5> QED BY <5>1
      <4> QED
        BY <3>2, <4>1 DEF LoopStep, WriteMessage, WriteFails, Drain, InboxClosed, Leave,
                          connections, Goto
    <3>3. CASE ClientStep(c)
      BY <3>3 DEF ClientStep, AnswerHash, SendMessage, ReadFails, ClientDies
    <3> QED BY <3>1, <3>2, <3>3
  <2> QED BY <2>1, <2>2 DEF Unregistered
<1>3. UNCHANGED nextTickCallbacks
  BY DEF LoginStep, LoopStep, ClientStep, LoginFails, CheckVersion, Refused, CreatePlayer, Hello,
      HelloFails, WriteMessage, WriteFails, Drain, InboxClosed, Leave, RemovePlayer,
      AnswerHash, SendMessage, ReadFails, ClientDies, RefusePlayer, registerPlayer,
      RecvMessage, Take, registry, channels
<1>4. \A d \in Conn : Quiet(d)' => Quiet(d)
  BY <1>2, <1>3 DEF Quiet, Waiting
<1>5. ASSUME SameHistory', \A d \in Conn : Quiet(d) => gap'[d] = 0 /\ queue'[d] = <<>>
      PROVE  HistoryInv'
  BY <1>4, <1>5 DEF HistoryInv
<1>6. CASE CreatePlayer(c)
  <2>1. PICK l \in LoginNames(LoginOf[c]) : registerPlayer(c, l, version[c])
    BY <1>6 DEF CreatePlayer
  <2>2. UNCHANGED clients /\ drops = {}
    BY <2>1 DEF registerPlayer, AtRegistration
  <2>3. sendAll(Msg("NewClient", nextID)) \/ UNCHANGED <<queue, drops, history>>
    BY <2>1 DEF registerPlayer
  <2> QED BY <1>0, <1>5, <2>2, <2>3, SendAllHistory, SameHistoryKept DEF HistoryInv, history
<1>7. CASE RemovePlayer(c)
  <2>1. removePlayer(id[c], None) /\ UNCHANGED <<gap, drops>>
    BY <1>7 DEF RemovePlayer, handler, history
  <2>2. SameHistory'
    BY <1>0, <2>1, RemovePlayerMembers DEF HistoryInv, SameHistory
  <2>3. \A d \in Conn : Quiet(d) => gap'[d] = 0 /\ queue'[d] = <<>>
    BY <1>0, <2>1, QuietInbox, RemovePlayerQuiet DEF HistoryInv
  <2> QED BY <1>5, <2>2, <2>3
<1>8. CASE Take(c)
  <2>1. UNCHANGED <<clients, gap, drops>>
    BY <1>8 DEF Take, members, handler, history
  <2>2. \A d \in Conn : Quiet(d) => queue'[d] = <<>>
    BY <1>0, <1>8 DEF Take, HistoryInv, RegistryInv, RegistryTypeOK
  <2> QED BY <1>5, <2>1, <2>2, SameHistoryKept DEF HistoryInv
<1>9. CASE ~(CreatePlayer(c) \/ RemovePlayer(c) \/ Take(c))
  <2>1. UNCHANGED <<clients, gap, drops, queue>>
    BY <1>9
    DEF LoginStep, LoopStep, ClientStep, LoginFails, CheckVersion, Refused, Hello, HelloFails,
        WriteMessage, WriteFails, Drain, InboxClosed, Leave, AnswerHash, SendMessage, ReadFails,
        ClientDies, RefusePlayer, RecvMessage, registry, channels, members, handler, history
  <2> QED BY <1>5, <2>1, SameHistoryKept DEF HistoryInv
<1> QED BY <1>6, <1>7, <1>8, <1>9

LEMMA HistoryInit == Init => HistoryInv
BY DEF Init, RegistryInit, HistoryInv, SameHistory, Members

LEMMA HistoryStep == TypeInv /\ OwnershipInv /\ GameInv /\ HistoryInv /\ [Next]_vars => HistoryInv'
<1> SUFFICES ASSUME TypeInv, OwnershipInv, GameInv, HistoryInv, [Next]_vars PROVE HistoryInv'
  OBVIOUS
<1>1. CASE UNCHANGED vars
  BY <1>1 DEF vars, registry, members, channels, handler, history, connections, HistoryInv,
              SameHistory, Members, Quiet, Unregistered, Waiting
<1>2. CASE RegistryStep
  BY <1>2, RegistryStepHistory
<1>3. ASSUME NEW c \in Conn, LoginStep(c) \/ LoopStep(c) \/ ClientStep(c)
      PROVE  HistoryInv'
  BY <1>3, ConnectionStepHistory
<1> QED BY <1>1, <1>2, <1>3 DEF Next

\* The map a joiner gets and the messages it gets afterwards are what every
\* other client got, unless it is about to be dropped.
THEOREM OneHistory == Spec => []SameHistory
<1>1. HistoryInv => SameHistory
  BY DEF HistoryInv
<1> QED
  BY <1>1, TypeInvInit, TypeInvStep, OwnershipInit, OwnershipStep, GameInit, GameStep,
     HistoryInit, HistoryStep, PTL DEF Spec

-----------------------------------------------------------------------------
(* Requests about the world.  While a tick is handled every client's inbox   *)
(* is empty or ends with the tick or with another request, so that one more  *)
(* may follow; a client for which this fails is about to be removed.         *)

System == {"NewTick", "RequestHash", "MapUpload", "CurrentConnections"}
Request == {"RequestHash", "MapUpload"}

Ordered(q) == \A k \in 1..(Len(q) - 1) : q[k + 1].kind \in Request => q[k].kind \in System
Ticked(q) == q = <<>> \/ q[Len(q)].kind \in System

OrderInv ==
  /\ \A c \in Conn : Ordered(queue[c])
  /\ stage \in {"hashStart", "checkHashes", "callbacks"} =>
       \A i \in Members : Ticked(queue[clients[i]]) \/ i \in {d.id : d \in drops}

\* Appending a request needs a ticked inbox, appending anything else nothing.
LEMMA AppendOrdered ==
  ASSUME NEW q \in Seq(Message), NEW m \in Message, Ordered(q),
         m.kind \in Request => Ticked(q)
  PROVE  Ordered(Append(q, m)) /\ (m.kind \in System => Ticked(Append(q, m)))
<1> DEFINE r == Append(q, m)
<1>1. /\ Len(q) \in Nat
      /\ Len(r) = Len(q) + 1
      /\ r[Len(r)] = m
      /\ \A k \in 1..Len(q) : r[k] = q[k]
      /\ q # <<>> => Len(q) >= 1
      /\ Len(q) >= 1 => q # <<>>
  OBVIOUS
<1>2. ASSUME NEW k \in 1..(Len(r) - 1), r[k + 1].kind \in Request
      PROVE  r[k].kind \in System
  <2>1. CASE k = Len(q)
    BY <1>1, <1>2, <2>1 DEF Ticked
  <2>2. CASE k # Len(q)
    <3>1. k \in 1..(Len(q) - 1) /\ k + 1 \in 1..Len(q) /\ k \in 1..Len(q)
      BY <1>1, <1>2, <2>2
    <3>2. r[k + 1] = q[k + 1] /\ r[k] = q[k]
      BY <1>1, <3>1
    <3> QED BY <1>2, <3>1, <3>2 DEF Ordered
  <2> QED BY <2>1, <2>2
<1>3. m.kind \in System => Ticked(r)
  BY <1>1 DEF Ticked
<1> QED BY <1>2, <1>3 DEF Ordered

\* Taking a message keeps both.
LEMMA TailOrdered ==
  ASSUME NEW q \in Seq(Message), q # <<>>, Ordered(q)
  PROVE  Ordered(Tail(q)) /\ (Ticked(q) => Ticked(Tail(q)))
<1>1. /\ Len(q) \in Nat /\ Len(q) >= 1
      /\ Len(Tail(q)) = Len(q) - 1
      /\ \A k \in 1..Len(Tail(q)) : Tail(q)[k] = q[k + 1]
  OBVIOUS
<1>2. ASSUME NEW k \in 1..(Len(Tail(q)) - 1), Tail(q)[k + 1].kind \in Request
      PROVE  Tail(q)[k].kind \in System
  <2>1. k \in 1..Len(Tail(q)) /\ k + 1 \in 1..Len(Tail(q)) /\ k + 1 \in 1..(Len(q) - 1)
    BY <1>1, <1>2
  <2> QED BY <1>1, <1>2, <2>1 DEF Ordered
<1>3. ASSUME Ticked(q) PROVE Ticked(Tail(q))
  <2>1. CASE Len(q) = 1
    <3>1. Tail(q) \in Seq(Message) /\ Len(Tail(q)) = 0
      BY <1>1, <2>1
    <3>2. \A t \in Seq(Message) : Len(t) = 0 => t = <<>>
      OBVIOUS
    <3>3. Tail(q) = <<>>
      BY <3>1, <3>2
    <3> QED BY <3>3 DEF Ticked
  <2>2. CASE Len(q) # 1
    <3>1. Len(Tail(q)) \in 1..Len(Tail(q)) /\ Len(Tail(q)) + 1 = Len(q)
      BY <1>1, <2>2
    <3>2. Tail(q)[Len(Tail(q))] = q[Len(q)]
      BY <1>1, <3>1
    <3> QED BY <1>3, <3>2 DEF Ticked
  <2> QED BY <2>1, <2>2
<1> QED BY <1>2, <1>3 DEF Ordered

\* sendOne to several clients: a request only to ticked ones.
LEMMA SendToOrdered ==
  ASSUME RegistryInv, NEW S, NEW m \in Message, SendTo(S, m),
         \A c \in Conn : Ordered(queue[c]),
         m.kind \in Request => \A i \in S \cap Members : Ticked(queue[clients[i]])
  PROVE  /\ \A c \in Conn : Ordered(queue'[c])
         /\ m.kind \in System => \A c \in Conn : Ticked(queue[c]) => Ticked(queue'[c])
         /\ m.kind \in System => \A i \in S : Reachable(i) => Ticked(queue'[clients[i]])
<1> DEFINE to == {clients[i] : i \in {j \in S : Reachable(j)}}
<1>1. queue' = [c \in Conn |-> IF c \in to THEN Append(queue[c], m) ELSE queue[c]]
  BY DEF SendTo
<1>2. \A c \in to : c \in Conn /\ (m.kind \in Request => Ticked(queue[c]))
  BY DEF Reachable, Members, RegistryInv, RegistryTypeOK
<1>3. \A c \in Conn : queue[c] \in Seq(Message)
  BY DEF RegistryInv, RegistryTypeOK
<1>4. ASSUME NEW c \in to
      PROVE  Ordered(queue'[c]) /\ (m.kind \in System => Ticked(queue'[c]))
  <2>1. queue'[c] = Append(queue[c], m) /\ c \in Conn
    BY <1>1, <1>2
  <2> QED BY <1>2, <1>3, <2>1, AppendOrdered
<1>5. \A c \in Conn \ to : queue'[c] = queue[c]
  BY <1>1
<1> QED BY <1>4, <1>5

\* A removal leaves the other clients' inboxes alone.
LEMMA RemovePlayerOrdered ==
  ASSUME RegistryInv, InboxOwnership, NEW i, NEW r \in Reason \cup {None}, removePlayer(i, r),
         \A c \in Conn : Ordered(queue[c])
  PROVE  /\ \A c \in Conn : Ordered(queue'[c])
         /\ \A j \in Members' : queue'[clients'[j]] = queue[clients[j]]
<1>1. Members' = Members \ {i} /\ \A j \in Members' : clients'[j] = clients[j]
  BY RemovePlayerMembers
<1>2. CASE UNCHANGED queue
  BY <1>1, <1>2
<1>3. CASE SendTo({i}, Msg(r, 0)) /\ r # None /\ i \in Members
  <2>1. Msg(r, 0) \in Message /\ Msg(r, 0).kind \notin Request
    BY <1>3, MessageTypes DEF Msg, Request, Reason
  <2>2. \A c \in Conn : Ordered(queue'[c])
    BY <1>3, <2>1, SendToOrdered
  <2>3. \A j \in Members' : clients[j] # clients[i] /\ clients[j] \in Conn
    BY <1>1, <1>3 DEF InboxOwnership, Members, RegistryInv, RegistryTypeOK
  <2>4. \A j \in Members' : queue'[clients[j]] = queue[clients[j]]
    BY <1>3, <2>3 DEF SendTo
  <2> QED BY <1>1, <2>2, <2>4
<1> QED BY <1>2, <1>3 DEF removePlayer

\* A broadcast by a handler that owes no removal ticks every client it reaches.
LEMMA SendAllOrdered ==
  ASSUME RegistryInv, NEW m \in Message, sendAll(m), UNCHANGED clients,
         \A c \in Conn : Ordered(queue[c]),
         m.kind \in Request => \A i \in Members : Ticked(queue[clients[i]])
  PROVE  /\ \A c \in Conn : Ordered(queue'[c])
         /\ m.kind \in System =>
              \A i \in Members' : Ticked(queue'[clients'[i]]) \/ i \in {d.id : d \in drops'}
<1>1. SendTo(Members, m) /\ Members' = Members
  BY DEF sendAll, Members
<1>2. \A c \in Conn : Ordered(queue'[c])
  BY <1>1, SendToOrdered
<1>3. ASSUME m.kind \in System, NEW i \in Members
      PROVE  Ticked(queue'[clients[i]]) \/ i \in {d.id : d \in drops'}
  <2>1. CASE Reachable(i)
    BY <1>1, <1>3, <2>1, SendToOrdered
  <2>2. CASE ~Reachable(i)
    <3>1. [id |-> i, reason |-> "TooSlow"] \in drops'
      BY <2>2 DEF sendAll, Reachable
    <3> QED BY <3>1
  <2> QED BY <2>1, <2>2
<1> QED BY <1>1, <1>2, <1>3

\* A step that sends nothing, when no tick is being handled or none begins.
LEMMA SameOrder ==
  ASSUME OrderInv, UNCHANGED <<clients, queue>>,
         \/ stage' \notin {"hashStart", "checkHashes", "callbacks"}
         \/ stage' = stage /\ drops \subseteq drops'
         \/ stage \in {"hashStart", "checkHashes", "callbacks"} /\ drops \subseteq drops'
  PROVE  OrderInv'
BY DEF OrderInv, Members

LEMMA RegistryStepOrder ==
  ASSUME TypeInv, OwnershipInv, GameInv, HistoryInv, OrderInv, RegistryStep
  PROVE  OrderInv'
<1> USE RegistryAssumption
<1> DEFINE Tock == {"hashStart", "checkHashes", "callbacks"}
<1>1. RegistryInv /\ InboxOwnership /\ \A c \in Conn : Ordered(queue[c])
  BY TypeInvSplit DEF OwnershipInv, OrderInv
<1>2. ASSUME stage \in Tock, drops = {}
      PROVE  \A i \in Members : Ticked(queue[clients[i]])
  BY <1>2 DEF OrderInv
<1>3. ASSUME NEW m \in Message, sendAll(m), UNCHANGED clients,
             m.kind \in System \/ stage' \notin Tock,
             m.kind \in Request => stage \in Tock /\ drops = {}
      PROVE  OrderInv'
  <2>1. m.kind \in Request => \A i \in Members : Ticked(queue[clients[i]])
    BY <1>2, <1>3
  <2> QED BY <1>1, <1>3, <2>1, SendAllOrdered DEF OrderInv
<1>4. CASE DropClient
  <2>1. PICK d \in drops :
          /\ drops' = drops \ {d}
          /\ removePlayer(d.id, d.reason)
          /\ UNCHANGED stage
    BY <1>4 DEF DropClient
  <2>2. d.reason \in Reason
    BY <1>1, <2>1 DEF RegistryInv, RegistryTypeOK, Drop
  <2>3. /\ \A c \in Conn : Ordered(queue'[c])
        /\ \A j \in Members' : queue'[clients'[j]] = queue[clients[j]]
    BY <1>1, <2>1, <2>2, RemovePlayerOrdered
  <2>4. Members' = Members \ {d.id}
    BY <1>1, <2>1, RemovePlayerMembers
  <2>5. \A j \in Members' : j \in {e.id : e \in drops} => j \in {e.id : e \in drops'}
    BY <2>1, <2>4
  <2> QED BY <2>1, <2>3, <2>4, <2>5 DEF OrderInv
<1>5. CASE ReenterPlayer
  <2>1. removePlayer(joining.id, None) /\ stage' \notin Tock
    BY <1>5 DEF ReenterPlayer
  <2> QED BY <1>1, <2>1, RemovePlayerOrdered DEF OrderInv
<1>6. CASE handleNewTick
  <2>1. Msg("NewTick", 0) \in Message /\ Msg("NewTick", 0).kind \in System \ Request
    BY MessageTypes DEF Msg, System, Request
  <2> QED BY <1>3, <1>6, <2>1 DEF handleNewTick, sendNewTick, members
<1>7. CASE checkForHashStart
  <2>1. CASE StartsHashCheck /\ sendAll(Msg("RequestHash", currentTick))
    <3>1. Msg("RequestHash", currentTick) \in Message
          /\ Msg("RequestHash", currentTick).kind \in System
      BY <1>1, <1>7, MessageTypes DEF Msg, System, checkForHashStart, RegistryInv
    <3> QED BY <1>3, <1>7, <2>1, <3>1 DEF checkForHashStart, members
  <2>2. CASE UNCHANGED <<hashes, queue, drops, history>>
    BY <1>7, <2>2, SameOrder DEF checkForHashStart, members
  <2> QED BY <1>7, <2>1, <2>2 DEF checkForHashStart
<1>8. CASE checkHashes
  <2>1. PICK t \in scan :
          \/ UNCHANGED <<hashes, queue, drops>>
          \/ checkHashesOne(t)
    BY <1>8 DEF checkHashes
  <2>2. UNCHANGED <<clients, stage>> /\ stage \in Tock /\ drops = {}
    BY <1>8 DEF checkHashes, members
  <2>3. CASE UNCHANGED queue /\ UNCHANGED drops
    BY <2>2, <2>3, SameOrder
  <2>4. CASE checkHashesOne(t)
    <3> DEFINE S == IF Unsynced(t) = {} THEN {} ELSE Unsynced(t) \cup {masterID}
    <3>1. SendTo(S, Msg("MapUpload", None))
      BY <2>4 DEF checkHashesOne
    <3>2. Msg("MapUpload", None) \in Message /\ Msg("MapUpload", None).kind \in System
      BY MessageTypes DEF Msg, System
    <3>3. \A i \in Members : Ticked(queue[clients[i]]) /\ clients[i] \in Conn
      BY <1>1, <1>2, <2>2 DEF Members, RegistryInv, RegistryTypeOK
    <3>4. /\ \A c \in Conn : Ordered(queue'[c])
          /\ \A i \in Members : Ticked(queue'[clients[i]])
      BY <1>1, <3>1, <3>2, <3>3, SendToOrdered
    <3> QED BY <2>2, <3>4 DEF OrderInv, Members
  <2> QED BY <2>1, <2>3, <2>4
<1>9. CASE maybeSendConnCounter
  <2>1. Msg("CurrentConnections", 0) \in Message
        /\ Msg("CurrentConnections", 0).kind \in System \ Request
    BY MessageTypes DEF Msg, System, Request
  <2>2. CASE sendAll(Msg("CurrentConnections", 0))
    BY <1>3, <1>9, <2>1, <2>2 DEF maybeSendConnCounter, members
  <2>3. CASE UNCHANGED <<queue, drops, history>>
    BY <1>9, <2>3, SameOrder DEF maybeSendConnCounter, members
  <2> QED BY <1>9, <2>2, <2>3 DEF maybeSendConnCounter
<1>10. CASE RunCallback
  <2> DEFINE cb == Head(nextTickCallbacks)
  <2>1. UNCHANGED stage /\ stage \in Tock /\ drops = {} /\ nextTickCallbacks # <<>>
    BY <1>10 DEF RunCallback
  <2>2. cb \in Callback /\ cb = nextTickCallbacks[1] /\ 1 \in DOMAIN nextTickCallbacks
    <3>1. nextTickCallbacks \in Seq(Callback)
      BY <1>1 DEF RegistryInv, RegistryTypeOK
    <3> QED BY <2>1, <3>1
  <2>3. cb.inbox \in Conn /\ cb.inbox # None /\ cb.id \in ID /\ cb.inbox \in Waiting
    BY <2>2 DEF Callback, Waiting
  <2>4. CASE JoinMaster(cb)
    <3>1. /\ SendTo({masterID}, Msg("MapUpload", cb.inbox))
          /\ clients' = [clients EXCEPT ![cb.id] = cb.inbox]
      BY <2>4 DEF JoinMaster
    <3>2. Msg("MapUpload", cb.inbox) \in Message /\ Msg("MapUpload", cb.inbox).kind \in System
      BY <2>3, MessageTypes DEF Msg, System
    <3>3. \A i \in Members : Ticked(queue[clients[i]]) /\ clients[i] \in Conn
      BY <1>1, <1>2, <2>1 DEF Members, RegistryInv, RegistryTypeOK
    <3>4. /\ \A c \in Conn : Ordered(queue'[c])
          /\ \A i \in Members : Ticked(queue'[clients[i]])
      BY <1>1, <3>1, <3>2, <3>3, SendToOrdered
    <3>5. queue'[cb.inbox] = <<>>
      BY <1>1, <2>3, <3>1, SendToClients, QuietInbox DEF HistoryInv, Quiet
    <3>6. Ticked(queue'[cb.inbox])
      BY <3>5 DEF Ticked
    <3>7. \A i \in Members' : \/ i = cb.id /\ clients'[i] = cb.inbox
                              \/ i \in Members /\ clients'[i] = clients[i]
      BY <1>1, <2>3, <3>1 DEF Members, RegistryInv, RegistryTypeOK
    <3> QED BY <3>4, <3>6, <3>7 DEF OrderInv
  <2>5. CASE DropMaster(cb) \/ TurnAway(cb)
    BY <2>1, <2>5, SameOrder DEF DropMaster, TurnAway
  <2> QED BY <1>10, <2>4, <2>5 DEF RunCallback
<1>11. CASE TickDone
  BY <1>11, SameOrder DEF TickDone, members, channels
<1>12. CASE handleHash \/ handleRestart
  BY <1>12, SameOrder DEF handleHash, handleRestart, Pending, Idle, handler, members
<1>13. CASE handlePing
  <2>1. Msg("Ping", 0) \in Message /\ Msg("Ping", 0).kind \notin Request
    BY MessageTypes DEF Msg, Request
  <2>2. SendTo({Head(inbox).from}, Msg("Ping", 0)) /\ stage' \notin Tock
    BY <1>13 DEF handlePing, Pending, Idle, handler
  <2> QED BY <1>1, <2>1, <2>2, SendToOrdered DEF OrderInv
<1>14. CASE handleForcedNextTick
  <2>1. Msg("NewTick", 0) \in Message /\ Msg("NewTick", 0).kind \in System \ Request
    BY MessageTypes DEF Msg, System, Request
  <2>2. CASE sendNewTick
    BY <1>3, <1>14, <2>1, <2>2 DEF handleForcedNextTick, sendNewTick, members
  <2>3. CASE UNCHANGED <<currentTick, queue, drops, history, stage>>
    BY <1>14, <2>3, SameOrder DEF handleForcedNextTick, members
  <2> QED BY <1>14, <2>2, <2>3 DEF handleForcedNextTick
<1>15. CASE handleGameMessage
  <2>1. Head(inbox).from \in ID
    <3>1. inbox \in Seq(ClientMessage) /\ inbox # <<>>
      BY <1>1, <1>15 DEF handleGameMessage, Pending, RegistryInv, RegistryTypeOK
    <3>2. Head(inbox) \in ClientMessage
      BY <3>1
    <3> QED BY <3>2 DEF ClientMessage
  <2>2. Msg("Game", Head(inbox).from) \in Message /\ Msg("Game", Head(inbox).from).kind \notin Request
    BY <2>1, MessageTypes DEF Msg, Request
  <2>3. stage' \notin Tock
    BY <1>15 DEF handleGameMessage, Pending, Idle
  <2>4. CASE sendAll(Msg("Game", Head(inbox).from))
    BY <1>3, <1>15, <2>2, <2>3, <2>4 DEF handleGameMessage, members
  <2>5. CASE UNCHANGED <<queue, drops, history>>
    BY <1>15, <2>5, SameOrder DEF handleGameMessage, members
  <2> QED BY <1>15, <2>4, <2>5 DEF handleGameMessage
<1> QED
  BY <1>4, <1>5, <1>6, <1>7, <1>8, <1>9, <1>10, <1>11, <1>12, <1>13, <1>14, <1>15
  DEF RegistryStep

LEMMA ConnectionStepOrder ==
  ASSUME TypeInv, OwnershipInv, OrderInv, NEW c \in Conn,
         LoginStep(c) \/ LoopStep(c) \/ ClientStep(c)
  PROVE  OrderInv'
<1> USE RegistryAssumption, ServerAssumption
<1> DEFINE Tock == {"hashStart", "checkHashes", "callbacks"}
<1>1. RegistryInv /\ InboxOwnership /\ \A d \in Conn : Ordered(queue[d])
  BY TypeInvSplit DEF OwnershipInv, OrderInv
<1>2. CASE CreatePlayer(c)
  <2>1. PICK l \in LoginNames(LoginOf[c]) : registerPlayer(c, l, version[c])
    BY <1>2 DEF CreatePlayer
  <2>2. UNCHANGED clients /\ stage' \notin Tock
    BY <2>1 DEF registerPlayer
  <2>3. CASE sendAll(Msg("NewClient", nextID)) /\ nextID <= MaxID
    <3>1. nextID \in ID
      BY <1>1, <2>3 DEF RegistryInv, RegistryTypeOK, ID
    <3>2. Msg("NewClient", nextID) \in Message /\ Msg("NewClient", nextID).kind \notin Request
      BY <3>1, MessageTypes DEF Msg, Request
    <3> QED BY <1>1, <2>2, <2>3, <3>2, SendAllOrdered DEF OrderInv
  <2>4. CASE UNCHANGED <<nextID, players, queue, drops, history>>
    BY <2>2, <2>4, SameOrder
  <2> QED BY <2>1, <2>3, <2>4 DEF registerPlayer
<1>3. CASE PlayerCreated(c)
  <2>1. UNCHANGED queue /\ stage' \notin Tock
    BY <1>3 DEF PlayerCreated, AdmitClient
  <2> QED BY <2>1 DEF OrderInv
<1>4. CASE RemovePlayer(c)
  <2>1. removePlayer(id[c], None) /\ stage' \notin Tock
    BY <1>4 DEF RemovePlayer, Idle, handler
  <2> QED BY <1>1, <2>1, RemovePlayerOrdered DEF OrderInv
<1>5. CASE Take(c)
  <2>1. /\ UNCHANGED <<clients, stage, drops>>
        /\ queue[c] \in Seq(Message) /\ queue[c] # <<>>
        /\ queue' = [queue EXCEPT ![c] = Tail(queue[c])]
    BY <1>1, <1>5 DEF Take, members, handler, RegistryInv, RegistryTypeOK
  <2>2. \A d \in Conn : queue'[d] = IF d = c THEN Tail(queue[c]) ELSE queue[d]
    BY <1>1, <2>1 DEF RegistryInv, RegistryTypeOK
  <2>3. \A d \in Conn : Ordered(queue'[d]) /\ (Ticked(queue[d]) => Ticked(queue'[d]))
    BY <1>1, <2>1, <2>2, TailOrdered
  <2>4. Members' = Members /\ \A i \in Members : clients[i] \in Conn
    BY <1>1, <2>1 DEF Members, RegistryInv, RegistryTypeOK
  <2> QED BY <2>1, <2>3, <2>4 DEF OrderInv
<1>6. CASE ~(CreatePlayer(c) \/ PlayerCreated(c) \/ RemovePlayer(c) \/ Take(c))
  <2>1. UNCHANGED <<clients, queue>>
    BY <1>6
    DEF LoginStep, LoopStep, ClientStep, LoginFails, CheckVersion, Refused, Hello, HelloFails,
        WriteMessage, WriteFails, Drain, InboxClosed, Leave, AnswerHash, SendMessage, ReadFails,
        ClientDies, RefusePlayer, RecvMessage, registry, channels, members
  <2>2. UNCHANGED <<stage, drops>> \/ stage' \notin Tock
    BY <1>6
    DEF LoginStep, LoopStep, ClientStep, LoginFails, CheckVersion, Refused, Hello, HelloFails,
        WriteMessage, WriteFails, Drain, InboxClosed, Leave, AnswerHash, SendMessage, ReadFails,
        ClientDies, RefusePlayer, RecvMessage, registry, handler
  <2> QED BY <2>1, <2>2, SameOrder
<1> QED BY <1>2, <1>3, <1>4, <1>5, <1>6

LEMMA OrderInit == Init => OrderInv
<1> SUFFICES ASSUME Init PROVE OrderInv
  OBVIOUS
<1>1. \A c \in Conn : queue[c] = <<>>
  BY DEF Init, RegistryInit
<1>2. Ordered(<<>>)
  BY DEF Ordered
<1> QED BY <1>1, <1>2 DEF Init, RegistryInit, OrderInv

LEMMA OrderStep ==
  TypeInv /\ OwnershipInv /\ GameInv /\ HistoryInv /\ OrderInv /\ [Next]_vars => OrderInv'
<1> SUFFICES ASSUME TypeInv, OwnershipInv, GameInv, HistoryInv, OrderInv, [Next]_vars
             PROVE  OrderInv'
  OBVIOUS
<1>1. CASE UNCHANGED vars
  BY <1>1, SameOrder DEF vars, registry, members, channels, handler
<1>2. CASE RegistryStep
  BY <1>2, RegistryStepOrder
<1>3. ASSUME NEW c \in Conn, LoginStep(c) \/ LoopStep(c) \/ ClientStep(c)
      PROVE  OrderInv'
  BY <1>3, ConnectionStepOrder
<1> QED BY <1>1, <1>2, <1>3 DEF Next

\* Whatever clients send and whoever is dropped, a request for a hash or a map
\* reaches a client right after a tick, before anything that changes the world.
THEOREM RequestsAfterTick == Spec => []SystemAfterTick
<1>1. OrderInv => SystemAfterTick
  BY DEF OrderInv, Ordered, SystemAfterTick, Request, System
<1> QED
  BY <1>1, TypeInvInit, TypeInvStep, OwnershipInit, OwnershipStep, GameInit, GameStep,
     HistoryInit, HistoryStep, OrderInit, OrderStep, PTL DEF Spec
-----------------------------------------------------------------------------
(* Evidence.  A hash on its way to a check, or noted in one, is an answer    *)
(* somebody gave for that tick under that id; and checkHashes visits checks   *)
(* only that are pending.                                                    *)

Answered(i, t, h) == [id |-> i, tick |-> t, hash |-> h] \in told

EvidenceInv ==
  /\ \A n \in DOMAIN inbox : inbox[n].kind = "Hash" => Answered(inbox[n].from, inbox[n].tick, inbox[n].hash)
  /\ \A t \in PendingChecks, i \in ID :
       hashes[t].hashes[i] # None => Answered(i, t, hashes[t].hashes[i])

\* Handlers that take no answer, and note none.
LEMMA EvidenceKept ==
  ASSUME RegistryInv, EvidenceInv, told \subseteq told', inbox' = inbox \/ (inbox # <<>> /\ inbox' = Tail(inbox)),
         \A t \in Tick : hashes'[t] \in {None, hashes[t]}
  PROVE  EvidenceInv'
<1>1. \A n \in DOMAIN inbox' : \E k \in DOMAIN inbox : inbox'[n] = inbox[k]
  <2>1. CASE inbox' = inbox
    BY <2>1
  <2>2. CASE inbox # <<>> /\ inbox' = Tail(inbox)
    <3>1. inbox \in Seq(ClientMessage)
      BY DEF RegistryInv, RegistryTypeOK
    <3>2. \A n \in DOMAIN inbox' : n + 1 \in DOMAIN inbox /\ inbox'[n] = inbox[n + 1]
      BY <2>2, <3>1
    <3> QED BY <3>2
  <2> QED BY <2>1, <2>2
<1>2. PendingChecks' \subseteq PendingChecks /\ \A t \in PendingChecks' : hashes'[t] = hashes[t]
  BY DEF PendingChecks
<1> QED BY <1>1, <1>2 DEF EvidenceInv, Answered

\* A check begins without answers.
LEMMA EvidenceOfStart ==
  ASSUME RegistryInv, EvidenceInv, checkForHashStart, UNCHANGED told
  PROVE  EvidenceInv'
<1>1. CASE UNCHANGED hashes
  BY <1>1, EvidenceKept DEF checkForHashStart
<1>2. CASE hashes' = [hashes EXCEPT ![currentTick] =
             [waitingClientCount |-> Cardinality(Members), hashes |-> [i \in ID |-> None]]]
  <2>1. hashes \in [Tick -> HashCheck \cup {None}] /\ UNCHANGED inbox
    BY DEF checkForHashStart, RegistryInv, RegistryTypeOK
  <2>2. \A t \in Tick : t # currentTick => hashes'[t] = hashes[t]
    BY <1>2, <2>1
  <2>3. currentTick \in Tick => \A i \in ID : hashes'[currentTick].hashes[i] = None
    BY <1>2, <2>1
  <2> QED BY <2>1, <2>2, <2>3 DEF EvidenceInv, Answered, PendingChecks
<1> QED BY <1>1, <1>2 DEF checkForHashStart

\* handleHash notes the answer that is first in the registry's inbox.
LEMMA EvidenceOfAnswer ==
  ASSUME RegistryInv, EvidenceInv, handleHash, UNCHANGED told
  PROVE  EvidenceInv'
<1> DEFINE m == Head(inbox)
<1>1. inbox \in Seq(ClientMessage) /\ inbox # <<>> /\ m.kind = "Hash" /\ inbox' = Tail(inbox)
  BY DEF handleHash, Pending, RegistryInv, RegistryTypeOK
<1>2. m = inbox[1] /\ 1 \in DOMAIN inbox
  BY <1>1
<1>3. Answered(m.from, m.tick, m.hash)
  BY <1>1, <1>2 DEF EvidenceInv
<1>4. CASE UNCHANGED hashes
  BY <1>1, <1>4, EvidenceKept
<1>5. CASE hashes[m.tick] # None /\ hashes' = [hashes EXCEPT ![m.tick] = add(@, m.from, m.hash)]
  <2>1. hashes \in [Tick -> HashCheck \cup {None}]
    BY DEF RegistryInv, RegistryTypeOK
  <2>2. \A t \in Tick : t # m.tick => hashes'[t] = hashes[t]
    BY <1>5, <2>1
  <2>3. ASSUME m.tick \in Tick, NEW i \in ID, hashes'[m.tick].hashes[i] # None
        PROVE  Answered(i, m.tick, hashes'[m.tick].hashes[i])
    <3>1. hashes'[m.tick] = add(hashes[m.tick], m.from, m.hash) /\ hashes[m.tick] \in HashCheck
      BY <1>5, <2>1, <2>3
    <3>2. hashes'[m.tick].hashes = [hashes[m.tick].hashes EXCEPT ![m.from] = m.hash]
          /\ hashes[m.tick].hashes \in [ID -> HashValue \cup {None}]
      BY <3>1 DEF add, HashCheck
    <3>3. CASE i = m.from
      BY <1>3, <3>2, <3>3
    <3>4. CASE i # m.from
      <4>1. hashes'[m.tick].hashes[i] = hashes[m.tick].hashes[i] /\ m.tick \in PendingChecks
        BY <1>5, <2>3, <3>2, <3>4 DEF PendingChecks
      <4> QED BY <2>3, <4>1 DEF EvidenceInv
    <3> QED BY <3>3, <3>4
  <2>4. \A n \in DOMAIN inbox' : n + 1 \in DOMAIN inbox /\ inbox'[n] = inbox[n + 1]
    BY <1>1
  <2> QED BY <2>2, <2>3, <2>4 DEF EvidenceInv, Answered, PendingChecks
<1> QED BY <1>4, <1>5 DEF handleHash

\* The checks that are still to be visited.
ScanInv ==
  /\ scan \subseteq PendingChecks
  /\ stage # "checkHashes" => scan = {}

LEMMA RegistryStepScan ==
  ASSUME RegistryInv, ScanInv, RegistryStep
  PROVE  ScanInv'
<1>1. CASE checkForHashStart
  <2>1. hashes \in [Tick -> HashCheck \cup {None}]
    BY DEF RegistryInv, RegistryTypeOK
  <2>2. CASE UNCHANGED hashes
    BY <1>1, <2>2 DEF checkForHashStart, ScanInv, PendingChecks
  <2>3. CASE ~UNCHANGED hashes
    <3>1. (\A t \in Tick : t # currentTick => hashes'[t] = hashes[t])
          /\ scan' = PendingChecks \ {currentTick} /\ stage' = "checkHashes"
      BY <1>1, <2>1, <2>3 DEF checkForHashStart
    <3> QED BY <3>1 DEF ScanInv, PendingChecks
  <2> QED BY <2>2, <2>3
<1>2. CASE checkHashes
  <2>1. PICK t \in scan :
          /\ scan' = scan \ {t}
          /\ UNCHANGED hashes \/ hashes' = [hashes EXCEPT ![t] = None]
    BY <1>2 DEF checkHashes
  <2>2. \A u \in scan' : hashes'[u] = hashes[u]
    BY <2>1 DEF RegistryInv, RegistryTypeOK
  <2> QED BY <1>2, <2>1, <2>2 DEF checkHashes, ScanInv, PendingChecks
<1>3. CASE handleHash
  BY <1>3 DEF handleHash, handler, ScanInv, Pending, Idle
<1>4. CASE handleNewTick \/ handleForcedNextTick
  BY <1>4 DEF handleNewTick, handleForcedNextTick, sendNewTick, ScanInv, Pending, Idle, PendingChecks
<1>5. CASE maybeSendConnCounter
  BY <1>5 DEF maybeSendConnCounter, ScanInv, PendingChecks
<1>6. CASE DropClient \/ ReenterPlayer \/ RunCallback \/ TickDone \/ handleRestart
           \/ handlePing \/ handleGameMessage
  BY <1>6 DEF DropClient, ReenterPlayer, RunCallback, TickDone, handleRestart, handlePing,
              handleGameMessage, handler, ScanInv, PendingChecks
<1> QED BY <1>1, <1>2, <1>3, <1>4, <1>5, <1>6 DEF RegistryStep

LEMMA RegistryStepEvidence ==
  ASSUME RegistryInv, EvidenceInv, ScanInv, RegistryStep
  PROVE  EvidenceInv'
<1>1. UNCHANGED told
  BY DEF RegistryStep, connections
<1>2. CASE checkForHashStart
  BY <1>1, <1>2, EvidenceOfStart
<1>3. CASE handleHash
  BY <1>1, <1>3, EvidenceOfAnswer
<1>4. CASE checkHashes
  <2>1. UNCHANGED inbox /\ \E t \in scan : UNCHANGED hashes \/ hashes' = [hashes EXCEPT ![t] = None]
    BY <1>4 DEF checkHashes
  <2>2. \A t \in Tick : hashes'[t] \in {None, hashes[t]}
    BY <2>1 DEF RegistryInv, RegistryTypeOK
  <2> QED BY <1>1, <2>1, <2>2, EvidenceKept
<1>5. CASE ~(checkForHashStart \/ handleHash \/ checkHashes)
  <2>1. UNCHANGED hashes /\ (UNCHANGED inbox \/ (inbox # <<>> /\ inbox' = Tail(inbox)))
    BY <1>5 DEF RegistryStep, DropClient, ReenterPlayer, handleNewTick, maybeSendConnCounter,
                RunCallback, TickDone, handleRestart, handleForcedNextTick, handlePing,
                handleGameMessage, Pending, channels
  <2> QED BY <1>1, <2>1, EvidenceKept
<1> QED BY <1>2, <1>3, <1>4, <1>5

\* What a client sends goes behind what waits already.
LEMMA EvidenceOfMessage ==
  ASSUME RegistryInv, EvidenceInv, NEW c \in Conn, NEW m \in ClientMessage, RecvMessage(c, m),
         told \subseteq told', m.kind = "Hash" => Answered(m.from, m.tick, m.hash)'
  PROVE  EvidenceInv'
<1>1. inbox \in Seq(ClientMessage) /\ inbox' = Append(inbox, m) /\ UNCHANGED hashes
  BY DEF RecvMessage, RegistryInv, RegistryTypeOK
<1>2. \A n \in DOMAIN inbox' : \/ n \in DOMAIN inbox /\ inbox'[n] = inbox[n]
                               \/ inbox'[n] = m
  BY <1>1
<1> QED BY <1>1, <1>2 DEF EvidenceInv, Answered, PendingChecks

LEMMA ConnectionStepEvidence ==
  ASSUME TypeInv, EvidenceInv, ScanInv, NEW c \in Conn, LoginStep(c) \/ LoopStep(c) \/ ClientStep(c)
  PROVE  EvidenceInv' /\ ScanInv'
<1> USE RegistryAssumption, ServerAssumption
<1>1. RegistryInv /\ ConnectionInv
  BY TypeInvSplit
<1>2. CASE AnswerHash(c)
  <2>1. PICK t \in asked[c], h \in HashValue :
          /\ RecvMessage(c, [kind |-> "Hash", from |-> id[c], tick |-> t, hash |-> h])
          /\ told' = told \cup {[id |-> id[c], tick |-> t, hash |-> h]}
    BY <1>2 DEF AnswerHash
  <2>2. id[c] \in ID /\ t \in Tick
    BY <1>1, <2>1 DEF RecvMessage, ConnectionInv
  <2>3. PICK m \in ClientMessage : m = [kind |-> "Hash", from |-> id[c], tick |-> t, hash |-> h]
    BY <2>2 DEF ClientMessage
  <2>4. told \subseteq told' /\ [id |-> m.from, tick |-> m.tick, hash |-> m.hash] \in told'
    BY <2>1, <2>3
  <2>5. RecvMessage(c, m)
    BY <2>1, <2>3
  <2>6. EvidenceInv'
    BY <1>1, <2>4, <2>5, EvidenceOfMessage DEF Answered
  <2> QED BY <2>5, <2>6 DEF RecvMessage, handler, ScanInv, PendingChecks
<1>3. CASE SendMessage(c)
  <2>1. PICK k \in {"Restart", "NextTick", "Ping", "Game"} :
          /\ RecvMessage(c, [kind |-> k, from |-> id[c], tick |-> 0, hash |-> None])
          /\ UNCHANGED told
    BY <1>3 DEF SendMessage
  <2> DEFINE m == [kind |-> k, from |-> id[c], tick |-> 0, hash |-> None]
  <2>2. id[c] \in ID
    BY <1>1, <2>1 DEF RecvMessage, ConnectionInv
  <2>3. m \in ClientMessage /\ m.kind # "Hash"
    BY <2>2 DEF ClientMessage
  <2>4. EvidenceInv'
    BY <1>1, <2>1, <2>3, EvidenceOfMessage
  <2> QED BY <2>1, <2>4 DEF RecvMessage, handler, ScanInv, PendingChecks
<1>4. CASE ~(AnswerHash(c) \/ SendMessage(c))
  <2>1. UNCHANGED <<hashes, inbox, told, scan>>
    BY <1>4 DEF LoginStep, LoopStep, ClientStep, LoginFails, CheckVersion, Refused, RefusePlayer,
                CreatePlayer, registerPlayer, PlayerCreated, AdmitClient, Hello, HelloFails,
                WriteMessage, WriteFails, Drain, InboxClosed, Leave, RemovePlayer, ReadFails,
                ClientDies, Take, registry, channels, handler, connections
  <2>2. stage' = "checkHashes" => stage = "checkHashes"
    BY <1>4 DEF LoginStep, LoopStep, ClientStep, LoginFails, CheckVersion, Refused, RefusePlayer,
                CreatePlayer, registerPlayer, PlayerCreated, AdmitClient, Hello, HelloFails,
                WriteMessage, WriteFails, Drain, InboxClosed, Leave, RemovePlayer, ReadFails,
                ClientDies, Take, registry, handler
  <2>3. stage # "checkHashes" \/ stage' = "checkHashes"
    BY <1>4 DEF LoginStep, LoopStep, ClientStep, LoginFails, CheckVersion, Refused, RefusePlayer,
                CreatePlayer, registerPlayer, AtRegistration, PlayerCreated, AdmitClient, Hello,
                HelloFails, WriteMessage, WriteFails, Drain, InboxClosed, Leave, RemovePlayer,
                ReadFails, ClientDies, Take, registry, handler, Idle
  <2>4. EvidenceInv'
    BY <1>1, <2>1, EvidenceKept
  <2> QED BY <2>1, <2>2, <2>3, <2>4 DEF ScanInv, PendingChecks
<1> QED BY <1>2, <1>3, <1>4


LEMMA EvidenceStep == TypeInv /\ EvidenceInv /\ ScanInv /\ [Next]_vars => EvidenceInv' /\ ScanInv'
<1> SUFFICES ASSUME TypeInv, EvidenceInv, ScanInv, [Next]_vars PROVE EvidenceInv' /\ ScanInv'
  OBVIOUS
<1>1. CASE UNCHANGED vars
  BY <1>1 DEF vars, registry, channels, handler, connections, EvidenceInv, Answered, ScanInv, PendingChecks
<1>2. CASE RegistryStep
  BY <1>2, RegistryStepEvidence, RegistryStepScan, TypeInvSplit
<1>3. ASSUME NEW c \in Conn, LoginStep(c) \/ LoopStep(c) \/ ClientStep(c)
      PROVE  EvidenceInv' /\ ScanInv'
  BY <1>3, ConnectionStepEvidence
<1> QED BY <1>1, <1>2, <1>3 DEF Next

LEMMA EvidenceInit == Init => EvidenceInv /\ ScanInv
BY DEF Init, RegistryInit, EvidenceInv, ScanInv, PendingChecks

\* Only checkHashes drops clients as out of sync.
LEMMA OthersAreInSync ==
  ASSUME [Next]_vars, ~checkHashes, NEW d \in drops' \ drops
  PROVE  d.reason # "OutOfSync"
<1> DEFINE Else == drops' \subseteq drops
<1>1. (\E m : sendAll(m)) => d.reason = "TooSlow"
  BY DEF sendAll
<1>2. ASSUME NEW c \in Conn, LoginStep(c) \/ LoopStep(c) \/ ClientStep(c)
      PROVE  Else \/ \E m : sendAll(m)
  BY <1>2 DEF LoginStep, LoopStep, ClientStep, LoginFails, CheckVersion, Refused, RefusePlayer,
         CreatePlayer, registerPlayer, PlayerCreated, AdmitClient, Hello, HelloFails,
         WriteMessage, WriteFails, Drain, InboxClosed, Leave, RemovePlayer, AnswerHash, SendMessage,
         ReadFails, ClientDies, RecvMessage, Take, registry, handler
<1>3. CASE RunCallback
  <2>1. \/ drops' = drops
        \/ drops' = [id : Members \cap {masterID}, reason : {"TooSlow"}]
    BY <1>3 DEF RunCallback, JoinMaster, DropMaster, TurnAway
  <2>2. ASSUME NEW S, drops' = [id : S, reason : {"TooSlow"}] PROVE d.reason = "TooSlow"
    BY <2>2
  <2> QED BY <2>1, <2>2
<1>4. CASE handleRestart
  BY <1>4 DEF handleRestart
<1>5. CASE \/ DropClient \/ ReenterPlayer \/ TickDone \/ handleHash \/ handlePing \/ UNCHANGED vars
  BY <1>5 DEF DropClient, ReenterPlayer, TickDone, handleHash, handlePing, handler, vars, registry
<1>6. CASE \/ handleNewTick \/ handleForcedNextTick \/ checkForHashStart \/ maybeSendConnCounter
           \/ handleGameMessage
  BY <1>1, <1>6 DEF handleNewTick, handleForcedNextTick, sendNewTick, checkForHashStart,
                    maybeSendConnCounter, handleGameMessage
<1> QED BY <1>1, <1>2, <1>3, <1>4, <1>5, <1>6 DEF Next, RegistryStep

\* Whoever is dropped as out of sync has given, under its id, another answer than
\* was given under the master's: no client is dropped for what it has not said.
THEOREM EvidenceForDrops == Spec => DroppedOnEvidence
<1> DEFINE A == \A d \in drops' \ drops : d.reason = "OutOfSync" =>
                  \E t \in PendingChecks \ PendingChecks', a, m \in told :
                    /\ a.id = d.id /\ a.tick = t
                    /\ m.id = masterID /\ m.tick = t
                    /\ a.hash # m.hash
<1>1. TypeInv /\ EvidenceInv /\ ScanInv /\ [Next]_vars => [A]_vars
  <2>1. SUFFICES ASSUME TypeInv, EvidenceInv, ScanInv, [Next]_vars,
                        NEW d \in drops' \ drops, d.reason = "OutOfSync"
                 PROVE  \E t \in PendingChecks \ PendingChecks', a, m \in told :
                          /\ a.id = d.id /\ a.tick = t
                          /\ m.id = masterID /\ m.tick = t
                          /\ a.hash # m.hash
    OBVIOUS
  <2>2. PICK t \in scan : checkHashesOne(t) /\ hashes' = [hashes EXCEPT ![t] = None]
    BY <2>1, OthersAreInSync DEF checkHashes
  <2>3. /\ t \in PendingChecks \ PendingChecks' /\ t \in Tick
        /\ hashes[t] \in HashCheck
    BY <2>1, <2>2, TypeInvSplit DEF ScanInv, PendingChecks, RegistryInv, RegistryTypeOK
  <2>4. d.id \in Unsynced(t)
    BY <2>1, <2>2 DEF checkHashesOne
  <2> DEFINE answers == hashes[t].hashes
  <2>5. /\ d.id \in ID /\ masterID \in ID
        /\ answers[masterID] # None /\ answers[d.id] # None
        /\ answers[d.id] # answers[masterID]
    BY <2>1, <2>4, TypeInvSplit DEF Unsynced, RegistryInv, RegistryTypeOK
  <2>6. Answered(d.id, t, answers[d.id]) /\ Answered(masterID, t, answers[masterID])
    BY <2>1, <2>3, <2>5 DEF EvidenceInv
  <2>7. PICK a \in told : a = [id |-> d.id, tick |-> t, hash |-> answers[d.id]]
    BY <2>6 DEF Answered
  <2>8. PICK m \in told : m = [id |-> masterID, tick |-> t, hash |-> answers[masterID]]
    BY <2>6 DEF Answered
  <2> QED BY <2>3, <2>5, <2>7, <2>8
<1> QED
  BY <1>1, TypeInvInit, TypeInvStep, EvidenceInit, EvidenceStep, PTL DEF Spec, DroppedOnEvidence
=============================================================================
