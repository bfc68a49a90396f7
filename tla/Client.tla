------------------------------- MODULE Client -------------------------------
(* The three threads of one client program: the socket thread takes         *)
(* messages off the wire, the game thread runs ticks and draws a frame      *)
(* after each, and the main thread handles the user's input, shows frames   *)
(* and, when the window is closed, ends the other two.  What one thread has *)
(* another do is a slot queued for it.  What the messages do to the world   *)
(* and how maps are sent is the matter of Lockstep.                         *)
(* A frame is a number, which stands for its chat, sounds and texts, the    *)
(* entities in view with their places in tiles, and the camera's place.     *)
(* Coordinates are pixels on every axis; all axes are treated alike.        *)
EXTENDS Integers, Sequences

CONSTANTS Axes, TileSize,         \* x and y, and 32 pixels
          Ids, Me,                \* what can be seen, and the player's own mob
          MaxLevel,               \* MAX_LEVEL: levels from here up are drawn last, in the frame's order
          Contents,               \* what the core can put into a frame
          MaxFrames, MaxMail      \* bounds: frames, and slots queued for a thread

Place == [Axes -> Int]

ASSUME ClientAssumption ==
    /\ TileSize \in Nat \ {0} /\ MaxLevel \in Nat /\ Me \in Ids
    /\ \A k \in Contents :
          /\ k.entities \in Seq([id : Ids, click : BOOLEAN, level : Nat])
          /\ \A i, j \in 1..Len(k.entities) : k.entities[i].id = k.entities[j].id => i = j
          /\ k.at \in [{k.entities[i].id : i \in 1..Len(k.entities)} -> Place]
          /\ k.camera \in Place
          /\ Me \in DOMAIN k.at => k.at[Me] = k.camera

VARIABLES main,      \* main thread: "waiting" for a world, "loop", "showing" a frame, "closing", "leaving", "done"
          game,      \* game thread: "off", "waiting" for messages, "working", "ended"
          socket,    \* socket thread: "running" or "ended"
          toGame, toSocket,           \* slots queued for these threads
          queue,     \* received_messages_
          hidden,    \* the window is closed
          frames,    \* frames drawn so far
          old_frame, is_updated,      \* shared with the game thread: the last frame swapped in
          current_frame, current_frame_id, views, camera,
          shown,     \* history: the numbers of the frames shown
          overrun    \* history: the last swap fell into a SynchronizeViews

mail == <<toGame, toSocket>>
picture == <<current_frame, current_frame_id, views, camera, shown>>
shared == <<frames, old_frame, is_updated, overrun>>
clientVars == <<main, game, socket, mail, queue, hidden, shared, picture>>

NoFrame == [n |-> 0, entities |-> <<>>, at |-> <<>>, camera |-> [a \in Axes |-> 0]]
InFrame == DOMAIN current_frame.at
-----------------------------------------------------------------------------
(* Gliding. *)

\* Pixels to go towards a target so many pixels away: an eighth, at least one.
GetPixelSpeedForDistance(distance) ==
    IF distance > 0 THEN ((distance - 1) \div 8) + 1
    ELSE IF distance < 0 THEN -(((-distance - 1) \div 8) + 1) ELSE 0

Pixels(place) == [a \in Axes |-> TileSize * place[a]]
Glide(from, to) == [a \in Axes |-> from[a] + GetPixelSpeedForDistance(to[a] - from[a])]

\* The camera shows its tile, shifted by what it has yet to glide.
SetPosAtOnce(c, place) == [pos |-> place, shift |-> [a \in Axes |-> 0]]

SetPos(c, place) ==
    [pos |-> place, shift |-> [a \in Axes |-> c.shift[a] + TileSize * (c.pos[a] - place[a])]]

CameraGlides(c) == [c EXCEPT !.shift = [a \in Axes |-> c.shift[a] - GetPixelSpeedForDistance(c.shift[a])]]

FullShift(c) == [a \in Axes |-> TileSize * c.pos[a] + c.shift[a]]
-----------------------------------------------------------------------------
(* Clicks. *)

Clickable(es, opaque) == {i \in opaque : es[i].click}

HighestOf(S) == CHOOSE i \in S : \A j \in S : j <= i

\* The entity a click hits, where those at the indices in opaque are not
\* transparent: the last of the entities on the top levels, or else of those on
\* the highest level; nothing if there is none.
PickedInOrder(es, opaque) == HighestOf(Clickable(es, opaque))

Picked(es, opaque) ==
    LET hit == Clickable(es, opaque)
        top == {i \in hit : es[i].level >= MaxLevel}
        level == HighestOf({es[i].level : i \in hit})
    IN IF top /= {} THEN HighestOf(top) ELSE HighestOf({i \in hit : es[i].level = level})

\* Entity i is drawn after entity j: Draw goes up level by level, and then
\* through everything on the top levels.
DrawnAfter(es, i, j) ==
    LET pass(k) == IF es[k].level >= MaxLevel THEN MaxLevel ELSE es[k].level
    IN pass(i) > pass(j) \/ (pass(i) = pass(j) /\ i > j)
-----------------------------------------------------------------------------
ClientTypeOK ==
    /\ main \in {"waiting", "loop", "showing", "closing", "leaving", "done"}
    /\ game \in {"off", "waiting", "working", "ended"}
    /\ socket \in {"running", "ended"}
    /\ toGame \in Seq({"endProcess"})
    /\ toSocket \in Seq({"message", "disconnect"})
    /\ queue \in Seq({"NEW_TICK", "other"})
    /\ hidden \in BOOLEAN /\ frames \in Nat /\ is_updated \in BOOLEAN /\ overrun \in BOOLEAN
    /\ current_frame_id \in Nat
    /\ views \in [Ids -> [frame_id : Nat, at : Place]]
    /\ camera \in [pos : Place, shift : Place]
    /\ shown \in Seq(Nat)

ClientInit ==
    /\ main = "waiting" /\ game = "off" /\ socket = "running"
    /\ toGame = <<>> /\ toSocket = <<>> /\ queue = <<>> /\ hidden = FALSE
    /\ frames = 0 /\ old_frame = NoFrame /\ is_updated = FALSE /\ overrun = FALSE
    /\ current_frame = NoFrame /\ current_frame_id = 1
    /\ views = [id \in Ids |-> [frame_id |-> 0, at |-> [a \in Axes |-> 0]]]
    /\ camera = [pos |-> [a \in Axes |-> 0], shift |-> [a \in Axes |-> 0]]
    /\ shown = <<>>
-----------------------------------------------------------------------------
(* The socket thread. *)

PushMessage ==
    \E type \in {"NEW_TICK", "other"} :
       /\ socket = "running" /\ Len(queue) < MaxMail
       /\ type = "NEW_TICK" => frames + Len(queue) < MaxFrames
       /\ queue' = Append(queue, type)
       /\ UNCHANGED <<main, game, socket, mail, hidden, shared, picture>>

sendMessage ==
    /\ socket = "running" /\ toSocket /= <<>> /\ Head(toSocket) = "message"
    /\ toSocket' = Tail(toSocket)
    /\ UNCHANGED <<main, game, socket, toGame, queue, hidden, shared, picture>>

disconnectSocket ==
    /\ socket = "running" /\ toSocket /= <<>> /\ Head(toSocket) = "disconnect"
    /\ toSocket' = Tail(toSocket) /\ socket' = "ended"
    /\ UNCHANGED <<main, game, toGame, queue, hidden, shared, picture>>

\* The thread ends; what was queued for it is never carried out.
errorSocket ==
    /\ socket = "running" /\ socket' = "ended"
    /\ UNCHANGED <<main, game, toGame, toSocket, queue, hidden, shared, picture>>
-----------------------------------------------------------------------------
(* The game thread. *)

\* It waits for a message, at most MAX_WAIT_ON_QUEUE, ...
WokenByMessage == queue /= <<>>

Woken == TRUE

\* ... carries its slots out, and looks whether it should end.
Process ==
    /\ game = "waiting" /\ Woken
    /\ game' = IF \E i \in 1..Len(toGame) : toGame[i] = "endProcess" THEN "ended" ELSE "working"
    /\ toGame' = <<>>
    /\ UNCHANGED <<main, socket, toSocket, queue, hidden, shared, picture>>

\* Messages for the next tick, saves, hashes and notices: see Lockstep.
ProcessMessage ==
    /\ game = "working" /\ queue /= <<>> /\ Head(queue) = "other"
    /\ queue' = Tail(queue)
    /\ UNCHANGED <<main, game, socket, mail, hidden, shared, picture>>

NoMoreMessages ==
    /\ game = "working" /\ queue = <<>>
    /\ game' = "waiting"
    /\ UNCHANGED <<main, socket, mail, queue, hidden, shared, picture>>

\* Swap: the frame replaces the last one, shown or not.
SwapSilently(frame) == old_frame' = frame /\ is_updated' = is_updated

Swap(frame) == old_frame' = frame /\ is_updated' = TRUE

\* NEW_TICK: the tick, and a frame of what it left.
GenerateFrame ==
    \E k \in Contents :
       /\ game = "working" /\ queue /= <<>> /\ Head(queue) = "NEW_TICK"
       /\ queue' = Tail(queue) /\ game' = "waiting"
       /\ frames' = frames + 1
       /\ Swap([n |-> frames + 1, entities |-> k.entities, at |-> k.at, camera |-> k.camera])
       /\ overrun' = (main = "showing")
       /\ UNCHANGED <<main, socket, mail, hidden, picture>>
-----------------------------------------------------------------------------
(* The main thread. *)

\* The world is there: the game thread starts and the main thread loops.
startGameLoop ==
    /\ main = "waiting" /\ ~hidden
    /\ main' = "loop" /\ game' = "waiting"
    /\ UNCHANGED <<socket, mail, queue, hidden, shared, picture>>

\* A key, or a click on something, becomes a message.
HandleInput ==
    /\ main = "loop" /\ ~hidden /\ Len(toSocket) < MaxMail
    /\ toSocket' = Append(toSocket, "message")
    /\ UNCHANGED <<main, game, socket, toGame, queue, hidden, shared, picture>>

\* The user closes the window; if he is asked, because a map is being sent, he
\* insists.  Without a game that is the end of the program.
closeEvent ==
    /\ main \in {"waiting", "loop"} /\ ~hidden
    /\ hidden' = TRUE
    /\ IF main = "waiting" THEN main' = "done" /\ socket' = "ended" ELSE UNCHANGED <<main, socket>>
    /\ UNCHANGED <<game, mail, queue, shared, picture>>

\* SynchronizeViews, under the mutex: the frame is copied ...
CopyFrame ==
    /\ main = "loop" /\ is_updated
    /\ current_frame' = old_frame
    /\ main' = "showing"
    /\ UNCHANGED <<game, socket, mail, queue, hidden, shared, current_frame_id, views, camera, shown>>

\* ... and without it: what was in the last frame goes on from where it is,
\* what was not appears in its place; is_updated_ is reset at the end.
ShowFrame ==
    /\ main = "showing" /\ main' = "loop"
    /\ camera' = SetPos(camera, current_frame.camera)
    /\ views' = [id \in Ids |->
                   IF id \notin InFrame THEN views[id]
                   ELSE [frame_id |-> current_frame_id + 1,
                         at |-> IF views[id].frame_id = current_frame_id THEN views[id].at
                                ELSE Pixels(current_frame.at[id])]]
    /\ shown' = Append(shown, current_frame.n)
    /\ current_frame_id' = current_frame_id + 1
    /\ is_updated' = FALSE
    /\ UNCHANGED <<game, socket, mail, queue, hidden, frames, old_frame, overrun, current_frame>>

PerformPixelMovement ==
    /\ main = "loop"
    /\ views' = [id \in Ids |->
                   IF id \notin InFrame THEN views[id]
                   ELSE [views[id] EXCEPT !.at = Glide(@, Pixels(current_frame.at[id]))]]
    /\ camera' = CameraGlides(camera)
    /\ UNCHANGED <<main, game, socket, mail, queue, hidden, shared, current_frame, current_frame_id, shown>>

\* The loop ends and the game thread is told.
EndLoop ==
    /\ main = "loop" /\ hidden
    /\ main' = "closing"
    /\ toGame' = Append(toGame, "endProcess")
    /\ UNCHANGED <<game, socket, toSocket, queue, hidden, shared, picture>>

WaitForExit ==
    /\ main = "closing" /\ game = "ended"
    /\ main' = "leaving"
    /\ toSocket' = Append(toSocket, "disconnect")
    /\ UNCHANGED <<game, socket, toGame, queue, hidden, shared, picture>>

Disconnect ==
    /\ main = "leaving" /\ socket = "ended"
    /\ main' = "done"
    /\ UNCHANGED <<game, socket, mail, queue, hidden, shared, picture>>

SocketThread == PushMessage \/ sendMessage \/ disconnectSocket \/ errorSocket
GameThread == Process \/ ProcessMessage \/ NoMoreMessages \/ GenerateFrame
MainThread == \/ startGameLoop \/ HandleInput \/ closeEvent \/ CopyFrame \/ ShowFrame
              \/ PerformPixelMovement \/ EndLoop \/ WaitForExit \/ Disconnect

ClientNext == SocketThread \/ GameThread \/ MainThread

\* Threads run; the game thread is faster than the messages come; every round
\* of the game loop looks whether the window is there.
Fairness == /\ WF_clientVars(GameThread) /\ SF_clientVars(NoMoreMessages)
            /\ WF_clientVars(sendMessage \/ disconnectSocket)
            /\ WF_clientVars(ShowFrame) /\ SF_clientVars(EndLoop) /\ WF_clientVars(WaitForExit \/ Disconnect)

ClientSpec == ClientInit /\ [][ClientNext]_clientVars /\ Fairness
-----------------------------------------------------------------------------
\* Chat and sounds are shown in order and at most once, and a frame that is not
\* shown yet will be: whenever is_updated_ is down the last frame has been
\* shown, except one swapped in while the main thread was showing another
\* (Representation.cpp: is_updated_ is reset outside the mutex).
ChatInOrder ==
    /\ ClientTypeOK
    /\ \A i \in 2..Len(shown) : shown[i - 1] < shown[i]
    /\ shown /= <<>> => shown[Len(shown)] <= frames
    /\ main = "loop" /\ ~is_updated /\ ~overrun /\ frames > 0 => shown /= <<>> /\ shown[Len(shown)] = frames

\* The camera stays on the player's mob: once it is where the mob is drawn, it
\* moves with it, pixel by pixel, as long as the mob is in view.
OnMob == FullShift(camera) = views[Me].at
CameraOnMob == [][(Me \in InFrame /\ views[Me].frame_id = current_frame_id /\ OnMob) => OnMob']_clientVars

\* A click hits what the user sees: of the things that are not transparent at
\* a pixel and can be clicked, the one that was drawn last.
ClickHitsTop ==
    \A opaque \in SUBSET (1..Len(current_frame.entities)) :
       LET es == current_frame.entities IN
          \A i \in Clickable(es, opaque) : i /= Picked(es, opaque) => DrawnAfter(es, Picked(es, opaque), i)

\* When the window is closed the program ends, with all its threads, whatever
\* the connection and the game thread are doing.
ClosesDown == hidden ~> (main = "done" /\ game \in {"off", "ended"} /\ socket = "ended")
=============================================================================
