---------------------------- MODULE ClientProofs ----------------------------
(***************************************************************************)
(* Two machines of the client program, which share no state in the models: *)
(* what it shows, for every size of tiles, any axes and whatever the core  *)
(* puts into its frames; and the objects of its world, for any number of   *)
(* objects, frequencies and calls.                                         *)
(*                                                                         *)
(* ClientInv is inductive for the first.  ObjInv is for the second; its    *)
(* parts: the list and its lookup (ListInv), the life of an id (FreedOnce),*)
(* what is left over between two ticks (RestInv), and where the walk over  *)
(* the list stands (WalkInv): behind it are the objects that ran, before   *)
(* it those that are still to.                                             *)
(***************************************************************************)
EXTENDS Client, Objects, SequenceTheorems, FiniteSetTheorems, WellFoundedInduction, TLAPS

\* A frame as the core makes it: the camera is on the player's own mob.
FrameOK(f) ==
    /\ f.n \in Nat
    /\ f.entities \in Seq([id : Ids, click : BOOLEAN, level : Nat])
    /\ f.camera \in Place
    /\ \A en \in DOMAIN f.at : en \in Ids /\ f.at[en] \in Place
    /\ Me \in DOMAIN f.at => f.at[Me] = f.camera

\* Frames are numbered, the newest one waits in old_frame_, and what was shown
\* is older than what waits.
Numbered ==
    /\ old_frame.n = frames
    /\ main = "waiting" => game = "off" /\ frames = 0 /\ ~is_updated
    /\ \A m \in 1..Len(shown) : shown[m] <= frames
    /\ is_updated /\ main /= "showing" => \A m \in 1..Len(shown) : shown[m] < frames
    /\ main = "showing" => /\ current_frame.n <= frames
                           /\ \A m \in 1..Len(shown) : shown[m] < current_frame.n
                           /\ current_frame.n /= frames => overrun

\* The camera is set to the frame that is shown.
CameraSet == main /= "showing" => camera.pos = current_frame.camera

ClientInv == /\ ChatInOrder /\ Numbered /\ CameraSet
        /\ FrameOK(old_frame) /\ FrameOK(current_frame)
-----------------------------------------------------------------------------
(* The arithmetic of gliding. *)

\* What is as far away on the other side is approached as fast.
LEMMA SpeedIsOdd ==
    \A d \in Int : /\ GetPixelSpeedForDistance(d) \in Int
                   /\ GetPixelSpeedForDistance(-d) = -GetPixelSpeedForDistance(d)
BY DEF GetPixelSpeedForDistance

\* Every move of PerformPixelMovement brings a view nearer to its place and
\* none takes it past it, at any distance (GetPixelSpeedForDistance).
THEOREM GlideApproaches ==
    \A d \in Int : LET rest == d - GetPixelSpeedForDistance(d) IN
        /\ d > 0 => rest \in 0..(d - 1)
        /\ d < 0 => rest \in (d + 1)..0
        /\ d = 0 => rest = 0
BY DEF GetPixelSpeedForDistance

LEMMA TileSizeType == TileSize \in Int /\ Me \in Ids
BY ClientAssumption

LEMMA GlideType == ASSUME NEW from \in Place, NEW to \in Place PROVE Glide(from, to) \in Place
BY SpeedIsOdd DEF Glide, Place

LEMMA PixelsType == ASSUME NEW place \in Place PROVE Pixels(place) \in Place
BY TileSizeType DEF Pixels, Place

LEMMA CameraType ==
    ASSUME NEW c \in [pos : Place, shift : Place], NEW place \in Place
    PROVE  /\ SetPos(c, place) \in [pos : Place, shift : Place]
           /\ SetPos(c, place).pos = place
           /\ CameraGlides(c) \in [pos : Place, shift : Place]
           /\ CameraGlides(c).pos = c.pos
<1>1. \A a \in Axes : c.shift[a] \in Int /\ c.pos[a] \in Int /\ place[a] \in Int
  BY DEF Place
<1>2. ASSUME NEW a \in Axes PROVE c.shift[a] + TileSize * (c.pos[a] - place[a]) \in Int
  BY <1>1, TileSizeType
<1>3. ASSUME NEW a \in Axes PROVE c.shift[a] - GetPixelSpeedForDistance(c.shift[a]) \in Int
  <2>1. c.shift[a] \in Int
    BY <1>1
  <2>2. GetPixelSpeedForDistance(c.shift[a]) \in Int
    BY <2>1, SpeedIsOdd
  <2> QED BY <2>1, <2>2
<1>4. SetPos(c, place) \in [pos : Place, shift : Place] /\ SetPos(c, place).pos = place
  BY <1>2 DEF SetPos, Place
<1>5. CameraGlides(c) \in [pos : Place, shift : Place] /\ CameraGlides(c).pos = c.pos
  BY <1>3 DEF CameraGlides, Place
<1> QED BY <1>4, <1>5

\* A new frame moves the camera's tile and shift so that nothing jumps.
LEMMA SetPosKeepsShift ==
    ASSUME NEW c \in [pos : Place, shift : Place], NEW place \in Place
    PROVE  FullShift(SetPos(c, place)) = FullShift(c)
<1>1. ASSUME NEW a \in Axes
      PROVE TileSize * place[a] + (c.shift[a] + TileSize * (c.pos[a] - place[a])) = TileSize * c.pos[a] + c.shift[a]
  <2>1. c.shift[a] \in Int /\ c.pos[a] \in Int /\ place[a] \in Int /\ TileSize \in Int
    BY TileSizeType DEF Place
  <2> QED BY <2>1
<1> QED BY <1>1 DEF FullShift, SetPos

\* The camera glides as the view of what stands on its tile does.
LEMMA CameraGlidesAlong ==
    ASSUME NEW c \in [pos : Place, shift : Place]
    PROVE  FullShift(CameraGlides(c)) = Glide(FullShift(c), Pixels(c.pos))
<1>1. ASSUME NEW a \in Axes
      PROVE TileSize * c.pos[a] + (c.shift[a] - GetPixelSpeedForDistance(c.shift[a])) =
            (TileSize * c.pos[a] + c.shift[a])
               + GetPixelSpeedForDistance(TileSize * c.pos[a] - (TileSize * c.pos[a] + c.shift[a]))
  <2>1. c.shift[a] \in Int /\ c.pos[a] \in Int /\ TileSize \in Int
    BY TileSizeType DEF Place
  <2>2. TileSize * c.pos[a] - (TileSize * c.pos[a] + c.shift[a]) = -c.shift[a] /\ TileSize * c.pos[a] \in Int
    BY <2>1
  <2>3. GetPixelSpeedForDistance(-c.shift[a]) = -GetPixelSpeedForDistance(c.shift[a])
        /\ GetPixelSpeedForDistance(c.shift[a]) \in Int
    BY <2>1, SpeedIsOdd
  <2> QED BY <2>1, <2>2, <2>3
<1> QED BY <1>1 DEF FullShift, CameraGlides, Glide, Pixels
-----------------------------------------------------------------------------
(* Clicks. *)

LEMMA HasHighest ==
    ASSUME NEW n \in Nat, NEW S, S \subseteq 0..n, S /= {}
    PROVE  HighestOf(S) \in S /\ \A j \in S : j <= HighestOf(S)
<1> DEFINE below == {n - m : m \in S}
<1>0. \A m \in S : m \in Int /\ n - m \in Nat
  OBVIOUS
<1>1. below \subseteq Nat /\ below /= {}
  BY <1>0
<1>2. PICK x \in below : \A y \in below : <<y, x>> \notin OpToRel(<, Nat)
  BY <1>1, WFMin, NatLessThanWellFounded, Zenon
<1>3. \A y \in below : ~(y < x)
  BY <1>1, <1>2, Zenon DEF OpToRel
<1>4. PICK m \in S : x = n - m
  OBVIOUS
<1>5. \A j \in S : j <= m
  BY <1>0, <1>3, <1>4
<1> QED BY <1>5 DEF HighestOf

\* A click hits the thing drawn last of those it could hit, for every frame the
\* core can make (Representation::Click and Draw go through the levels in
\* opposite orders).
LEMMA PickedIsOnTop ==
    ASSUME NEW es \in Seq([id : Ids, click : BOOLEAN, level : Nat]), NEW opaque \in SUBSET (1..Len(es)),
           NEW m \in Clickable(es, opaque), m /= Picked(es, opaque)
    PROVE  DrawnAfter(es, Picked(es, opaque), m)
<1> DEFINE hit == Clickable(es, opaque)
           top == {k \in hit : es[k].level >= MaxLevel}
           levels == {es[k].level : k \in hit}
           level == HighestOf(levels)
           there == {k \in hit : es[k].level = level}
<1>0. MaxLevel \in Nat
  BY ClientAssumption
<1>1. hit \subseteq 0..Len(es) /\ Len(es) \in Nat
  <2>1. hit \subseteq opaque
    BY Zenon DEF Clickable
  <2>2. opaque \subseteq 1..Len(es) /\ Len(es) \in Nat
    BY LenProperties
  <2> HIDE DEF hit
  <2> QED BY <2>1, <2>2
<1>2. ASSUME NEW k \in hit PROVE es[k].level \in Nat
  <2>1. k \in 1..Len(es)
    BY DEF Clickable
  <2>2. es[k] \in [id : Ids, click : BOOLEAN, level : Nat]
    BY <2>1, ElementOfSeq
  <2> QED BY <2>2
<1>3. CASE top /= {}
  <2>1. HighestOf(top) \in top /\ \A j \in top : j <= HighestOf(top)
    <3> HIDE DEF hit
    <3>1. top \subseteq 0..Len(es)
      BY <1>1
    <3> HIDE DEF top
    <3> QED BY <1>1, <1>3, <3>1, HasHighest
  <2>2. Picked(es, opaque) = HighestOf(top)
    BY <1>3 DEF Picked
  <2> DEFINE p == HighestOf(top)
  <2>3. p \in hit /\ es[p].level >= MaxLevel /\ p \in Nat /\ m \in Nat /\ m \in hit
    BY <1>1, <2>1
  <2>4. es[m].level >= MaxLevel => m < p
    BY <2>1, <2>2, <2>3
  <2> HIDE DEF hit, top, p
  <2>5. es[m].level \in Nat /\ es[p].level \in Nat
    BY <1>2, <2>3
  <2>6. DrawnAfter(es, p, m)
    BY <1>0, <2>3, <2>4, <2>5 DEF DrawnAfter
  <2> QED BY <2>2, <2>6 DEF p
<1>4. CASE top = {}
  <2>1. levels \subseteq 0..MaxLevel /\ levels /= {}
    BY <1>0, <1>2, <1>4
  <2>2. level \in levels /\ \A l \in levels : l <= level
    <3> HIDE DEF levels
    <3> QED BY <1>0, <2>1, HasHighest
  <2>3. there \subseteq 0..Len(es) /\ there /= {}
    BY <1>1, <2>2
  <2>4. HighestOf(there) \in there /\ \A j \in there : j <= HighestOf(there)
    <3> HIDE DEF there
    <3> QED BY <1>1, <2>3, HasHighest
  <2>5. Picked(es, opaque) = HighestOf(there)
    BY <1>4 DEF Picked
  <2> DEFINE p == HighestOf(there)
  <2>6. p \in hit /\ es[p].level = level /\ p \in Nat /\ m \in Nat /\ m \in hit
    BY <1>1, <2>4
  <2>7. es[m].level <= level /\ (es[m].level = level => m < p)
    <3>1. es[m].level \in levels /\ (es[m].level = level => m \in there)
      BY <2>6
    <3>2. es[m].level <= level /\ (m \in there => m <= p)
      BY <2>2, <2>4, <3>1
    <3>3. m /= p
      BY <2>5
    <3> HIDE DEF hit, there, levels, p, level
    <3> QED BY <2>6, <3>1, <3>2, <3>3
  <2>8. ~(es[p].level >= MaxLevel) /\ ~(es[m].level >= MaxLevel)
    BY <1>4, <2>6
  <2> HIDE DEF hit, top, levels, there, p, level
  <2>9. es[m].level \in Nat /\ es[p].level \in Nat
    BY <1>2, <2>6
  <2>10. DrawnAfter(es, p, m)
    BY <1>0, <2>6, <2>7, <2>8, <2>9 DEF DrawnAfter
  <2> QED BY <2>5, <2>10 DEF p
<1> QED BY <1>3, <1>4
-----------------------------------------------------------------------------
(* The invariant. *)

LEMMA ContentsAreFrames ==
    ASSUME NEW k \in Contents, NEW n \in Nat
    PROVE  FrameOK([n |-> n, entities |-> k.entities, at |-> k.at, camera |-> k.camera])
<1>1. k.camera \in Place /\ (Me \in DOMAIN k.at => k.at[Me] = k.camera)
  BY ClientAssumption
<1>2. /\ k.entities \in Seq([id : Ids, click : BOOLEAN, level : Nat])
      /\ k.at \in [{k.entities[m].id : m \in 1..Len(k.entities)} -> Place]
  BY ClientAssumption
<1>3. ASSUME NEW m \in 1..Len(k.entities) PROVE k.entities[m].id \in Ids
  <2>1. k.entities[m] \in [id : Ids, click : BOOLEAN, level : Nat]
    BY <1>2, ElementOfSeq
  <2> QED BY <2>1
<1>4. ASSUME NEW en \in DOMAIN k.at PROVE en \in Ids /\ k.at[en] \in Place
  <2>1. PICK m \in 1..Len(k.entities) : en = k.entities[m].id
    BY <1>2
  <2> QED BY <1>2, <1>3, <2>1
<1> QED BY <1>1, <1>2, <1>4 DEF FrameOK

LEMMA InitClientInv == ClientInit => ClientInv
<1> SUFFICES ASSUME ClientInit PROVE ClientInv
  OBVIOUS
<1> USE DEF ClientInit
<1>1. [a \in Axes |-> 0] \in Place
  BY DEF Place
<1>2. FrameOK(NoFrame)
  BY <1>1, EmptySeq DEF FrameOK, NoFrame
<1>3. ClientTypeOK
  <2>1. toGame \in Seq({"endProcess"}) /\ toSocket \in Seq({"message", "disconnect"}) /\ queue \in Seq({"NEW_TICK", "other"})
        /\ shown \in Seq(Nat)
    BY EmptySeq
  <2>2. views \in [Ids -> [frame_id : Nat, at : Place]] /\ camera \in [pos : Place, shift : Place]
    BY <1>1
  <2> QED BY <2>1, <2>2 DEF ClientTypeOK
<1>4. ChatInOrder
  BY <1>3 DEF ChatInOrder
<1>5. Numbered /\ CameraSet
  BY DEF Numbered, CameraSet, NoFrame
<1> QED BY <1>2, <1>4, <1>5 DEF ClientInv

\* What the threads hand each other keeps its type.
LEMMA QueuesTyped ==
    ASSUME ClientTypeOK, [ClientNext]_clientVars
    PROVE  /\ toGame' \in Seq({"endProcess"}) /\ toSocket' \in Seq({"message", "disconnect"})
           /\ queue' \in Seq({"NEW_TICK", "other"})
<1>0. toGame \in Seq({"endProcess"}) /\ toSocket \in Seq({"message", "disconnect"}) /\ queue \in Seq({"NEW_TICK", "other"})
  BY DEF ClientTypeOK
<1>1. toGame' \in {toGame, <<>>, Append(toGame, "endProcess")}
  BY DEF ClientNext, SocketThread, GameThread, MainThread, PushMessage, sendMessage, disconnectSocket, errorSocket,
         Process, ProcessMessage, NoMoreMessages, GenerateFrame, startGameLoop, HandleInput, closeEvent,
         CopyFrame, ShowFrame, PerformPixelMovement, EndLoop, WaitForExit, Disconnect, clientVars, mail
<1>2. \/ toSocket' \in {toSocket, Append(toSocket, "message"), Append(toSocket, "disconnect")}
      \/ toSocket /= <<>> /\ toSocket' = Tail(toSocket)
  BY DEF ClientNext, SocketThread, GameThread, MainThread, PushMessage, sendMessage, disconnectSocket, errorSocket,
         Process, ProcessMessage, NoMoreMessages, GenerateFrame, startGameLoop, HandleInput, closeEvent,
         CopyFrame, ShowFrame, PerformPixelMovement, EndLoop, WaitForExit, Disconnect, clientVars, mail
<1>3. \/ queue' = queue
      \/ \E type \in {"NEW_TICK", "other"} : queue' = Append(queue, type)
      \/ queue /= <<>> /\ queue' = Tail(queue)
  BY DEF ClientNext, SocketThread, GameThread, MainThread, PushMessage, sendMessage, disconnectSocket, errorSocket,
         Process, ProcessMessage, NoMoreMessages, GenerateFrame, startGameLoop, HandleInput, closeEvent,
         CopyFrame, ShowFrame, PerformPixelMovement, EndLoop, WaitForExit, Disconnect, clientVars
<1>4. toGame' \in Seq({"endProcess"})
  <2>1. <<>> \in Seq({"endProcess"}) /\ Append(toGame, "endProcess") \in Seq({"endProcess"})
    BY <1>0, EmptySeq, AppendProperties
  <2> QED BY <1>0, <1>1, <2>1
<1>5. toSocket' \in Seq({"message", "disconnect"})
  <2>1. /\ Append(toSocket, "message") \in Seq({"message", "disconnect"})
        /\ Append(toSocket, "disconnect") \in Seq({"message", "disconnect"})
    BY <1>0, AppendProperties
  <2>2. toSocket /= <<>> => Tail(toSocket) \in Seq({"message", "disconnect"})
    BY <1>0, HeadTailProperties
  <2> QED BY <1>0, <1>2, <2>1, <2>2
<1>6. queue' \in Seq({"NEW_TICK", "other"})
  <2>1. \A type \in {"NEW_TICK", "other"} : Append(queue, type) \in Seq({"NEW_TICK", "other"})
    BY <1>0, AppendProperties
  <2>2. queue /= <<>> => Tail(queue) \in Seq({"NEW_TICK", "other"})
    BY <1>0, HeadTailProperties
  <2> QED BY <1>0, <1>3, <2>1, <2>2
<1> QED BY <1>4, <1>5, <1>6

LEMMA NextClientInv == ClientInv /\ [ClientNext]_clientVars => ClientInv'
<1> SUFFICES ASSUME ClientInv, [ClientNext]_clientVars PROVE ClientInv'
  OBVIOUS
<1>0. ClientTypeOK
  BY DEF ClientInv, ChatInOrder
<1>q. /\ toGame' \in Seq({"endProcess"}) /\ toSocket' \in Seq({"message", "disconnect"})
      /\ queue' \in Seq({"NEW_TICK", "other"})
  BY <1>0, QueuesTyped
<1> USE DEF ClientInv, ChatInOrder, Numbered, CameraSet
<1>1. CASE SocketThread
  <2> USE DEF mail, shared, picture
  <2>1. ClientTypeOK'
    BY <1>0, <1>q, <1>1 DEF SocketThread, PushMessage, sendMessage, disconnectSocket, errorSocket, ClientTypeOK
  <2>2. UNCHANGED <<main, game, shared, picture>>
    BY <1>1 DEF SocketThread, PushMessage, sendMessage, disconnectSocket, errorSocket
  <2> QED BY <2>1, <2>2 DEF FrameOK
<1>2. CASE Process \/ ProcessMessage \/ NoMoreMessages
  <2> USE DEF mail, shared, picture
  <2>1. ClientTypeOK'
    BY <1>0, <1>q, <1>2 DEF Process, ProcessMessage, NoMoreMessages, ClientTypeOK
  <2>2. UNCHANGED <<main, shared, picture>> /\ game /= "off"
    BY <1>2 DEF Process, ProcessMessage, NoMoreMessages
  <2> QED BY <2>1, <2>2 DEF FrameOK
<1>3. CASE GenerateFrame
  <2> PICK k \in Contents :
        /\ game = "working" /\ queue /= <<>> /\ queue' = Tail(queue) /\ game' = "waiting" /\ frames' = frames + 1
        /\ Swap([n |-> frames + 1, entities |-> k.entities, at |-> k.at, camera |-> k.camera])
        /\ overrun' = (main = "showing")
        /\ UNCHANGED <<main, socket, mail, hidden, picture>>
    BY <1>3 DEF GenerateFrame
  <2>0. frames \in Nat
    BY DEF ClientTypeOK
  <2>1. ClientTypeOK'
    BY <1>0, <1>q DEF ClientTypeOK, Swap, mail, picture
  <2>2. FrameOK(old_frame)'
    <3> DEFINE new == [n |-> frames + 1, entities |-> k.entities, at |-> k.at, camera |-> k.camera]
    <3>1. FrameOK(new)
      BY <2>0, ContentsAreFrames
    <3>2. old_frame' = new
      BY DEF Swap
    <3> HIDE DEF new, ClientInv
    <3> QED BY <3>1, <3>2 DEF FrameOK
  <2>3. FrameOK(current_frame)'
    BY DEF FrameOK, picture
  <2>4. main /= "waiting"
    OBVIOUS
  <2>5. shown \in Seq(Nat) /\ shown' = shown /\ main' = main /\ is_updated' = TRUE /\ old_frame'.n = frames + 1
    BY DEF ClientTypeOK, picture, Swap
  <2>6. Numbered'
    <3>1. \A m \in 1..Len(shown) : shown[m] \in Nat
      BY <2>5, ElementOfSeq
    <3>2. frames' = frames + 1 /\ main' = main /\ overrun' = (main = "showing") /\ current_frame' = current_frame
      BY DEF picture
    <3>3. \A m \in 1..Len(shown) : shown[m] < frames + 1
      BY <2>0, <3>1
    <3>4. main = "showing" => current_frame.n <= frames + 1
      BY <2>0 DEF FrameOK
    <3>5. main = "showing" => \A m \in 1..Len(shown) : shown[m] < current_frame.n
      OBVIOUS
    <3>6. main = "showing" => overrun'
      BY <3>2, Zenon
    <3>7. old_frame'.n = frames' /\ \A m \in 1..Len(shown') : shown'[m] <= frames' /\ shown'[m] < frames'
      BY <2>0, <2>5, <3>1, <3>2, <3>3
    <3>8. main' = "showing" => /\ current_frame'.n <= frames' /\ overrun'
                              /\ \A m \in 1..Len(shown') : shown'[m] < current_frame'.n
      BY <2>5, <3>2, <3>4, <3>5, <3>6
    <3> HIDE DEF ClientInv
    <3> QED BY <2>4, <2>5, <3>7, <3>8
  <2>7. (/\ \A m \in 2..Len(shown) : shown[m - 1] < shown[m]
         /\ shown /= <<>> => shown[Len(shown)] <= frames)'
    BY <2>0, <2>5
  <2> QED BY <2>1, <2>2, <2>3, <2>5, <2>6, <2>7 DEF picture
<1>4. CASE startGameLoop
  <2>1. ClientTypeOK'
    BY <1>0, <1>q, <1>4 DEF startGameLoop, ClientTypeOK, mail, shared, picture
  <2> QED BY <1>4, <2>1 DEF startGameLoop, mail, shared, picture, FrameOK
<1>5. CASE HandleInput
  <2>1. ClientTypeOK'
    BY <1>0, <1>q, <1>5 DEF HandleInput, ClientTypeOK, mail, shared, picture
  <2> QED BY <1>5, <2>1 DEF HandleInput, mail, shared, picture, FrameOK
<1>6. CASE closeEvent
  <2>1. ClientTypeOK'
    BY <1>0, <1>q, <1>6 DEF closeEvent, ClientTypeOK, mail, shared, picture
  <2> QED BY <1>6, <2>1 DEF closeEvent, mail, shared, picture, FrameOK
<1>7. CASE CopyFrame
  <2>1. ClientTypeOK'
    BY <1>0, <1>q, <1>7 DEF CopyFrame, ClientTypeOK, mail, shared, picture
  <2>2. FrameOK(old_frame)' /\ FrameOK(current_frame)'
    BY <1>7 DEF CopyFrame, shared, FrameOK
  <2> QED BY <1>7, <2>1, <2>2 DEF CopyFrame, mail, shared, picture, ClientTypeOK
<1>8. CASE ShowFrame
  <2>0. /\ main = "showing" /\ main' = "loop" /\ is_updated' = FALSE /\ shown' = Append(shown, current_frame.n)
        /\ UNCHANGED <<frames, old_frame, overrun, current_frame>>
    BY <1>8 DEF ShowFrame
  <2>1. ClientTypeOK'
    <3>1. camera' \in [pos : Place, shift : Place]
      <4>1. camera \in [pos : Place, shift : Place] /\ current_frame.camera \in Place
        BY DEF ClientTypeOK, FrameOK
      <4> QED BY <1>8, <4>1, CameraType DEF ShowFrame
    <3>2. current_frame_id \in Nat /\ views \in [Ids -> [frame_id : Nat, at : Place]] /\ current_frame.n \in Nat
      BY DEF ClientTypeOK, FrameOK
    <3>3. \A en \in InFrame : Pixels(current_frame.at[en]) \in Place
      BY PixelsType DEF FrameOK, InFrame
    <3>4. views' \in [Ids -> [frame_id : Nat, at : Place]]
      BY <1>8, <3>2, <3>3 DEF ShowFrame
    <3>5. shown' \in Seq(Nat)
      BY <1>0, <2>0, <3>2, AppendProperties DEF ClientTypeOK
    <3>6. current_frame_id' \in Nat /\ UNCHANGED <<game, socket, hidden>>
      BY <1>8, <3>2 DEF ShowFrame
    <3>7. game \in {"off", "waiting", "working", "ended"} /\ socket \in {"running", "ended"} /\ hidden \in BOOLEAN
          /\ frames \in Nat /\ overrun \in BOOLEAN
      BY <1>0 DEF ClientTypeOK
    <3> HIDE DEF ClientInv
    <3> QED BY <1>q, <2>0, <3>1, <3>4, <3>5, <3>6, <3>7 DEF ClientTypeOK
  <2>2. FrameOK(old_frame)' /\ FrameOK(current_frame)'
    BY <2>0 DEF FrameOK
  <2>3. camera'.pos = current_frame'.camera
    BY <1>8, CameraType DEF ShowFrame, ClientTypeOK, FrameOK
  <2>4. shown \in Seq(Nat) /\ current_frame.n \in Nat /\ frames \in Nat
    BY DEF ClientTypeOK, FrameOK
  <2>5. /\ Len(shown') = Len(shown) + 1 /\ shown' /= <<>>
        /\ shown'[Len(shown')] = current_frame.n
        /\ \A m \in 1..Len(shown) : shown'[m] = shown[m]
    BY <2>0, <2>4
  <2>6. \A m \in 1..Len(shown') : shown'[m] <= frames
    BY <2>0, <2>4, <2>5
  <2>7. \A m \in 2..Len(shown') : shown'[m - 1] < shown'[m]
    <3> SUFFICES ASSUME NEW m \in 2..Len(shown') PROVE shown'[m - 1] < shown'[m]
      OBVIOUS
    <3>1. CASE m <= Len(shown)
      BY <2>4, <2>5, <3>1
    <3>2. CASE m = Len(shown) + 1
      BY <2>0, <2>4, <2>5, <3>2
    <3> QED BY <2>4, <2>5, <3>1, <3>2
  <2>8. Numbered'
    BY <2>0, <2>6
  <2>9. (main = "loop" /\ ~is_updated /\ ~overrun /\ frames > 0 => shown /= <<>> /\ shown[Len(shown)] = frames)'
    BY <2>0, <2>5
  <2> QED BY <2>0, <2>1, <2>2, <2>3, <2>5, <2>6, <2>7, <2>8, <2>9
<1>9. CASE PerformPixelMovement
  <2>0. /\ main = "loop" /\ camera' = CameraGlides(camera)
        /\ UNCHANGED <<main, game, socket, mail, queue, hidden, shared, current_frame, current_frame_id, shown>>
    BY <1>9 DEF PerformPixelMovement
  <2>1. camera' \in [pos : Place, shift : Place] /\ camera'.pos = camera.pos
    <3>1. camera \in [pos : Place, shift : Place] /\ camera.pos \in Place
      BY DEF ClientTypeOK
    <3> QED BY <2>0, <3>1, CameraType
  <2>2. views' \in [Ids -> [frame_id : Nat, at : Place]]
    <3>1. views \in [Ids -> [frame_id : Nat, at : Place]]
      BY DEF ClientTypeOK
    <3>2. \A en \in InFrame : en \in Ids => Glide(views[en].at, Pixels(current_frame.at[en])) \in Place
      BY <3>1, GlideType, PixelsType DEF FrameOK, InFrame
    <3> QED BY <1>9, <3>1, <3>2 DEF PerformPixelMovement
  <2>3. ClientTypeOK'
    BY <1>0, <1>q, <2>0, <2>1, <2>2 DEF ClientTypeOK, shared
  <2> QED BY <2>0, <2>1, <2>3 DEF mail, shared, FrameOK
<1>10. CASE EndLoop \/ WaitForExit \/ Disconnect
  <2> USE DEF mail, shared, picture
  <2>1. ClientTypeOK'
    BY <1>0, <1>q, <1>10 DEF EndLoop, WaitForExit, Disconnect, ClientTypeOK
  <2>2. /\ UNCHANGED <<shared, picture>> /\ main /= "waiting" /\ main /= "showing"
        /\ main' \in {"closing", "leaving", "done"}
    BY <1>10 DEF EndLoop, WaitForExit, Disconnect
  <2> QED BY <2>1, <2>2 DEF FrameOK
<1>11. CASE UNCHANGED clientVars
  BY <1>11 DEF clientVars, mail, shared, picture, ClientTypeOK, FrameOK
<1> QED BY <1>1, <1>2, <1>3, <1>4, <1>5, <1>6, <1>7, <1>8, <1>9, <1>10, <1>11
        DEF ClientNext, GameThread, MainThread

\* A click hits what the user sees on top (Representation::Click against Draw).
THEOREM ClicksHitTop == ClientSpec => []ClickHitsTop
<1>1. ClientInv => ClickHitsTop
  <2> SUFFICES ASSUME ClientInv, NEW opaque \in SUBSET (1..Len(current_frame.entities)),
                      NEW m \in Clickable(current_frame.entities, opaque), m /= Picked(current_frame.entities, opaque)
               PROVE  DrawnAfter(current_frame.entities, Picked(current_frame.entities, opaque), m)
    BY DEF ClickHitsTop
  <2>1. current_frame.entities \in Seq([id : Ids, click : BOOLEAN, level : Nat])
    BY DEF ClientInv, FrameOK
  <2> QED BY <2>1, PickedIsOnTop
<1> QED BY <1>1, InitClientInv, NextClientInv, PTL DEF ClientSpec

\* Chat and sounds are shown in order, each once, and nothing that came in time
\* is left out (Representation::Swap and SynchronizeViews).
THEOREM ChatIsInOrder == ClientSpec => []ChatInOrder
<1>1. ClientInit => ClientInv
  BY InitClientInv
<1>2. ClientInv /\ [ClientNext]_clientVars => ClientInv'
  BY NextClientInv
<1>3. ClientInv => ChatInOrder
  BY DEF ClientInv
<1> QED BY <1>1, <1>2, <1>3, PTL DEF ClientSpec

\* Once it has caught up, the camera stays on the player's mob while the mob is
\* in view: both glide by the same pixels (Camera and PerformPixelMovement).
THEOREM CameraStaysOnMob == ClientSpec => CameraOnMob
<1>1. ASSUME ClientInv, [ClientNext]_clientVars, Me \in InFrame, views[Me].frame_id = current_frame_id, OnMob
      PROVE  OnMob'
  <2>0. /\ camera \in [pos : Place, shift : Place] /\ views \in [Ids -> [frame_id : Nat, at : Place]]
        /\ Me \in Ids /\ current_frame.camera \in Place /\ current_frame.at[Me] = current_frame.camera
    BY <1>1, TileSizeType DEF ClientInv, ChatInOrder, ClientTypeOK, FrameOK, InFrame
  <2>1. CASE ShowFrame
    <3>1. views'[Me].at = views[Me].at
      BY <1>1, <2>0, <2>1 DEF ShowFrame
    <3>2. FullShift(camera') = FullShift(camera)
      BY <2>0, <2>1, SetPosKeepsShift DEF ShowFrame
    <3> QED BY <1>1, <3>1, <3>2 DEF OnMob
  <2>2. CASE PerformPixelMovement
    <3>1. camera.pos = current_frame.camera
      BY <1>1, <2>2 DEF ClientInv, CameraSet, PerformPixelMovement
    <3>2. views'[Me].at = Glide(views[Me].at, Pixels(current_frame.camera))
      BY <1>1, <2>0, <2>2 DEF PerformPixelMovement
    <3>3. FullShift(camera') = Glide(FullShift(camera), Pixels(camera.pos))
      BY <2>0, <2>2, CameraGlidesAlong DEF PerformPixelMovement
    <3> QED BY <1>1, <3>1, <3>2, <3>3 DEF OnMob
  <2>3. CASE UNCHANGED <<views, camera>>
    BY <1>1, <2>3 DEF OnMob, FullShift
  <2>4. ShowFrame \/ PerformPixelMovement \/ UNCHANGED <<views, camera>>
    BY <1>1 DEF ClientNext, SocketThread, GameThread, MainThread, PushMessage, sendMessage, disconnectSocket, errorSocket,
                Process, ProcessMessage, NoMoreMessages, GenerateFrame, startGameLoop, HandleInput, closeEvent,
                CopyFrame, EndLoop, WaitForExit, Disconnect, clientVars, picture
  <2> QED BY <2>1, <2>2, <2>3, <2>4
<1>2. ClientInv /\ [ClientNext]_clientVars =>
      [(Me \in InFrame /\ views[Me].frame_id = current_frame_id /\ OnMob) => OnMob']_clientVars
  BY <1>1
<1> QED BY <1>2, InitClientInv, NextClientInv, PTL DEF ClientSpec, CameraOnMob
-----------------------------------------------------------------------------
(* The objects of the world.                                               *)

ListInv == ListMatchesLookup /\ DueListed

RestInv ==
  /\ stage \in {"generate", "finish", "idle"} => doomed = <<>> /\ ran = {} /\ hearers \subseteq live
  /\ hearers \cap live = hearing \cap live
  /\ hearers \cup hearing \subseteq 1..(id - 1)

\* An object that is due still asks for this turn.
DueStands == \A o \in due : IsDue(o, tick)

WalkInv ==
  /\ stage \in {"walk", "process"} =>
       /\ end <= Len(objects)
       /\ DueStands
  /\ stage = "walk" =>
       /\ i <= end + 1
       /\ \A o \in ran : \E j \in 1..end : objects[j] = o /\ j < i
       /\ \A o \in due \ ran : \E j \in 1..end : objects[j] = o /\ i <= j
  /\ stage = "process" =>
       /\ i <= end
       /\ objects[i] \notin freed
       /\ \A o \in ran : \E j \in 1..end : objects[j] = o /\ j <= i
       /\ \A o \in due \ ran : \E j \in 1..end : objects[j] = o /\ i < j
  /\ WalkIsComplete

ObjInv == TypeOK /\ ListInv /\ FreedOnce /\ RestInv /\ WalkInv

-----------------------------------------------------------------------------
(* The list.                                                               *)

\* Add keeps the list and its lookup in step, and no entry moves.
LEMMA AddKeepsList ==
  ASSUME objects \in Seq(Id), lookup \subseteq Id, ListMatchesLookup, NEW o \in Id, Add(o)
  PROVE  /\ objects' \in Seq(Id)
         /\ lookup' \subseteq Id
         /\ ListMatchesLookup'
         /\ ToSet(objects)' = ToSet(objects) \cup {o}
         /\ Len(objects) <= Len(objects')
         /\ \A j \in 1..Len(objects) : objects'[j] = objects[j]
<1>1. CASE o \in lookup
  BY <1>1 DEF Add, ListMatchesLookup, processor, ToSet
<1>2. CASE o \notin lookup
  <2>1. objects' = Append(objects, o) /\ lookup' = lookup \cup {o}
    BY <1>2 DEF Add
  <2>2. /\ objects' \in Seq(Id)
        /\ Len(objects') = Len(objects) + 1
        /\ objects'[Len(objects) + 1] = o
        /\ \A j \in 1..Len(objects) : objects'[j] = objects[j]
    BY <2>1
  <2>3. DOMAIN objects = 1..Len(objects) /\ DOMAIN objects' = 1..(Len(objects) + 1)
    BY <2>2
  <2>4. ToSet(objects)' = ToSet(objects) \cup {o}
    BY <2>2, <2>3 DEF ToSet
  <2>5. \A j \in 1..Len(objects) : objects[j] # o
    BY <1>2, <2>3 DEF ListMatchesLookup, ToSet
  <2>6. ListMatchesLookup'
    BY <2>1, <2>2, <2>4, <2>5 DEF ListMatchesLookup
  <2> QED
    BY <2>1, <2>2, <2>4, <2>6
<1> QED
  BY <1>1, <1>2

\* SetFreq lists the object it gives turns to.
LEMMA SetFreqKeepsList ==
  ASSUME objects \in Seq(Id), lookup \subseteq Id, ListMatchesLookup, freq \in [Id -> Freq],
         NEW o \in Id, NEW f \in Freq, SetFreq(o, f)
  PROVE  /\ objects' \in Seq(Id)
         /\ lookup' \subseteq Id
         /\ freq' \in [Id -> Freq]
         /\ ListMatchesLookup'
         /\ ToSet(objects) \subseteq ToSet(objects)'
         /\ f # 0 => o \in ToSet(objects)'
         /\ freq'[o] = f
         /\ \A p \in Id \ {o} : freq'[p] = freq[p]
         /\ Len(objects) <= Len(objects')
         /\ \A j \in 1..Len(objects) : objects'[j] = objects[j]
<1>1. /\ freq' \in [Id -> Freq]
      /\ freq'[o] = f
      /\ \A p \in Id \ {o} : freq'[p] = freq[p]
  BY DEF SetFreq
<1>2. CASE f # 0
  <2>1. Add(o)
    BY <1>2 DEF SetFreq
  <2> QED
    BY <1>1, <2>1, AddKeepsList
<1>3. CASE f = 0
  BY <1>1, <1>3 DEF SetFreq, processor, ListMatchesLookup, ToSet
<1> QED
  BY <1>2, <1>3

\* RunProcess takes one entry off the list and out of the lookup.
LEMMA UnlistKeepsList ==
  ASSUME objects \in Seq(Id), lookup \subseteq Id, ListMatchesLookup, i \in 1..Len(objects), Unlist
  PROVE  /\ objects' \in Seq(Id)
         /\ lookup' \subseteq Id
         /\ ListMatchesLookup'
         /\ ToSet(objects)' = ToSet(objects) \ {objects[i]}
<1> DEFINE n == Len(objects)
<1>1. objects' = [j \in 1..(n - 1) |-> IF j = i THEN objects[n] ELSE objects[j]]
  BY DEF Unlist, Last
<1>2. /\ n \in Nat
      /\ i \in 1..n
      /\ DOMAIN objects = 1..n
      /\ \A j \in 1..n : objects[j] \in Id
  OBVIOUS
<1>3. objects' \in Seq(Id) /\ Len(objects') = n - 1 /\ DOMAIN objects' = 1..(n - 1)
  <2>1. objects' \in [1..(n - 1) -> Id]
    BY <1>1, <1>2
  <2>2. n - 1 \in Nat
    BY <1>2
  <2> QED
    BY <2>1, <2>2
<1>4. \A j, k \in 1..n : objects[j] = objects[k] => j = k
  BY DEF ListMatchesLookup
<1> HIDE DEF n
<1>5. \A j, k \in 1..(n - 1) : objects'[j] = objects'[k] => j = k
  BY <1>1, <1>2, <1>4
<1>6. ToSet(objects)' = ToSet(objects) \ {objects[i]}
  <2>1. ASSUME NEW o \in ToSet(objects)'
        PROVE  o \in ToSet(objects) \ {objects[i]}
    <3>1. PICK j \in 1..(n - 1) : o = objects'[j]
      BY <1>3 DEF ToSet
    <3>2. CASE j = i
      BY <1>1, <1>2, <1>4, <3>1, <3>2 DEF ToSet
    <3>3. CASE j # i
      BY <1>1, <1>2, <1>4, <3>1, <3>3 DEF ToSet
    <3> QED
      BY <3>2, <3>3
  <2>2. ASSUME NEW o \in ToSet(objects) \ {objects[i]}
        PROVE  o \in ToSet(objects)'
    <3>1. PICK j \in 1..n : o = objects[j]
      BY <1>2 DEF ToSet
    <3>2. j # i
      BY <3>1
    <3>3. CASE j = n
      <4>1. i \in 1..(n - 1)
        BY <1>2, <3>2, <3>3
      <4>2. objects'[i] = o
        BY <1>1, <3>1, <3>3, <4>1
      <4> QED
        BY <1>3, <4>1, <4>2 DEF ToSet
    <3>4. CASE j # n
      <4>1. j \in 1..(n - 1)
        BY <1>2, <3>4
      <4>2. objects'[j] = o
        BY <1>1, <3>1, <3>2, <4>1
      <4> QED
        BY <1>3, <4>1, <4>2 DEF ToSet
    <3> QED
      BY <3>3, <3>4
  <2> QED
    BY <2>1, <2>2
<1>7. lookup' = lookup \ {objects[i]}
  BY DEF Unlist
<1> QED
  BY <1>3, <1>5, <1>6, <1>7 DEF ListMatchesLookup

\* A list without repetition is no longer than there are ids.
LEMMA ListFits ==
  ASSUME objects \in Seq(Id), \A j, k \in 1..Len(objects) : objects[j] = objects[k] => j = k
  PROVE  Len(objects) \in 0..MaxId
<1> DEFINE n == Len(objects)
<1>1. n \in Nat /\ MaxId \in Nat
  BY ObjectsAssumption
<1>2. IsFiniteSet(Id) /\ Cardinality(Id) = MaxId
  BY <1>1, FS_Interval DEF Id
<1>3. IsFiniteSet(1..n) /\ Cardinality(1..n) = n
  <2> HIDE DEF n
  <2>1. IsFiniteSet(1..n) /\ Cardinality(1..n) = IF 1 > n THEN 0 ELSE n - 1 + 1
    BY <1>1, FS_Interval
  <2> QED
    BY <1>1, <2>1
<1>4. objects \in Injection(1..n, Id)
  BY DEF Injection, IsInjective
<1>5. Cardinality(1..n) <= Cardinality(Id)
  BY <1>2, <1>3, <1>4, FS_Injection
<1> QED
  BY <1>1, <1>2, <1>3, <1>5

-----------------------------------------------------------------------------
(* Every step keeps the type, the list and the life of an id.              *)

LEMMA InitObj == Init => ObjInv
<1> SUFFICES ASSUME Init PROVE ObjInv
  OBVIOUS
<1>1. TypeOK
  <2>1. /\ 1 \in 1..(MaxId + 1)
        /\ 0 \in 0..MaxId
        /\ 0 \in 0..(TickPeriod - 1)
        /\ 0 \in Freq
    BY ObjectsAssumption
  <2>2. doomed \in Seq(Id) /\ objects \in Seq(Id)
    BY DEF Init
  <2>3. freq \in [Id -> Freq]
    BY <2>1 DEF Init
  <2> QED
    BY <2>1, <2>2, <2>3 DEF Init, TypeOK
<1>2. ListInv /\ FreedOnce /\ RestInv /\ WalkInv
  BY DEF Init, ListInv, ListMatchesLookup, DueListed, FreedOnce, RestInv, WalkInv, WalkIsComplete, ToSet
<1> QED
  BY <1>1, <1>2 DEF ObjInv

LEMMA TypeStep == ObjInv /\ [Next]_vars => TypeOK'
<1> SUFFICES ASSUME ObjInv, [Next]_vars PROVE TypeOK'
  OBVIOUS
<1> USE DEF ObjInv, ListInv
<1>1. ASSUME NEW o \in Id, NEW f \in Freq, ObjectSetsFreq(o, f) PROVE TypeOK'
  <2>1. objects' \in Seq(Id) /\ lookup' \subseteq Id /\ freq' \in [Id -> Freq]
    BY <1>1, SetFreqKeepsList DEF TypeOK, ObjectSetsFreq
  <2> QED
    BY <1>1, <2>1 DEF TypeOK, ObjectSetsFreq, loop
<1>2. ASSUME NEW f \in Freq, NEW hears \in BOOLEAN, CreateImpl(f, hears) PROVE TypeOK'
  <2>1. id \in Id /\ id + 1 \in 1..(MaxId + 1)
    BY <1>2, ObjectsAssumption DEF TypeOK, CreateImpl, Create, Id
  <2>2. objects' \in Seq(Id) /\ lookup' \subseteq Id /\ freq' \in [Id -> Freq]
    BY <1>2, <2>1, SetFreqKeepsList DEF TypeOK, CreateImpl, Create
  <2> QED
    BY <1>2, <2>1, <2>2 DEF TypeOK, CreateImpl, Create, loop
<1>3. ASSUME NEW o \in Id, ObjectDeletes(o) PROVE TypeOK'
  <2>1. doomed' \in Seq(Id)
    BY <1>3 DEF TypeOK, ObjectDeletes, DeleteLater
  <2> QED
    BY <1>3, <2>1 DEF TypeOK, ObjectDeletes, DeleteLater, loop, processor
<1>4. CASE FinishWorldCreation
  BY <1>4, ObjectsAssumption DEF TypeOK, FinishWorldCreation, table, processor, history, Id
<1>5. CASE FinishObject
  <2>1. i \in Id /\ i + 1 \in 1..(MaxId + 1)
    BY <1>5, ObjectsAssumption DEF TypeOK, FinishObject, Id
  <2>2. objects' \in Seq(Id) /\ lookup' \subseteq Id /\ freq' \in [Id -> Freq]
    <3>1. CASE i \in live
      <4>1. PICK f \in Freq : SetFreq(i, f)
        BY <1>5, <3>1 DEF FinishObject
      <4> QED
        BY <2>1, <4>1, SetFreqKeepsList DEF TypeOK
    <3>2. CASE i \notin live
      BY <1>5, <3>2 DEF TypeOK, FinishObject, processor
    <3> QED
      BY <3>1, <3>2
  <2> QED
    BY <1>5, <2>1, <2>2 DEF TypeOK, FinishObject, history
<1>6. CASE WorldCreated
  BY <1>6, ObjectsAssumption DEF TypeOK, WorldCreated, LeaveLoop, table, processor, history
<1>7. CASE StartTick
  <2>1. tick' \in 0..(TickPeriod - 1)
    BY <1>7, ObjectsAssumption DEF TypeOK, StartTick
  <2>2. due' \subseteq Id
    BY <1>7 DEF TypeOK, StartTick, ToSet
  <2>3. end' \in 0..MaxId
    <3>1. \A j, k \in 1..Len(objects) : objects[j] = objects[k] => j = k
      BY DEF ListMatchesLookup
    <3> QED
      BY <1>7, <3>1, ListFits DEF TypeOK, StartTick
  <2> QED
    BY <1>7, <2>1, <2>2, <2>3, ObjectsAssumption DEF TypeOK, StartTick, table, processor
<1>8. CASE RemoveStale
  <2>1. i \in 1..Len(objects)
    BY <1>8 DEF TypeOK, RemoveStale, Walking, WalkInv
  <2>2. objects' \in Seq(Id) /\ lookup' \subseteq Id
    BY <1>8, <2>1, UnlistKeepsList DEF TypeOK, RemoveStale
  <2> QED
    BY <1>8, <2>2, ObjectsAssumption DEF TypeOK, RemoveStale, LeaveLoop, table
<1>9. CASE SkipObject
  BY <1>9, ObjectsAssumption DEF TypeOK, SkipObject, Walking, table, processor, history
<1>10. CASE ProcessObject
  <2>1. objects[i] \in Id
    BY <1>10 DEF TypeOK, ProcessObject, Walking, WalkInv
  <2> QED
    BY <1>10, <2>1 DEF TypeOK, ProcessObject, table, processor, loop
<1>11. CASE ProcessReturns
  BY <1>11, ObjectsAssumption DEF TypeOK, ProcessReturns, WalkInv, table, processor, history
<1>12. CASE WalkEnds
  BY <1>12, ObjectsAssumption DEF TypeOK, WalkEnds, LeaveLoop, table, processor, history
<1>13. CASE FinishTick
  <2>1. ToSet(doomed) \subseteq Id
    BY DEF TypeOK, ToSet
  <2>2. doomed' \in Seq(Id) /\ freed' \subseteq Id
    BY <1>13, <2>1 DEF TypeOK, FinishTick, ProcessDeletion
  <2>3. hearers' \subseteq Id
    BY <1>13 DEF TypeOK, FinishTick, ProcessHearers
  <2>4. ran' \subseteq Id /\ due' \subseteq Id /\ cut' \in BOOLEAN /\ stage' = "idle"
    BY <1>13 DEF FinishTick
  <2>5. UNCHANGED <<live, freq, id, objects, lookup, tick, i, end, hearing>>
    BY <1>13 DEF FinishTick, processor, loop
  <2> QED
    BY <2>2, <2>3, <2>4, <2>5 DEF TypeOK
<1>14. CASE UNCHANGED vars
  BY <1>14 DEF TypeOK, vars, table, processor, loop, history
<1> QED
  BY <1>1, <1>2, <1>3, <1>4, <1>5, <1>6, <1>7, <1>8, <1>9, <1>10, <1>11, <1>12, <1>13, <1>14 DEF Next, Callback

LEMMA ListStep == ObjInv /\ [Next]_vars => ListInv'
<1> SUFFICES ASSUME ObjInv, [Next]_vars PROVE ListInv'
  OBVIOUS
<1> USE DEF ObjInv, ListInv
<1>1. ASSUME NEW o \in Id, NEW f \in Freq, SetFreq(o, f), live' \in {live, live \cup {o}} PROVE ListInv'
  <2>1. /\ ListMatchesLookup'
        /\ ToSet(objects) \subseteq ToSet(objects)'
        /\ f # 0 => o \in ToSet(objects)'
        /\ freq'[o] = f
        /\ \A p \in Id \ {o} : freq'[p] = freq[p]
    BY <1>1, SetFreqKeepsList DEF TypeOK
  <2>2. DueListed'
    BY <1>1, <2>1 DEF DueListed, TypeOK
  <2> QED
    BY <2>1, <2>2
<1>2. ASSUME UNCHANGED <<processor, freq>>, live' \subseteq live PROVE ListInv'
  BY <1>2 DEF ListMatchesLookup, DueListed, ToSet, processor
<1>3. ASSUME NEW o \in Id, NEW f \in Freq, ObjectSetsFreq(o, f) PROVE ListInv'
  BY <1>1, <1>3 DEF ObjectSetsFreq
<1>4. ASSUME NEW f \in Freq, NEW hears \in BOOLEAN, CreateImpl(f, hears) PROVE ListInv'
  <2>1. id \in Id
    BY <1>4, ObjectsAssumption DEF TypeOK, CreateImpl, Create, Id
  <2> QED
    BY <1>1, <1>4, <2>1 DEF CreateImpl, Create
<1>5. ASSUME NEW o \in Id, ObjectDeletes(o) PROVE ListInv'
  BY <1>2, <1>5 DEF ObjectDeletes, DeleteLater
<1>6. CASE FinishObject
  <2>1. CASE i \in live
    BY <1>1, <1>6, <2>1 DEF FinishObject, TypeOK
  <2>2. CASE i \notin live
    BY <1>2, <1>6, <2>2 DEF FinishObject
  <2> QED
    BY <2>1, <2>2
<1>7. CASE RemoveStale
  <2>1. i \in 1..Len(objects) /\ IsStale(objects[i]) /\ Unlist /\ UNCHANGED table
    BY <1>7 DEF TypeOK, RemoveStale, Walking, WalkInv
  <2>2. ListMatchesLookup' /\ ToSet(objects)' = ToSet(objects) \ {objects[i]}
    BY <2>1, UnlistKeepsList DEF TypeOK
  <2> QED
    BY <2>1, <2>2 DEF DueListed, IsStale, table
<1>8. CASE FinishWorldCreation \/ WorldCreated \/ StartTick \/ SkipObject \/ ProcessObject \/ ProcessReturns \/ WalkEnds \/ FinishTick \/ UNCHANGED vars
  <2>1. UNCHANGED <<processor, freq, live>>
    BY <1>8 DEF FinishWorldCreation, WorldCreated, StartTick, SkipObject, ProcessObject, ProcessReturns, WalkEnds, FinishTick, table, vars
  <2> QED
    BY <1>2, <2>1
<1> QED
  BY <1>3, <1>4, <1>5, <1>6, <1>7, <1>8 DEF Next, Callback

LEMMA FreedStep == ObjInv /\ [Next]_vars => FreedOnce'
<1> SUFFICES ASSUME ObjInv, [Next]_vars PROVE FreedOnce'
  OBVIOUS
<1> USE DEF ObjInv
<1>1. ASSUME UNCHANGED <<live, id, doomed, freed>> PROVE FreedOnce'
  BY <1>1 DEF FreedOnce, ToSet
<1>2. ASSUME NEW f \in Freq, NEW hears \in BOOLEAN, CreateImpl(f, hears) PROVE FreedOnce'
  <2>1. live' = live \cup {id} /\ id' = id + 1 /\ UNCHANGED <<doomed, freed>> /\ id \in Nat \ {0}
    BY <1>2 DEF CreateImpl, Create, TypeOK
  <2>2. id \notin 1..(id - 1) /\ 1..(id' - 1) = 1..(id - 1) \cup {id}
    BY <2>1
  <2>3. ToSet(doomed)' = ToSet(doomed)
    BY <2>1 DEF ToSet
  <2> QED
    BY <2>1, <2>2, <2>3 DEF FreedOnce
<1>3. ASSUME NEW o \in Id, ObjectDeletes(o) PROVE FreedOnce'
  <2>1. CASE o \notin live
    <3>1. UNCHANGED <<live, id, doomed, freed>>
      BY <1>3, <2>1 DEF ObjectDeletes, DeleteLater
    <3> QED
      BY <1>1, <3>1
  <2>2. CASE o \in live
    <3>1. live' = live \ {o} /\ doomed' = Append(doomed, o) /\ UNCHANGED <<id, freed>>
      BY <1>3, <2>2 DEF ObjectDeletes, DeleteLater
    <3>2. /\ doomed \in Seq(Id)
          /\ Len(doomed') = Len(doomed) + 1
          /\ doomed'[Len(doomed) + 1] = o
          /\ \A j \in 1..Len(doomed) : doomed'[j] = doomed[j]
          /\ DOMAIN doomed = 1..Len(doomed)
          /\ DOMAIN doomed' = 1..(Len(doomed) + 1)
      BY <3>1 DEF TypeOK
    <3>3. ToSet(doomed)' = ToSet(doomed) \cup {o}
      BY <3>2 DEF ToSet
    <3>4. \A j \in 1..Len(doomed) : doomed[j] # o
      BY <2>2, <3>2 DEF FreedOnce, ToSet
    <3>5. \A j, k \in 1..Len(doomed') : doomed'[j] = doomed'[k] => j = k
      BY <3>2, <3>4 DEF FreedOnce
    <3> QED
      BY <2>2, <3>1, <3>3, <3>5 DEF FreedOnce
  <2> QED
    BY <2>1, <2>2
<1>4. CASE FinishTick
  <2>1. /\ freed' = freed \cup ToSet(doomed)
        /\ doomed' = <<>>
        /\ ToSet(doomed)' = {}
        /\ UNCHANGED <<live, id>>
    BY <1>4 DEF FinishTick, ProcessDeletion, ToSet
  <2> QED
    BY <2>1 DEF FreedOnce
<1>5. ASSUME NEW o \in Id, NEW f \in Freq, ObjectSetsFreq(o, f) PROVE FreedOnce'
  BY <1>1, <1>5 DEF ObjectSetsFreq
<1>6. CASE FinishWorldCreation \/ FinishObject \/ WorldCreated \/ StartTick \/ RemoveStale \/ SkipObject \/ ProcessObject \/ ProcessReturns \/ WalkEnds \/ UNCHANGED vars
  <2>1. UNCHANGED <<live, id, doomed, freed>>
    BY <1>6 DEF FinishWorldCreation, FinishObject, WorldCreated, StartTick, RemoveStale, SkipObject, ProcessObject, ProcessReturns, WalkEnds, table, history, vars
  <2> QED
    BY <1>1, <2>1
<1> QED
  BY <1>2, <1>3, <1>4, <1>5, <1>6 DEF Next, Callback

LEMMA RestStep == ObjInv /\ [Next]_vars => RestInv'
<1> SUFFICES ASSUME ObjInv, [Next]_vars PROVE RestInv'
  OBVIOUS
<1> USE DEF ObjInv, RestInv
<1>1. ASSUME NEW o \in Id, NEW f \in Freq, ObjectSetsFreq(o, f) PROVE RestInv'
  BY <1>1 DEF ObjectSetsFreq
<1>2. ASSUME NEW f \in Freq, NEW hears \in BOOLEAN, CreateImpl(f, hears) PROVE RestInv'
  <2>1. id \in Nat /\ id \notin 1..(id - 1) /\ 1..(id - 1) \subseteq 1..(id + 1 - 1) /\ id \in 1..(id + 1 - 1)
    BY DEF TypeOK
  <2>2. id \notin hearers \cup hearing
    BY <2>1
  <2>3. live' = live \cup {id} /\ id' = id + 1 /\ UNCHANGED <<doomed, ran, stage>>
    BY <1>2 DEF CreateImpl, Create
  <2>4. \/ hearers' = hearers \cup {id} /\ hearing' = hearing \cup {id}
        \/ UNCHANGED <<hearers, hearing>>
    BY <1>2 DEF CreateImpl, Create
  <2>5. hearers' \cup hearing' \subseteq 1..(id' - 1)
    BY <2>1, <2>3, <2>4
  <2>6. hearers' \cap live' = hearing' \cap live'
    BY <2>2, <2>3, <2>4
  <2> QED
    BY <2>3, <2>4, <2>5, <2>6
<1>3. ASSUME NEW o \in Id, ObjectDeletes(o) PROVE RestInv'
  BY <1>3 DEF ObjectDeletes, DeleteLater
<1>4. CASE FinishTick
  BY <1>4 DEF FinishTick, ProcessHearers, ProcessDeletion
<1>5. CASE StartTick \/ RemoveStale \/ SkipObject \/ ProcessObject \/ ProcessReturns \/ WalkEnds
  BY <1>5 DEF StartTick, RemoveStale, SkipObject, Walking, ProcessObject, ProcessReturns, WalkEnds, LeaveLoop, table, history
<1>6. CASE FinishWorldCreation \/ FinishObject \/ WorldCreated \/ UNCHANGED vars
  BY <1>6 DEF FinishWorldCreation, FinishObject, WorldCreated, LeaveLoop, table, history, vars
<1> QED
  BY <1>1, <1>2, <1>3, <1>4, <1>5, <1>6 DEF Next, Callback

-----------------------------------------------------------------------------
(* Where the walk stands.                                                  *)

\* A callback moves no entry of the list, frees nothing, and takes the objects
\* it disturbs off those that are due.
Undisturbing ==
  /\ UNCHANGED <<stage, i, end, tick, freed, ran, cut>>
  /\ Len(objects) <= Len(objects')
  /\ \A j \in 1..Len(objects) : objects'[j] = objects[j]
  /\ due' \subseteq due
  /\ \A o \in due' : o \in live => o \in live' /\ freq'[o] = freq[o]

LEMMA WalkUndisturbed == ObjInv /\ Undisturbing => WalkInv'
<1> SUFFICES ASSUME ObjInv, Undisturbing PROVE WalkInv'
  OBVIOUS
<1> USE DEF ObjInv, Undisturbing
<1>1. Len(objects) \in Nat /\ Len(objects') \in Int /\ end \in Int /\ i \in Int
  BY DEF TypeOK
<1>2. ASSUME stage \in {"walk", "process"}
      PROVE  /\ end' <= Len(objects')
             /\ DueStands'
             /\ \A j \in 1..end : objects'[j] = objects[j]
  BY <1>1, <1>2 DEF WalkInv, DueStands, IsDue
<1>3. CASE stage = "walk"
  BY <1>1, <1>2, <1>3 DEF WalkInv, WalkIsComplete
<1>4. CASE stage = "process"
  <2>1. i \in 1..end
    BY <1>1, <1>4 DEF WalkInv, TypeOK
  <2>2. objects'[i] \notin freed
    BY <1>2, <1>4, <2>1 DEF WalkInv
  <2> QED
    BY <1>1, <1>2, <1>4, <2>2 DEF WalkInv, WalkIsComplete
<1>5. CASE stage \notin {"walk", "process"}
  BY <1>5 DEF WalkInv, WalkIsComplete
<1> QED
  BY <1>3, <1>4, <1>5

LEMMA WalkStep == ObjInv /\ [Next]_vars => WalkInv'
<1> SUFFICES ASSUME ObjInv, [Next]_vars PROVE WalkInv'
  OBVIOUS
<1> USE DEF ObjInv, ListInv
<1>1. ASSUME NEW o \in Id, NEW f \in Freq, ObjectSetsFreq(o, f) PROVE WalkInv'
  <2>1. /\ Len(objects) <= Len(objects')
        /\ \A j \in 1..Len(objects) : objects'[j] = objects[j]
        /\ \A p \in Id \ {o} : freq'[p] = freq[p]
    BY <1>1, SetFreqKeepsList DEF TypeOK, ObjectSetsFreq
  <2>2. Undisturbing
    BY <1>1, <2>1 DEF ObjectSetsFreq, Undisturbing, loop, TypeOK
  <2> QED
    BY <2>2, WalkUndisturbed
<1>2. ASSUME NEW f \in Freq, NEW hears \in BOOLEAN, CreateImpl(f, hears) PROVE WalkInv'
  <2>1. id \in Id /\ id \notin live
    BY <1>2, ObjectsAssumption DEF CreateImpl, Create, TypeOK, FreedOnce, Id
  <2>2. /\ Len(objects) <= Len(objects')
        /\ \A j \in 1..Len(objects) : objects'[j] = objects[j]
        /\ \A p \in Id \ {id} : freq'[p] = freq[p]
    BY <1>2, <2>1, SetFreqKeepsList DEF TypeOK, CreateImpl, Create
  <2>3. Undisturbing
    BY <1>2, <2>1, <2>2 DEF CreateImpl, Create, Undisturbing, loop, TypeOK
  <2> QED
    BY <2>3, WalkUndisturbed
<1>3. ASSUME NEW o \in Id, ObjectDeletes(o) PROVE WalkInv'
  <2>1. Undisturbing
    BY <1>3 DEF ObjectDeletes, DeleteLater, Undisturbing, loop, processor, TypeOK
  <2> QED
    BY <2>1, WalkUndisturbed
<1>4. CASE StartTick
  <2>1. /\ stage' = "walk" /\ i' = 1 /\ end' = Len(objects) /\ ran' = {}
        /\ due' = {o \in ToSet(objects) : IsDue(o, tick')}
        /\ UNCHANGED <<live, freq, objects>>
    BY <1>4 DEF StartTick, RestInv, table, processor
  <2>2. Len(objects) \in Nat /\ DOMAIN objects = 1..Len(objects)
    BY DEF TypeOK
  <2>3. DueStands'
    BY <2>1 DEF DueStands, IsDue
  <2>4. \A o \in due' : \E j \in 1..end' : objects'[j] = o /\ i' <= j
    BY <2>1, <2>2 DEF ToSet
  <2> QED
    BY <2>1, <2>2, <2>3, <2>4 DEF WalkInv, WalkIsComplete
<1>5. CASE RemoveStale
  BY <1>5 DEF RemoveStale, LeaveLoop, WalkInv, WalkIsComplete
<1>6. CASE SkipObject
  <2>1. stage = "walk" /\ i \in 1..end /\ i' = i + 1 /\ i \in Nat /\ end \in Nat
    BY <1>6 DEF SkipObject, Walking, TypeOK
  <2>2. UNCHANGED <<live, freq, objects, tick, stage, end, freed, ran, due, cut>>
    BY <1>6 DEF SkipObject, table, processor, history
  <2>3. objects[i] \notin due
    BY <1>6, <2>1 DEF SkipObject, Walking, WalkInv, DueStands, IsDue
  <2>4. \A o \in due \ ran : \E j \in 1..end : objects[j] = o /\ i + 1 <= j
    <3>1. SUFFICES ASSUME NEW o \in due \ ran PROVE \E j \in 1..end : objects[j] = o /\ i + 1 <= j
      OBVIOUS
    <3>2. PICK j \in 1..end : objects[j] = o /\ i <= j
      BY <2>1 DEF WalkInv
    <3>3. j # i
      BY <2>3, <3>2
    <3> QED
      BY <2>1, <3>2, <3>3
  <2>5. \A o \in ran : \E j \in 1..end : objects[j] = o /\ j < i + 1
    BY <2>1 DEF WalkInv
  <2>6. DueStands'
    BY <2>1, <2>2 DEF WalkInv, DueStands, IsDue
  <2> QED
    BY <2>1, <2>2, <2>4, <2>5, <2>6 DEF WalkInv, WalkIsComplete
<1>7. CASE ProcessObject
  <2>1. stage = "walk" /\ stage' = "process" /\ i \in 1..end /\ i \in Nat /\ end \in Nat /\ ran' = ran \cup {objects[i]}
    BY <1>7 DEF ProcessObject, Walking, TypeOK
  <2>2. UNCHANGED <<live, freq, objects, tick, i, end, freed, due, cut>>
    BY <1>7 DEF ProcessObject, table, processor, loop
  <2>3. objects[i] \notin freed
    BY <1>7 DEF ProcessObject, IsStale, FreedOnce
  <2>4. \A o \in due \ ran' : \E j \in 1..end : objects[j] = o /\ i < j
    <3>1. SUFFICES ASSUME NEW o \in due \ ran' PROVE \E j \in 1..end : objects[j] = o /\ i < j
      OBVIOUS
    <3>2. PICK j \in 1..end : objects[j] = o /\ i <= j
      BY <2>1 DEF WalkInv
    <3>3. j # i
      BY <2>1, <3>2
    <3> QED
      BY <2>1, <3>2, <3>3
  <2>5. \A o \in ran' : \E j \in 1..end : objects[j] = o /\ j <= i
    BY <2>1 DEF WalkInv
  <2>6. DueStands'
    BY <2>1, <2>2 DEF WalkInv, DueStands, IsDue
  <2> QED
    BY <2>1, <2>2, <2>3, <2>4, <2>5, <2>6 DEF WalkInv, WalkIsComplete
<1>8. CASE ProcessReturns
  <2>1. stage = "process" /\ stage' = "walk" /\ i' = i + 1 /\ i \in Nat /\ end \in Nat
    BY <1>8 DEF ProcessReturns, TypeOK
  <2>2. UNCHANGED <<live, freq, objects, tick, end, freed, ran, due, cut>>
    BY <1>8 DEF ProcessReturns, table, processor, history
  <2>3. DueStands'
    BY <2>1, <2>2 DEF WalkInv, DueStands, IsDue
  <2>4. \A o \in due \ ran : \E j \in 1..end : objects[j] = o /\ i + 1 <= j
    BY <2>1 DEF WalkInv
  <2>5. \A o \in ran : \E j \in 1..end : objects[j] = o /\ j < i + 1
    BY <2>1 DEF WalkInv
  <2> QED
    BY <2>1, <2>2, <2>3, <2>4, <2>5 DEF WalkInv, WalkIsComplete
<1>9. CASE WalkEnds
  <2>1. due \subseteq ran
    BY <1>9 DEF WalkEnds, WalkInv, TypeOK
  <2> QED
    BY <1>9, <2>1 DEF WalkEnds, LeaveLoop, WalkInv, WalkIsComplete, history
<1>10. CASE FinishWorldCreation \/ FinishObject \/ WorldCreated \/ FinishTick
  BY <1>10 DEF FinishWorldCreation, FinishObject, WorldCreated, FinishTick, LeaveLoop, WalkInv, WalkIsComplete
<1>11. CASE UNCHANGED vars
  BY <1>11 DEF vars, table, processor, loop, history, WalkInv, WalkIsComplete, DueStands, IsDue
<1> QED
  BY <1>1, <1>2, <1>3, <1>4, <1>5, <1>6, <1>7, <1>8, <1>9, <1>10, <1>11 DEF Next, Callback

-----------------------------------------------------------------------------
(* The theorems.                                                           *)

\* ObjInv holds in every state of every world.
THEOREM ObjInvariant == Spec => []ObjInv
<1>1. ObjInv /\ [Next]_vars => ObjInv'
  BY TypeStep, ListStep, FreedStep, RestStep, WalkStep DEF ObjInv
<1> QED
  BY InitObj, <1>1, PTL DEF Spec

\* The variables keep their types, however CreateImpl, Delete and SetFreq are
\* called.
THEOREM ObjectsTyped == Spec => []TypeOK
<1>1. ObjInv => TypeOK
  BY DEF ObjInv
<1> QED
  BY ObjInvariant, <1>1, PTL

\* objects_ and objects_lookup_ agree, and every live object with a frequency is
\* on the list.
THEOREM ListAgrees == Spec => [](ListMatchesLookup /\ DueListed)
<1>1. ObjInv => ListMatchesLookup /\ DueListed
  BY DEF ObjInv, ListInv
<1> QED
  BY ObjInvariant, <1>1, PTL

\* No object is freed twice, lost, or freed while its Process runs.
THEOREM MemorySafe == Spec => [](FreedOnce /\ NothingFreedInUse)
<1>1. ObjInv => FreedOnce /\ NothingFreedInUse
  BY DEF ObjInv, WalkInv, NothingFreedInUse
<1> QED
  BY ObjInvariant, <1>1, PTL

\* RunProcess reaches every object whose turn it is, unless it returned early.
THEOREM WalkReachesDue == Spec => []WalkIsComplete
<1>1. ObjInv => WalkIsComplete
  BY DEF ObjInv, WalkInv
<1> QED
  BY ObjInvariant, <1>1, PTL

\* ProcessHearers leaves exactly the live hearers.
THEOREM HearersAreLive == Spec => []HearersLive
<1>1. ObjInv => HearersLive
  BY DEF ObjInv, RestInv, HearersLive
<1> QED
  BY ObjInvariant, <1>1, PTL

\* RunProcess gives no object two turns in a tick.
THEOREM OneTurnPerTick == Spec => OncePerTick
<1>1. ObjInv /\ [Next]_vars => [ProcessObject => objects[i] \notin ran]_vars
  <2> SUFFICES ASSUME ObjInv, ProcessObject PROVE objects[i] \notin ran
    OBVIOUS
  <2>1. stage = "walk" /\ i \in 1..end /\ end <= Len(objects) /\ end \in Nat /\ Len(objects) \in Nat
    BY DEF ObjInv, ProcessObject, Walking, TypeOK, WalkInv
  <2>2. \A j \in 1..end : objects[j] = objects[i] => j = i
    BY <2>1 DEF ObjInv, ListInv, ListMatchesLookup
  <2>3. \A o \in ran : \E j \in 1..end : objects[j] = o /\ j < i
    BY <2>1 DEF ObjInv, WalkInv
  <2> QED
    BY <2>1, <2>2, <2>3
<1> QED
  BY ObjInvariant, <1>1, PTL DEF Spec, OncePerTick

\* No id is given to a second object.
THEOREM IdsAreFresh == Spec => IdsNeverReused
<1>1. ObjInv /\ [Next]_vars => [\A o \in Id : o < id /\ o \notin live => o \notin live']_vars
  <2> SUFFICES ASSUME ObjInv, Next, NEW o \in Id, o < id, o \notin live PROVE o \notin live'
    OBVIOUS
  <2>1. live' \subseteq live \cup {id}
    BY DEF Next, Callback, ObjectSetsFreq, CreateImpl, Create, ObjectDeletes, DeleteLater, FinishWorldCreation, FinishObject,
           WorldCreated, StartTick, RemoveStale, SkipObject, ProcessObject, ProcessReturns, WalkEnds, FinishTick, table
  <2>2. o # id
    BY DEF Id, ObjInv, TypeOK
  <2> QED
    BY <2>1, <2>2
<1> QED
  BY ObjInvariant, <1>1, PTL DEF Spec, IdsNeverReused

\* A joiner that loads what Save wrote has the world that was saved.
THEOREM SaveIsFaithful == Spec => []SaveLosesNothing
<1>1. ObjInv => SaveLosesNothing
  <2> SUFFICES ASSUME ObjInv, stage = "idle" PROVE Loaded(Saved) = World
    BY DEF SaveLosesNothing
  <2>1. DOMAIN Saved.freq = live /\ \A o \in live : Saved.freq[o] = freq[o]
    BY DEF Saved
  <2>2. Saved.objects = objects /\ Saved.id = id /\ Saved.tick = tick /\ Saved.hearers = hearers /\ Saved.freq = [o \in live |-> freq[o]]
    BY DEF Saved
  <2>3. Unlisted(Saved) = {}
    BY <2>1, <2>2 DEF Unlisted, ObjInv, ListInv, DueListed
  <2>4. LoadedId(Saved) = id
    BY <2>1, <2>2 DEF LoadedId, ObjInv, FreedOnce, TypeOK
  <2>5. objects \o <<>> = objects
    BY DEF ObjInv, TypeOK
  <2>6. doomed = <<>> /\ lookup = ToSet(objects)
    BY DEF ObjInv, RestInv, ListInv, ListMatchesLookup
  <2> QED
    BY <2>1, <2>2, <2>3, <2>4, <2>5, <2>6 DEF Loaded, World
<1> QED
  BY ObjInvariant, <1>1, PTL

\* The list, the lookup and the table agree, whatever the objects do.
THEOREM ListIsSound == Spec => []ListSound
<1>1. ObjInv => ListSound
  BY DEF ObjInv, ListInv, ListSound
<1> QED
  BY ObjInvariant, <1>1, PTL

\* Memory is freed once and never in use, also by the hearers.
THEOREM MemoryIsSound == Spec => []MemorySound
<1>1. ObjInv => MemorySound
  BY DEF ObjInv, WalkInv, NothingFreedInUse, RestInv, HearersLive, MemorySound
<1> QED
  BY ObjInvariant, <1>1, PTL
=============================================================================
