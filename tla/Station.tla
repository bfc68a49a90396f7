-------------------------------- MODULE Station --------------------------------
(***************************************************************************)
(* A tick of the world as CoreImplementation.cpp runs it: every object     *)
(* that is to be processed has its turn, the gas pushes things about, the  *)
(* messages of the players are carried out in their order, and what is     *)
(* under a force moves.                                                    *)
(***************************************************************************)
EXTENDS Humans

CONSTANTS
  Layouts,    \* maps to start from, and what can happen on them
  Creator,    \* the player who created the world
  MaxTick, MaxActs

ASSUME StationAssumption == Creator \in Player /\ MaxTick \in Nat /\ MaxActs \in Nat

\* What messages can draw.
Chance == [knocked : BOOLEAN, dir : Dir, job : DOMAIN Outfit]

\* A map has one turf on every tile, and what was done on it was done by players.
Layout(l) ==
  /\ l.things \in Seq(Kind \X Tile \X Dir)
  /\ \A m, n \in DOMAIN l.things :
       {l.things[m][1], l.things[n][1]} \subseteq Turf /\ l.things[m][2] = l.things[n][2] => m = n
  /\ \A t \in Tile : \E m \in DOMAIN l.things : l.things[m][1] \in Turf /\ l.things[m][2] = t
  /\ l.game \in Seq(ToSet(l.game))
  /\ \A n \in DOMAIN l.game :
       \/ l.game[n].type = "tick"
       \/ l.game[n].player \in Player /\ (l.game[n].type = "join" \/ l.game[n].chance \in Chance)
  /\ l.chances \subseteq Chance
  /\ \A g \in l.gusts : g.tile \in Tile /\ g.way \in Dir /\ g.strength \in Int

ASSUME LayoutsAssumption == \A l \in Layouts : Layout(l)

VARIABLES
  world,
  layout,     \* the map that was loaded
  phase,      \* "messages" between StartTick and FinishTick, otherwise "idle"
  acts        \* what players did so far

vars == <<world, layout, phase, acts>>

NoChance == [knocked |-> FALSE, dir |-> "south", job |-> "assistant"]

-----------------------------------------------------------------------------
(* The phases of a tick.                                                   *)

\* Process of each class.
Process(w, i) ==
  LET kind == KindOf(w, i)
  IN  CASE kind = "human" -> ProcessHuman(w, i)
        [] kind = "ghost" -> ProcessGhost(w, i)
        [] kind = "lobby" -> ProcessLobby(w, i)
        [] kind \in {"door", "glassdoor"} -> ProcessDoor(w, i)
        [] kind \in Projectile -> ProcessProjectile(w, i)
        [] kind = "welder" -> ProcessWelder(w, i)
        [] OTHER -> w

\* ObjectProcessor::RunProcess: an object that leaves the list ends the round of this tick.
Turn(a, n) ==
  LET i == a.w.list[n]
  IN  IF ~a.going THEN a
      ELSE IF ~IsValid(a.w, i) \/ a.w.obj[i].freq = 0
      THEN [w |-> [a.w EXCEPT !.list = Front([@ EXCEPT ![n] = Last(a.w.list)])], going |-> FALSE]
      ELSE [w |-> IF a.w.tick % a.w.obj[i].freq = 0 THEN Process(a.w, i) ELSE a.w, going |-> TRUE]

RunProcess(w) ==
  FoldLeft(Turn, [w |-> w, going |-> TRUE], [n \in 1 .. Len(w.list) |-> n]).w

\* What a gust can do to a tile (Atmosphere::ProcessTileMove): move the topmost thing on
\* it that is no ghost, or strike the side of the tile that keeps the gas in or out.
Topmost(w, t) ==
  LET solid == {n \in DOMAIN w.content[t] : LevelOf(w.obj[w.content[t][n]].kind) # EMPTY}
  IN  IF solid = {} THEN None ELSE w.content[t][Max(solid)]

Inner(t) == X(t) \in 1 .. Width - 2 /\ Y(t) \in 1 .. Height - 2

Gust(w, g) ==
  LET i == Topmost(w, g.tile)
      struck == IF g.how = "inside" THEN g.way ELSE RevertDir(g.way)
  IN  IF g.how = "flow"
      THEN IF Is(w, i, Movable) THEN ApplyForce(w, i, StepForce(g.way)) ELSE w
      ELSE IF Inner(g.tile) /\ "all" \notin w.flags[g.tile] /\ struck \in w.flags[g.tile]
      THEN BumpByGas(w, g.tile, Times(g.strength, StepForce(g.way)), g.how = "inside")
      ELSE w

\* Still air, or any gust the layout has.
Blown(w) == {w} \cup {Gust(w, g) : g \in layout.gusts}

Ticked(w) == RunProcess([w EXCEPT !.tick = @ + 1])

\* A message is carried out with the random numbers it happens to draw.
Acted(w, p, m, c) == [PlayerMessage([w EXCEPT !.chance = c], p, m) EXCEPT !.chance = NoChance]

-----------------------------------------------------------------------------
(* The start: a map is loaded, and a game that went on for a while.        *)

Void(env) ==
  [obj |-> <<>>, own |-> <<>>,
   content |-> Kept([t \in Tile |-> <<>>]), turf |-> Kept([t \in Tile |-> None]),
   sum |-> Kept([t \in Tile |-> [v \in Way |-> FULL]]), flags |-> Kept([t \in Tile |-> {}]),
   tick |-> 0, last |-> Width * Height, list |-> <<>>, to_add |-> <<>>, under_force |-> <<>>,
   chance |-> NoChance, failed |-> {}, mind |-> Kept([p \in Player |-> None]),
   music |-> Kept([p \in Player |-> Unheard]), lobby |-> None, env |-> env]

\* A thing of the map file: its class, tile and direction.
Loaded(w, thing) ==
  LET i == NewId(w)
  IN  Placed([Allocate(w, thing[1]) EXCEPT !.obj[i].dir = thing[3]], i, thing[2])

\* AfterWorldCreation of everything in the order of the ids, then AfterMapgen.
Begun(w) == FoldLeft(AfterWorldCreation, w, SortedIds(w, DOMAIN w.obj))
Created(w) == NewClient(Create([Begun(w) EXCEPT !.lobby = NewId(Begun(w))], "lobby", None), Creator)

\* A step of the game so far.
Played(w, s) ==
  IF s.type = "tick" THEN Ticked(ProcessPhysics(w))
  ELSE IF s.type = "join" THEN NewClient(w, s.player) ELSE Acted(w, s.player, s, s.chance)

Map(l) == FoldLeft(Loaded, Void(l.env), l.things)
StartOf(l) == FoldLeft(Played, Created(Map(l)), l.game)

Init ==
  /\ layout \in Layouts
  /\ world = StartOf(layout)
  /\ phase = "idle" /\ acts = 0

-----------------------------------------------------------------------------
(* Actions.                                                                *)

Running == world.failed = {}

StartTick ==
  /\ Running /\ phase = "idle" /\ world.tick < MaxTick
  /\ world' \in Blown(Ticked(world))
  /\ phase' = "messages"
  /\ UNCHANGED <<layout, acts>>

Act == Running /\ phase = "messages" /\ acts < MaxActs /\ acts' = acts + 1 /\ UNCHANGED <<layout, phase>>

\* NEW_CLIENT.
Join(p) == Act /\ world' = NewClient(world, p)

\* ORDINARY: a key, or a click on the screen of the mob; MOUSE_CLICK on a thing.
Keys == {[type |-> "ordinary", key |-> k] : k \in layout.keys}
Clicks ==
  {[type |-> "click", object |-> i, action |-> a] :
     i \in {j \in DOMAIN world.obj : Is(world, j, layout.targets)}, a \in layout.clicks}

Message(p, m, c) == Act /\ world' = Acted(world, p, m, c)

FinishTick ==
  /\ Running /\ phase = "messages"
  /\ world' = ProcessPhysics(world)
  /\ phase' = "idle"
  /\ UNCHANGED <<layout, acts>>

Known == {p \in Player : world.mind[p] # None}

Next ==
  \/ StartTick
  \/ FinishTick
  \/ \E p \in Player : Join(p)
  \/ \E p \in Known, m \in Keys \cup Clicks, c \in layout.chances : Message(p, m, c)

Spec == Init /\ [][Next]_vars

-----------------------------------------------------------------------------
(* Properties.                                                             *)

\* Every member of the world has a value of its type.
StationTypeOK ==
  /\ phase \in {"idle", "messages"} /\ acts \in 0 .. MaxActs
  /\ DOMAIN world.own = DOMAIN world.obj
  /\ \A i \in DOMAIN world.obj :
       /\ i \notin Tile /\ i <= world.last
       /\ world.obj[i].kind \in Kind
       /\ world.obj[i].owner \in Tile \cup (DOMAIN world.obj) \cup {None}
       /\ world.obj[i].dir \in Dir
       /\ world.obj[i].pass \in [Way -> PassableLevel]
       /\ world.obj[i].motion \in Motion
       /\ DOMAIN world.own[i] = DOMAIN NewOwn(world.obj[i].kind)
  /\ world.sum \in [Tile -> [Way -> PassableLevel]]
  /\ world.flags \in [Tile -> SUBSET (Way \cup {"space", "no_objects"})]
  /\ world.mind \in [Player -> (DOMAIN world.obj) \cup {None}]
  /\ world.music \in [Player -> {Unheard, LOBBY_MUSIC, Silence}]
  /\ ToSet(world.to_add) \cup ToSet(world.under_force) \cup ToSet(world.list) \subseteq 1 .. world.last

\* What a container has in it.
Holds(w, c) ==
  IF c \in Tile THEN Standing(w, c)
  ELSE IF Is(w, c, Closet) THEN ToSet(w.content[c])
  ELSE IF Is(w, c, {"human"}) THEN {w.own[c].slot[s] : s \in Slot} \ {None} ELSE {}

\* An object is in the container it names as its owner and in no other, and only once,
\* however it was picked up, dropped, shut in, built from or broken: content_, the slots
\* and owner_ are kept apart by different functions (Tile.cpp:283, HumanInterface.cpp:319).
PlaceAgrees ==
  /\ \A i \in DOMAIN world.obj : Owner(world, i) # None => i \in Holds(world, Owner(world, i))
  /\ \A c \in Tile \cup DOMAIN world.obj :
       \A i \in Holds(world, c) : IsValid(world, i) /\ Owner(world, i) = c
  /\ \A c \in DOMAIN world.content : IsInjective(world.content[c])
  /\ \A h \in DOMAIN world.obj : Is(world, h, {"human"}) =>
       \A i \in Holds(world, h) : Cardinality(SlotsOf(world, h, i)) = 1

\* Every member of the world keeps its type, and every object its one place in it.
WellPlaced == StationTypeOK /\ PlaceAgrees

\* The sums of a tile, and what it told the atmosphere, are those of what stands on it
\* now, after every change of anything on it (Tile.cpp:361, MaterialObject.h:40).
SumsAreCurrent ==
  \A t \in Tile : /\ world.sum[t] = Summed(world, t)
                  /\ world.flags[t] = AtmosFlags(world, t, world.sum[t])

\* What can pass an object follows from its state: a door lets pass when it is open, a
\* closet when it is, a human who lies down, a window on the sides it does not face.
ShapeFollowsState ==
  \A i \in DOMAIN world.obj :
    LET o == world.obj[i]
        own == world.own[i]
    IN  /\ o.kind \in {"door", "glassdoor"} =>
             o.pass[DoorWay(world, i)] = IF own.state = "open" THEN FULL ELSE EMPTY
        /\ o.kind \in Closet => o.pass["all"] = IF own.open THEN FULL ELSE AIR
        /\ o.kind = "human" => o.pass["all"] = IF own.lying THEN FULL ELSE BIG_ITEM
        /\ o.kind = "glass" => {d \in Way : o.pass[d] = EMPTY} = {o.dir}
        /\ o.kind = "grille" => o.pass["all"] = IF own.cutted THEN FULL ELSE AIR

\* Nobody who is under a force is forgotten by the physics engine, or has two turns.
ForcesQueued ==
  /\ \A i \in DOMAIN world.obj :
       UnderForce(world, i) => i \in ToSet(world.to_add) \cup ToSet(world.under_force)
  /\ IsInjective(world.under_force)

\* A player who is known minds a mob that exists and that nobody else minds, hears the
\* lobby's music exactly as long as that is a mob of the lobby, and never stays in a
\* dead body: through login, death and return (Mob.cpp:54, LoginMob.cpp:86, Human.cpp:527).
MindsAgree ==
  /\ \A p \in Known : Is(world, world.mind[p], Mob) /\ NetIds(world, world.mind[p]) = {p}
  /\ \A p \in Player : world.music[p] = LOBBY_MUSIC <=> Is(world, world.mind[p], {"loginmob"})
  /\ \A p \in Known : Is(world, world.mind[p], {"human"}) => ~world.own[world.mind[p]].dead

\* A wall knows its neighbours that are walls, after walls were built and taken down;
\* but not the way out of the map, and the way opposite to that.
WallsMatch ==
  \A i \in DOMAIN world.obj :
    Is(world, i, Wall) =>
      \A d \in Dir :
        LET t == Owner(world, i)
        IN  Neighbour(t, d) # t /\ Neighbour(t, RevertDir(d)) # t =>
              (d \in world.own[i].walls <=> WallAt(world, i, d) # None)

\* Nothing stops the program (kv::Abort).
NoFailure == world.failed = {}

\* No player is left without a mob, and no death, login or return stops the program.
MindsSound == MindsAgree /\ NoFailure

\* However many forces, hands and keys are on it, what is no projectile moves by one tile
\* a tick: what was moved in this tick already stays (Movable.cpp:99).
OneStepPerTick ==
  [][\A i \in (DOMAIN world.obj) \cap DOMAIN world'.obj :
       LET from == Owner(world, i)
           to == Owner(world', i)
       IN  Is(world, i, Movable \ Projectile) /\ from \in Tile /\ to \in Tile /\ from # to =>
             /\ Abs(X(from) - X(to)) + Abs(Y(from) - Y(to)) = 1
             /\ world.obj[i].last_move < world'.tick]_vars
=============================================================================
