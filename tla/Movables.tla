------------------------------ MODULE Movables ------------------------------
(***************************************************************************)
(* Objects that come, go, move and change: their creation                  *)
(* (ObjectFactory::CreateImpl), forces and steps (Movable.cpp,             *)
(* PhysicsEngine.cpp), what happens when one object bumps into another,    *)
(* doors, closets, walls, windows and bullets.  Further members of the     *)
(* world:                                                                  *)
(*   tick      game_tick                                                   *)
(*   last      the last id given                                           *)
(*   list      objects_ of the processor                                   *)
(*   to_add, under_force   the queues of the physics engine                *)
(*   chance    the random numbers of the message that is processed         *)
(*   failed    the assertions that failed: the program has stopped         *)
(***************************************************************************)
EXTENDS Tiles

CONSTANTS
  DOOR_TIME, GLASS_DOOR_TIME, OPEN_TIME,  \* ticks; 11, 9 and 50 in the code
  SLOW_FREQ                               \* ticks between two turns of a ghost and of the lobby; 10

ASSUME MovablesAssumption ==
  /\ DOOR_TIME \in Nat /\ GLASS_DOOR_TIME \in Nat /\ OPEN_TIME \in Nat
  /\ SLOW_FREQ \in Nat \ {0}

Fail(w, why) == [w EXCEPT !.failed = @ \cup {why}]

\* A fold over the objects of a sequence, each valid when its turn comes.
ForEach(w, seq, op(_, _)) ==
  FoldLeft(LAMBDA v, i : IF IsValid(v, i) THEN op(v, i) ELSE v, w, seq)

SetFreq(w, i, freq) ==
  [w EXCEPT !.obj[i].freq = freq,
            !.list = IF freq # 0 /\ ~Contains(@, i) THEN Append(@, i) ELSE @]

-----------------------------------------------------------------------------
(* Walls know which of their neighbours are walls.                         *)

WALL_PROCESSING_DIRS == <<"north", "south", "west", "east">>

WallAt(w, i, d) ==
  LET t == w.turf[Neighbour(Owner(w, i), d)] IN IF Is(w, t, Wall) THEN t ELSE None

Learns(w, i, d) == [w EXCEPT !.own[i].walls = @ \cup {d}]

CheckNeighborhood(w, i) ==
  FoldLeft(LAMBDA v, d :
    IF WallAt(v, i, d) = None THEN [v EXCEPT !.own[i].walls = @ \ {d}]
    ELSE Learns(Learns(v, i, d), WallAt(v, i, d), RevertDir(d)),
    w, WALL_PROCESSING_DIRS)

NotifyNeighborhood(w, i) ==
  FoldLeft(LAMBDA v, d :
    IF WallAt(v, i, d) = None THEN v
    ELSE [v EXCEPT !.own[WallAt(v, i, d)].walls = @ \ {RevertDir(d)}],
    w, WALL_PROCESSING_DIRS)

\* Mutant: a wall goes and does not tell its neighbours.
DeleteUnnoticed(w, i) == Delete(w, i)

\* Delete of any class.
DeleteObject(w, i) == Delete(IF Is(w, i, Wall) THEN NotifyNeighborhood(w, i) ELSE w, i)

-----------------------------------------------------------------------------
(* Closets.                                                                *)

\* Mutant: what is taken in stays on the tile.
TakeInOnly(w, c, i) == IF Takes(w, c, i) THEN AddObject(w, c, i) ELSE w

TakeIn(w, c, i) ==
  IF Takes(w, c, i) THEN RemoveObject(AddObject(w, c, i), Owner(w, c), i) ELSE w

\* Closet::Close, AfterWorldCreation: everything on the tile that fits.
Collect(w, c) == ForEach(w, w.content[Owner(w, c)], LAMBDA v, i : TakeIn(v, c, i))

CloseCloset(w, c) ==
  SetPassable([Collect(w, c) EXCEPT !.own[c].open = FALSE], c, "all", AIR)

\* Everything in it is added to its tile.
Released(w, c) == ForEach(w, w.content[c], LAMBDA v, i : AddObject(v, Owner(v, c), i))

OpenCloset(w, c) ==
  IF w.own[c].locked THEN w
  ELSE SetPassable([Released(w, c) EXCEPT !.content[c] = <<>>, !.own[c].open = TRUE], c, "all", FULL)

BumpCloset(w, c) == IF w.own[c].open THEN w ELSE OpenCloset(w, c)

ClosetAttacked(w, c, item) ==
  IF w.own[c].open THEN IF item = Hand THEN CloseCloset(w, c) ELSE w
  ELSE IF ~Is(w, c, {"locker"}) THEN OpenCloset(w, c)
  ELSE IF w.own[c].locked THEN [w EXCEPT !.own[c].locked = FALSE]
  ELSE IF item = Hand THEN w ELSE [w EXCEPT !.own[c].locked = TRUE]

-----------------------------------------------------------------------------
(* Creation.                                                               *)

AfterWorldCreation(w, i) ==
  LET kind == KindOf(w, i)
  IN  IF kind \in {"human", "loginmob"} \cup Projectile THEN SetFreq(w, i, 1)
      ELSE IF kind \in {"ghost", "lobby"} THEN SetFreq(w, i, SLOW_FREQ)
      ELSE IF kind \in Wall THEN CheckNeighborhood(w, i)
      ELSE IF kind \in {"glass", "glassdoor"} THEN SetPassable(w, i, DirOf(w, i), EMPTY)
      ELSE IF kind \in Closet THEN Collect(w, i) ELSE w

\* NewVoidObject: a human brings its interface and its hand, which have ids too.
NewId(w) == w.last + 1
Allocate(w, kind) ==
  LET i == NewId(w)
  IN  [w EXCEPT !.obj = With(@, i, New(kind)), !.own = With(@, i, NewOwn(kind)),
                !.content = IF kind \in Closet THEN With(@, i, <<>>) ELSE @,
                !.last = IF kind = "human" THEN i + 2 ELSE i]

Placed(w, i, owner) ==
  IF owner \notin Tile /\ ~IsValid(w, owner) THEN w
  ELSE IF Is(w, i, Turf) THEN SetTurf(w, owner, i)
  ELSE IF Takes(w, owner, i) THEN AddObject(w, owner, i)
  ELSE Fail(w, "AddItem failed")

Create(w, kind, owner) ==
  AfterWorldCreation(Placed(Allocate(w, kind), NewId(w), owner), NewId(w))

-----------------------------------------------------------------------------
(* Doors.  A glass door blocks the side it faces, another door its tile.   *)

DoorWay(w, i) == IF Is(w, i, {"door"}) THEN "all" ELSE DirOf(w, i)
DoorTime(w, i) == IF Is(w, i, {"door"}) THEN DOOR_TIME ELSE GLASS_DOOR_TIME
DoorState(w, i, state) == [w EXCEPT !.own[i].state = state, !.own[i].last_tick = w.tick]

OpenDoor(w, i) ==
  IF w.own[i].state # "closed" THEN w ELSE SetFreq(DoorState(w, i, "opening"), i, 1)

CloseDoor(w, i) ==
  IF w.own[i].state # "open" THEN w
  ELSE DoorState(SetPassable(w, i, DoorWay(w, i), EMPTY), i, "closing")

ProcessDoor(w, i) ==
  LET state == w.own[i].state
      Since(time) == w.tick - w.own[i].last_tick > time
  IN  IF state = "opening" /\ Since(DoorTime(w, i))
      THEN SetPassable(DoorState(w, i, "open"), i, DoorWay(w, i), FULL)
      ELSE IF state = "closing" /\ Since(DoorTime(w, i))
      THEN SetFreq(DoorState(w, i, "closed"), i, 0)
      ELSE IF state = "open" /\ Since(OPEN_TIME) THEN CloseDoor(w, i) ELSE w

\* AttackBy; a welder that works welds a door shut and open again.
DoorAttacked(w, i, item) ==
  LET state == w.own[i].state
  IN  IF Is(w, i, {"door"}) /\ Is(w, item, {"welder"})
      THEN IF ~w.own[item].on THEN w
           ELSE IF state = "closed" THEN [w EXCEPT !.own[i].state = "welded"]
           ELSE IF state = "welded" THEN [w EXCEPT !.own[i].state = "closed"] ELSE w
      ELSE IF Is(w, i, {"door"}) /\ Is(w, item, {"opener"})
      THEN [w EXCEPT !.own[item].door = i]
      ELSE IF state = "open" THEN CloseDoor(w, i) ELSE OpenDoor(w, i)

-----------------------------------------------------------------------------
(* Windows and grilles break.                                              *)

\* A window leaves a shard, a grille first the rods of its bars, then those of its frame.
HasBars(w, i) == Is(w, i, {"grille"}) /\ ~w.own[i].cutted
Piece(w, i) == IF Is(w, i, {"glass"}) THEN "shard" ELSE "rod"

LoseBars(w, i) == SetPassable([w EXCEPT !.own[i].cutted = TRUE], i, "all", FULL)
Fall(w, i, stays) == IF stays THEN w ELSE DeleteObject(w, i)

TakeApart(w, i) ==
  Fall(Create(IF HasBars(w, i) THEN LoseBars(w, i) ELSE w, Piece(w, i), Owner(w, i)), i, HasBars(w, i))

\* The frame of a grille takes 7 more.
Break(w, i) == TakeApart([w EXCEPT !.own[i].hit_points = 7], i)

Hit(w, i, damage) ==
  LET left == w.own[i].hit_points - damage
  IN  IF left <= 0 THEN Break(w, i) ELSE [w EXCEPT !.own[i].hit_points = left]

-----------------------------------------------------------------------------
(* Forces and bumps.                                                       *)

\* Mutant: an object is queued when the new force moves it already.
QueuedLate(w, i, f) ==
  IF IsZero(Plus(w.obj[i].motion.force, f)) THEN [w EXCEPT !.to_add = Append(@, i)] ELSE w

Queued(w, i, f) ==
  IF IsZero(w.obj[i].motion.force) THEN [w EXCEPT !.to_add = Append(@, i)] ELSE w

BORDERLINE == 30 * FORCE_UNIT

\* Movable::ApplyForce; a window breaks under a strong force, from two sides.
ApplyForce(w, i, f) ==
  IF Is(w, i, {"glass"}) /\ AtLeast(f.x, f.y) > BORDERLINE THEN Break(w, i)
  ELSE IF IsZero(f) THEN w
  ELSE [Queued(w, i, f) EXCEPT !.obj[i].motion = Pushed(@, f)]

StopForce(w, i) == IF IsValid(w, i) THEN [w EXCEPT !.obj[i].motion.force = Zero] ELSE w

\* Mutant: a window that is turned still blocks where it was.
RotateAround(w, i, d) ==
  IF Is(w, i, {"glass"}) THEN SetPassable([w EXCEPT !.obj[i].dir = d], i, d, EMPTY)
  ELSE [w EXCEPT !.obj[i].dir = d]

Rotate(w, i, d) ==
  IF Is(w, i, {"glass"})
  THEN SetPassable([SetPassable(w, i, DirOf(w, i), FULL) EXCEPT !.obj[i].dir = d], i, d, EMPTY)
  ELSE [w EXCEPT !.obj[i].dir = d]

\* Human::Bump.
Wound(w, h, projectile) ==
  [w EXCEPT !.own[h].brute = @ + 100 * Damage(KindOf(w, projectile)),
            !.own[h].burn = @ + 100 * BurnDamage(KindOf(w, projectile))]

\* FlatGlass::Bump: a person pushes a window from behind, and turns a loose one.
TurnGlass(w, o, i) ==
  IF w.obj[o].anchored \/ ~CanPass(GetPassable(w, Owner(w, o), "all"), LevelOf("glass")) THEN w
  ELSE Rotate(w, o, DirOf(w, i))

\* Bump of an object that is no tile, by class.
BumpObject(w, o, f, i) ==
  LET kind == KindOf(w, o)
  IN  IF kind \in {"door", "glassdoor"} THEN IF Is(w, i, Mob) THEN OpenDoor(w, o) ELSE w
      ELSE IF kind \in Closet /\ Contains(w.content[o], i) THEN BumpCloset(w, o)
      ELSE IF kind \in Breakable /\ Is(w, i, Projectile) THEN Hit(w, o, Damage(KindOf(w, i)))
      ELSE IF kind = "human" /\ Is(w, i, Projectile) THEN Wound(w, o, i)
      ELSE IF kind \notin Movable \/ ~Is(w, i, Mob) THEN w
      ELSE IF kind = "glass" /\ DirOf(w, i) # DirOf(w, o) THEN TurnGlass(w, o, i) ELSE ApplyForce(w, o, f)

Blocking(w, t, v, level) ==
  {n \in DOMAIN w.content[t] : ~CanPass(w.obj[w.content[t][n]].pass[v], level)}

\* The first object of a tile that is in the way: of the side the object comes from or
\* leaves by, then of the whole tile.  None when the turf alone blocks.
InTheWay(w, t, inside, d, level) ==
  LET side == Blocking(w, t, IF inside THEN d ELSE RevertDir(d), level)
      whole == IF inside THEN {} ELSE Blocking(w, t, "all", level)
  IN  IF side # {} THEN w.content[t][Min(side)]
      ELSE IF whole # {} THEN w.content[t][Min(whole)] ELSE None

\* Bump of a tile or another owner.
Bump(w, o, f, i) ==
  LET hit == IF o \in Tile THEN InTheWay(w, o, Owner(w, i) = o, DirOf(w, i), LevelOf(KindOf(w, i))) ELSE o
  IN  IF hit = None THEN w ELSE BumpObject(w, hit, f, i)

\* CubeTile::BumpByGas; the turf and a door take no force.
BumpByGas(w, t, f, inside) ==
  LET hit == InTheWay(w, t, inside, VDirToDir(f), AIR)
  IN  IF Is(w, hit, Movable) THEN ApplyForce(w, hit, f) ELSE w

-----------------------------------------------------------------------------
(* Steps.                                                                  *)

\* What an attempt made of the world, and whether it succeeded; the next part of it is
\* tried if it did.
Then(a, op(_)) == IF a.ok THEN op(a.w) ELSE a

Blocks(w, o, v, i) == ~CanPass(GetPassable(w, o, v), LevelOf(KindOf(w, i)))

BumpAndStop(w, o, i) == StopForce(Bump(w, o, w.obj[i].motion.force, i), i)

\* The object's own side does not count on its way out.
Freed(w, i) == SetPassable(w, i, DirOf(w, i), FULL)
CanLeave(w, i) == ~Blocks(Freed(w, i), Owner(w, i), DirOf(w, i), i)

CanEnter(w, n, i) == ~Blocks(w, n, "all", i) /\ ~Blocks(w, n, RevertDir(DirOf(w, i)), i)

Restored(w, i, side) == SetPassable(w, i, DirOf(w, i), side)

Stopped(w, leaves, i, side) == [w |-> IF leaves THEN w ELSE Restored(w, i, side), ok |-> FALSE]

\* Movable::CheckPassable: what is in the way is bumped, and the side put back after it.
CheckMovablePassable(w, i) ==
  LET leaves == CanLeave(w, i)
      n == GetNeighbour(w, Owner(w, i), DirOf(w, i))
  IN  IF leaves /\ CanEnter(w, n, i) THEN [w |-> w, ok |-> TRUE]
      ELSE Stopped(BumpAndStop(IF leaves THEN w ELSE Freed(w, i), IF leaves THEN n ELSE Owner(w, i), i),
                   leaves, i, w.obj[i].pass[DirOf(w, i)])

\* Projectile::CheckHumanTile.
HumanAt(w, i) == IF HasItem(w, Owner(w, i), {"human"}) THEN LastItem(w, Owner(w, i), {"human"}) ELSE None

IsTransparent(w, t) == ~Is(w, w.turf[t], Wall)

\* Laser::CheckPassable looks at transparency only.
CheckLaserPassable(w, i) ==
  LET t == Owner(w, i)
      n == Neighbour(t, DirOf(w, i))
  IN  [w |-> w, ok |-> n # t /\ IsTransparent(w, t) /\ IsTransparent(w, n)]

\* A projectile does not outlive what stops it.
EndOfFlight(a, i) ==
  IF a.ok \/ ~Is(a.w, i, Projectile) THEN a ELSE [a EXCEPT !.w = DeleteObject(@, i)]

Strikes(w, i) == Is(w, i, Projectile) /\ ~w.own[i].harmless /\ HumanAt(w, i) # None

CheckPassable(w, i) ==
  EndOfFlight(IF Strikes(w, i) THEN [w |-> Wound(w, HumanAt(w, i), i), ok |-> FALSE]
              ELSE IF Is(w, i, {"laser"}) THEN CheckLaserPassable(w, i)
              ELSE CheckMovablePassable(w, i), i)

MainMove(w, i) ==
  LET from == Owner(w, i)
      to == GetNeighbour(w, from, DirOf(w, i))
  IN  IF to = from THEN [w |-> w, ok |-> FALSE]
      ELSE [w |-> [AddObject(RemoveObject(w, from, i), to, i) EXCEPT !.obj[i].last_move = w.tick],
            ok |-> TRUE]

\* Mutant: when it moved last does not count.
MoveAgain(w, i, d) ==
  IF w.obj[i].anchored THEN [w |-> w, ok |-> FALSE]
  ELSE Then(CheckPassable(Rotate(w, i, d), i), LAMBDA v : MainMove(v, i))

\* Movable::TryMove.
MoveAlone(w, i, d) ==
  IF w.tick - w.obj[i].last_move < TickSpeed(KindOf(w, i)) \/ w.obj[i].anchored
  THEN [w |-> w, ok |-> FALSE]
  ELSE Then(CheckPassable(Rotate(w, i, d), i), LAMBDA v : MainMove(v, i))

\* StopPull: the human lets go.
StopPull(w, h) == [w EXCEPT !.own[h].pulled = None]

Pulls(w, h) == Is(w, h, {"human"}) /\ IsValid(w, w.own[h].pulled)

Distance(w, i, j) ==
  LET t == Root(w, i) u == Root(w, j) IN [x |-> X(t) - X(u), y |-> Y(t) - Y(u)]

\* A human lets go of what is out of reach.
KeepPulling(w, h) ==
  IF Pulls(w, h) /\ ~CanTouch(w, h, w.own[h].pulled) THEN StopPull(w, h) ELSE w

\* Human::TryMove, of one in a row in which each pulls the next: w before the step, a
\* what the step made of it.  Who pulls lets go if the next one does not follow.
Follows(w, a, i) ==
  LET at == Distance(w, i, w.own[i].pulled)
  IN  a.ok /\ Pulls(w, i) /\ Pulls(a.w, i) /\ Abs(at.x) + Abs(at.y) < 2

Row(row, w, a, i) ==
  [w |-> IF a.ok \/ row.by = None THEN a.w ELSE StopPull(a.w, row.by),
   ok |-> IF row.by = None THEN a.ok ELSE row.ok,
   next |-> IF Follows(w, a, i) THEN w.own[i].pulled ELSE None,
   way |-> IF Follows(w, a, i) THEN VDirToDir(Distance(w, i, w.own[i].pulled)) ELSE row.way,
   by |-> i]

Step(row, w) == Row(row, w, MoveAlone(w, row.next, row.way), row.next)

Pull(row, n) == IF row.next = None THEN row ELSE Step(row, KeepPulling(row.w, row.next))

\* Who was moved already this tick does not move again, so a row that is a ring ends.
TryMove(w, i, d) ==
  FoldLeft(Pull, [w |-> w, ok |-> FALSE, next |-> i, way |-> d, by |-> None],
           [n \in 1 .. Cardinality({h \in DOMAIN w.obj : w.obj[h].kind = "human"}) + 2 |-> n])

-----------------------------------------------------------------------------
(* Friction and forces over time.                                          *)

\* CombinedFriction: something to walk on here or on a tile next to it.
Grips(w, t) ==
  LET around == {t} \cup {Neighbour(t, d) : d \in Dir}
  IN  \/ X(t) \in {0, Width - 1} \/ Y(t) \in {0, Height - 1}
      \/ \E u \in around : ~Is(w, w.turf[u], {"space"}) \/ HasItem(w, u, {"lattice"})

\* Movable::ProcessForce.
Slowed(a, i, way) ==
  IF ~IsValid(a.w, i) THEN a.w
  ELSE IF ~a.ok THEN [a.w EXCEPT !.obj[i].motion.force = Zero, !.obj[i].motion.error = 0]
  ELSE IF Grips(a.w, Root(a.w, i)) THEN [a.w EXCEPT !.obj[i].motion.force = Minus(@, StepForce(way))]
  ELSE a.w

ProcessForce(w, i) ==
  LET step == ForceStep(w.obj[i].motion)
      ready == [w EXCEPT !.obj[i].motion.error = step.error]
  IN  IF step.way = "all" THEN ready ELSE Slowed(TryMove(ready, i, step.way), i, step.way)

UnderForce(w, i) == IsValid(w, i) /\ ~IsZero(w.obj[i].motion.force)

\* What the sequence has of the set.
Among(seq, ids) == FoldLeft(LAMBDA s, i : IF i \in ids THEN Append(s, i) ELSE s, <<>>, seq)

\* The ids of a set in their order.
SortedIds(w, ids) == Among([i \in 1 .. w.last |-> i], ids)

\* PhysicsEngine::Clear and the first half of ProcessPhysics.
Queue(w) ==
  LET left == Among(w.under_force, {i \in ToSet(w.under_force) : UnderForce(w, i)})
      new == {i \in ToSet(w.to_add) : UnderForce(w, i)}
  IN  [w EXCEPT !.under_force =
                  IF w.to_add = <<>> THEN left
                  ELSE SortedIds(w, ToSet(left) \cup new),
                !.to_add = <<>>]

ProcessPhysics(w) ==
  LET queued == Queue(w)
  IN  FoldLeft(LAMBDA v, i : IF UnderForce(v, i) THEN ProcessForce(v, i) ELSE v,
               queued, queued.under_force)
=============================================================================
