-------------------------------- MODULE Items --------------------------------
(***************************************************************************)
(* What items do: guns and what flies out of them (Gun.cpp,                *)
(* Projectiles.cpp), and the AttackBy of every class (PerformAttack).      *)
(***************************************************************************)
EXTENDS Movables

CONSTANT KNOCKED_TIME   \* ticks somebody knocked out lies; 100 in the code

ASSUME ItemsAssumption == KNOCKED_TIME \in Nat

-----------------------------------------------------------------------------
(* Projectiles.                                                            *)

\* MakeMovementLoops: n2 times d2 after a d1 each, then d1 only.
MakeMovementLoops(n1, n2, d1, d2) ==
  [i \in 1 .. n1 + n2 |-> IF i % 2 = 0 /\ i <= 2 * n2 THEN d2 ELSE d1]

Sideways(target) == IF target.x > 0 THEN "east" ELSE "west"
Lengthways(target) == IF target.y < 0 THEN "north" ELSE "south"

\* Whether a shot goes sideways first; the shooter's look decides between equals.
IsWide(target, facing) ==
  \/ Abs(target.x) > Abs(target.y)
  \/ Abs(target.x) = Abs(target.y) /\ facing \in {"west", "east"}

MakeMovementPattern(target, facing) ==
  IF IsWide(target, facing)
  THEN MakeMovementLoops(Abs(target.x), Abs(target.y), Sideways(target), Lengthways(target))
  ELSE MakeMovementLoops(Abs(target.y), Abs(target.x), Lengthways(target), Sideways(target))

\* ProcessMovement; that the step on the map was made does not matter.
ProcessMovement(w, i) ==
  LET own == w.own[i]
  IN  IF own.movement = <<>>
      THEN [w |-> Fail(w, "Trajectory for the projectile is empty"), ok |-> FALSE]
      ELSE Then(CheckPassable(Rotate(w, i, own.movement[own.step]), i),
                LAMBDA v : [w |-> MainMove([v EXCEPT !.own[i].step = (@ % Len(own.movement)) + 1], i).w,
                            ok |-> TRUE])

Armed(a, i) == IF a.ok THEN [a EXCEPT !.w.own[i].harmless = FALSE] ELSE a

\* From its first move on a projectile is armed; after a turn of its way it moves once more.
ProcessProjectile(w, i) ==
  LET a == Armed(ProcessMovement(w, i), i)
  IN  IF a.ok /\ DirOf(a.w, i) # DirOf(w, i) THEN Armed(ProcessMovement(a.w, i), i).w ELSE a.w

-----------------------------------------------------------------------------
(* Guns.                                                                   *)

\* Gun::Targetable and TargetTileLoc.
Targetable(w, o) == IsValid(w, o) /\ Owner(w, o) \in Tile

ShootingDir(target, facing) ==
  IF IsWide(target, facing) THEN Sideways(target) ELSE Lengthways(target)

Fires(kind) == IF kind = "revolver" THEN "bullet" ELSE "laser"

\* The casing falls and lies any way round.
DropCasing(w, t) == Rotate(Create(w, "casing", t), NewId(w), w.chance.dir)

\* ShootImpl, of a human on a tile.
Shoot(w, gun, o) ==
  LET h == Owner(w, gun)
      t == Owner(w, h)
      target == Minus([x |-> X(Owner(w, o)), y |-> Y(Owner(w, o))], [x |-> X(t), y |-> Y(t)])
      facing == DirOf(w, h)
      turned == Rotate([w EXCEPT !.own[gun].ammunition = @ - 1], h, ShootingDir(target, facing))
      i == NewId(turned)
      Loaded(v) == [Create(v, Fires(KindOf(w, gun)), t)
                      EXCEPT !.own[i].movement = MakeMovementPattern(target, facing)]
      Ejects(v) == IF Is(w, gun, {"revolver"}) THEN DropCasing(v, t) ELSE v
  IN  IF t \notin Tile \/ w.own[gun].ammunition <= 0 THEN w
      ELSE Ejects(ProcessProjectile(Loaded(turned), i))

-----------------------------------------------------------------------------
(* Humans who are hurt (the operations other parts use).                   *)

\* Human::SetLaying: nobody gets up early.
SetLaying(w, h, value) ==
  IF ~value /\ w.own[h].lay_timer > 0 THEN w
  ELSE SetPassable([w EXCEPT !.own[h].lying = value], h, "all", IF value THEN FULL ELSE BIG_ITEM)

ApplyBruteDamage(w, h, damage) == [w EXCEPT !.own[h].brute = AtLeast(0, @ + damage)]

KnockOut(w, h) == [SetLaying(w, h, TRUE) EXCEPT !.own[h].lay_timer = @ + KNOCKED_TIME]

HumanAttacked(w, h, item) ==
  LET hurt == ApplyBruteDamage(w, h, 100 * Damage(KindOf(w, item)))
  IN  IF Is(w, item, {"brutepack"}) THEN DeleteObject(ApplyBruteDamage(w, h, -1000), item)
      ELSE IF item = Hand /\ w.chance.knocked THEN KnockOut(hurt, h) ELSE hurt

-----------------------------------------------------------------------------
(* AttackBy of structures and turfs: building and taking apart.            *)

SetAnchored(w, i) == [w EXCEPT !.obj[i].anchored = ~@]

BreakableAttacked(w, i, item) ==
  IF Is(w, item, {"screwdriver"}) THEN SetAnchored(w, i)
  ELSE IF item = Hand /\ Is(w, i, {"glass"}) THEN w ELSE Hit(w, i, Damage(KindOf(w, item)))

GrilleAttacked(w, i, item) ==
  IF Is(w, item, {"wirecutters"}) THEN TakeApart(w, i) ELSE BreakableAttacked(w, i, item)

\* A new turf on the tile; a floor has no tiles yet.
Laid(w, kind, t) ==
  IF kind = "floor" THEN [Create(w, kind, t) EXCEPT !.own[NewId(w)].open = TRUE] ELSE Create(w, kind, t)

\* It takes the old one's place, and what it was built from goes; nothing asks whether
\* there is an old one.
Built(w, i, item, kind) ==
  IF GetTurf(w, i) = None THEN Fail(w, "No turf to delete")
  ELSE DeleteObject(Laid(DeleteObject(DeleteObject(w, item), GetTurf(w, i)), kind, Owner(w, i)), i)

GirderAttacked(w, i, item) ==
  IF Is(w, item, {"metal"}) THEN Built(w, i, item, "wall")
  ELSE IF Is(w, item, {"wrench"}) THEN DeleteObject(Create(w, "metal", Owner(w, i)), i) ELSE w

LatticeAttacked(w, i, item) ==
  IF Is(w, item, {"floortile"}) THEN Built(w, i, item, "floor") ELSE w

\* The plating replaces the wall as the turf before the wall is deleted.
WallAttacked(w, i, item) ==
  LET t == Owner(w, i)
  IN  IF Is(w, i, {"wall"}) /\ Is(w, item, {"welder"}) /\ w.own[item].on
      THEN DeleteObject(Laid(Create(Create(w, "girder", t), "metal", t), "floor", t), i)
      ELSE w

FloorAttacked(w, i, item) ==
  IF Is(w, item, {"crowbar"}) /\ ~w.own[i].open
  THEN Create([w EXCEPT !.own[i].open = TRUE], "floortile", Owner(w, i))
  ELSE IF Is(w, item, {"floortile"}) /\ w.own[i].open
  THEN DeleteObject([w EXCEPT !.own[i].open = FALSE], item) ELSE w

SpaceAttacked(w, i, item) ==
  IF Is(w, item, {"rod"}) THEN Create(DeleteObject(w, item), "lattice", Owner(w, i)) ELSE w

-----------------------------------------------------------------------------
(* AttackBy of items: used on themselves, most of them.                    *)

TurnOff(w, i) == SetFreq([w EXCEPT !.own[i].on = FALSE], i, 0)

WelderAttacked(w, i) ==
  IF w.own[i].on THEN TurnOff(w, i)
  ELSE IF w.own[i].fuel <= 0 THEN w ELSE SetFreq([w EXCEPT !.own[i].on = TRUE], i, 2)

ProcessWelder(w, i) ==
  LET burnt == [w EXCEPT !.own[i].fuel = AtLeast(0, @ - 1)]
  IN  IF burnt.own[i].fuel <= 0 /\ w.own[i].on THEN TurnOff(burnt, i) ELSE burnt

UsedOnItself(w, i) ==
  LET t == GetTurf(w, i)
      builds == Is(w, i, {"rod"}) \/ (Is(w, i, {"metal"}) /\ Is(w, t, {"floor"}))
  IN  IF builds THEN DeleteObject(Create(w, IF Is(w, i, {"rod"}) THEN "grille" ELSE "girder", t), i)
      ELSE IF Is(w, i, {"opener"}) /\ IsValid(w, w.own[i].door) THEN OpenDoor(w, w.own[i].door)
      ELSE w

ItemAttacked(w, i, item) ==
  IF Is(w, i, {"welder"}) THEN WelderAttacked(w, i)
  ELSE IF i = item THEN UsedOnItself(w, i) ELSE w

AttackBy(w, i, item) ==
  LET kind == KindOf(w, i)
  IN  CASE kind \in {"door", "glassdoor"} -> DoorAttacked(w, i, item)
        [] kind \in Closet -> ClosetAttacked(w, i, item)
        [] kind = "human" -> HumanAttacked(w, i, item)
        [] kind = "glass" -> BreakableAttacked(w, i, item)
        [] kind = "grille" -> GrilleAttacked(w, i, item)
        [] kind = "girder" -> GirderAttacked(w, i, item)
        [] kind = "lattice" -> LatticeAttacked(w, i, item)
        [] kind \in Wall -> WallAttacked(w, i, item)
        [] kind = "floor" -> FloorAttacked(w, i, item)
        [] kind = "space" -> SpaceAttacked(w, i, item)
        [] kind = "fueltank" /\ Is(w, item, {"welder"}) -> [w EXCEPT !.own[item].fuel = FUEL]
        [] OTHER -> ItemAttacked(w, i, item)

\* HumanInterface::DropItem.
DropItem(w, h) == [w EXCEPT !.own[h].slot[w.own[h].active_hand] = None]

\* PerformAttack: an item used on a table is put there.
PerformAttack(w, h, i, item) ==
  IF Is(w, i, {"table"}) /\ item # Hand
  THEN DropItem(AddObject(w, Owner(w, i), item), h) ELSE AttackBy(w, i, item)
=============================================================================
