---------------------------- MODULE StationSteps ----------------------------
(***************************************************************************)
(* The actions of the station one by one: that steps and bumps, forces,    *)
(* bodies, minds, the turns of every class of objects, the tick, and what  *)
(* players do to doors, structures, turfs, closets and items keep a world  *)
(* sound, and that nothing but a projectile moves twice in one of them.    *)
(*                                                                         *)
(* Most lemmas say that an operation takes a world that is Good(r, w),     *)
(* sound and come from r by this step, to one that is.  Closing a closet   *)
(* shuts in what has moved already: from there on Fine(r, w) is kept, which*)
(* counts moves between tiles only.  A loop of the code is a fold, and what*)
(* each turn of it keeps the loop keeps (FoldInduction).                   *)
(***************************************************************************)
EXTENDS StationSound

-----------------------------------------------------------------------------
(* Steps: what is in the way.                                              *)

\* A level of a side is not what the state of most objects asks about.
LEMMA SideFits ==
  ASSUME NEW w, NEW i, w.obj[i].kind \notin {"glass", "glassdoor"}, NEW d \in Dir, NEW p,
         Shaped(w, i)
  PROVE  Fitting(w, i, d, p)
BY DEF Fitting, Shaped, ShapeFits, Dir, Way

\* In a good world every shape fits.
LEMMA GoodShaped ==
  ASSUME NEW r, NEW w, Good(r, w), NEW i \in DOMAIN w.obj
  PROVE  Shaped(w, i)
BY DEF Good, Nil, Sane, Sound, Nearly, Shapes

\* SetPassable in a good world.
LEMMA PassStepIs ==
  ASSUME NEW r, NEW w, Good(r, w), NEW i \in DOMAIN w.obj, NEW d, NEW p \in PassableLevel, NEW v, v = SetPassable(w, i, d, p)
  PROVE  Sane(Nil, Nil \cup {i}, r, v) /\ Only({"obj", "sum", "flags"}, w, v) /\ v.obj = PassSet(w, i, d, p)
<1>1. Sane(Nil, Nil, r, w)
  BY DEF Good
<1> QED BY <1>1, PassStep

\* A mover's own side may change its level: it is no wall or glass.
LEMMA SideGood ==
  ASSUME NEW r, NEW w, Good(r, w), NEW i, i \notin Tile, NEW p \in PassableLevel,
         i \in DOMAIN w.obj => w.obj[i].kind \notin Wall \cup {"glass", "glassdoor"},
         NEW v, v = SetPassable(w, i, DirOf(w, i), p)
  PROVE  Good(r, v)
<1>1. CASE i \in DOMAIN w.obj
  <2>1. PICK d : d = w.obj[i].dir
    OBVIOUS
  <2>2. d \in Dir
    BY <1>1, <2>1, GoodForms DEF Object
  <2>3. Fitting(w, i, d, p)
    BY <1>1, <2>2, GoodShaped, SideFits
  <2>4. Sane(Nil, Nil \cup {i}, r, w)
    BY LooseSane DEF Good
  <2>5. d \in Way /\ v = SetPassable(w, i, d, p)
    BY <2>1, <2>2 DEF Way, DirOf
  <2> QED BY <1>1, <2>3, <2>4, <2>5, PassKeeps DEF Good
<1>2. CASE i \notin DOMAIN w.obj
  <2>1. Sound(Nil, Nil, w)
    BY DEF Good, Sane
  <2>2. PICK d : d = DirOf(w, i)
    OBVIOUS
  <2>3. Sound(Nil, Nil \cup {i}, v) /\ Since(w, v) /\ Only({"obj", "sum", "flags"}, w, v) /\ v.obj = PassSet(w, i, d, p)
    BY <2>1, <2>2, SetPassableSound
  <2>4. i \notin DOMAIN v.obj
    BY <1>2, <2>3 DEF PassSet
  <2>5. Nearly(Nil, Nil, None, v)
    BY <2>3, <2>4, Straightened DEF Sound
  <2>6. Sound(Nil, Nil, v)
    BY <2>5 DEF Sound
  <2> QED BY <2>3, <2>6, SaneStep DEF Good
<1> QED BY <1>1, <1>2

\* Bumping and stopping keeps the invariant.
LEMMA BumpAndStopGood ==
  ASSUME NEW r, NEW w, Good(r, w), NEW o \in Tile \cup (DOMAIN w.obj) \cup {None}, NEW i \in DOMAIN w.obj
  PROVE  Good(r, BumpAndStop(w, o, i))
<1>1. PICK f : f = w.obj[i].motion.force
  OBVIOUS
<1>2. f \in Vector
  BY <1>1, GoodForms DEF Object, Motion
<1>3. Good(r, Bump(w, o, f, i))
  BY <1>2, BumpGood
<1>4. BumpAndStop(w, o, i) = StopForce(Bump(w, o, f, i), i)
  BY <1>1 DEF BumpAndStop
<1> QED BY <1>3, <1>4, StopForceSane DEF Good

\* A window that does not get off its tile.
LEMMA StoppedGlassGood ==
  ASSUME NEW r, NEW w, Good(r, w), NEW i \in DOMAIN w.obj, w.obj[i].kind = "glass",
         NEW x, x = Freed(w, i), NEW y, y = BumpAndStop(x, Owner(w, i), i),
         NEW v, v = Restored(y, i, w.obj[i].pass[DirOf(w, i)])
  PROVE  Good(r, v)
<1>1. PICK d : d = w.obj[i].dir
  OBVIOUS
<1>2. PICK p : p = w.obj[i].pass[d]
  OBVIOUS
<1>3. d \in Dir /\ d \in Way /\ p \in PassableLevel /\ FULL \in PassableLevel
  BY <1>1, <1>2, GoodForms DEF Object, Way, PassableLevel
<1>4. PICK q : q = FULL
  OBVIOUS
<1>5. x = SetPassable(w, i, d, q)
  BY <1>1, <1>4 DEF Freed, DirOf
<1>6. Sane(Nil, Nil \cup {i}, r, x) /\ Only({"obj", "sum", "flags"}, w, x) /\ x.obj = PassSet(w, i, d, q)
  BY <1>3, <1>4, <1>5, PassStepIs
<1>7. /\ DOMAIN x.obj = DOMAIN w.obj /\ x.obj[i].kind = "glass" /\ x.obj[i].dir = d /\ x.obj[i].owner = w.obj[i].owner
      /\ \A e \in Way : e # d => x.obj[i].pass[e] = w.obj[i].pass[e]
  BY <1>1, <1>3, <1>6, PassSetIs DEF Good
<1>8. Owner(w, i) \in Tile \cup (DOMAIN x.obj) \cup {None}
  BY <1>7, OwnerIs DEF Good, Owner
<1>9. PICK f : f = x.obj[i].motion.force
  OBVIOUS
<1>10. Bump(x, Owner(w, i), f, i) = x
  BY <1>6, <1>7, <1>8, BumpOfGlass
<1>11. y = StopForce(x, i)
  BY <1>9, <1>10 DEF BumpAndStop
<1>12. /\ Sane(Nil, Nil \cup {i}, r, y) /\ Only({"obj"}, x, y) /\ DOMAIN y.obj = DOMAIN x.obj
       /\ \A j \in DOMAIN x.obj : y.obj[j] = [x.obj[j] EXCEPT !.motion = y.obj[j].motion]
  BY <1>6, <1>11, StopForceSane
<1>13. i \in DOMAIN y.obj /\ y.obj[i] = [x.obj[i] EXCEPT !.motion = y.obj[i].motion]
  BY <1>7, <1>12
<1>14. x.obj[i] \in Object
  BY <1>6, <1>7, SaneForms
<1>15. y.obj[i].kind = "glass" /\ y.obj[i].dir = d /\ y.obj[i].pass = x.obj[i].pass
  BY <1>7, <1>13, <1>14 DEF Object
<1>16. Shaped(w, i)
  BY GoodShaped
<1>17. Fitting(y, i, d, p)
  <2>1. ASSUME NEW pass, pass[d] = p, \A e \in Way : e # d => pass[e] = y.obj[i].pass[e]
        PROVE  ShapeFits(y.obj[i].kind, pass, y.obj[i].dir, y.own[i])
    <3>1. \A e \in Way : pass[e] = w.obj[i].pass[e]
      BY <1>2, <1>7, <1>15, <2>1
    <3>2. "all" \in Way /\ Dir \subseteq Way
      BY DEF Way
    <3>3. w.obj[i].pass["all"] # EMPTY /\ \A e \in Dir : w.obj[i].pass[e] = EMPTY <=> e = d
      BY <1>1, <1>16 DEF Shaped, ShapeFits
    <3>4. pass["all"] # EMPTY /\ \A e \in Dir : pass[e] = EMPTY <=> e = d
      BY <3>1, <3>2, <3>3
    <3> QED BY <1>15, <3>4 DEF ShapeFits, Closet
  <2> QED BY <2>1 DEF Fitting
<1>18. v = SetPassable(y, i, d, p)
  BY <1>1, <1>2, <1>15 DEF Restored, DirOf
<1>19. y.obj[i].kind \notin Wall
  BY <1>15 DEF Wall
<1> QED BY <1>3, <1>12, <1>13, <1>17, <1>18, <1>19, PassKeeps DEF Good

\* A movable's check of the way bumps what stops it, and else changes nothing.
LEMMA CheckMovableGood ==
  ASSUME NEW r, NEW w, Good(r, w), NEW i \in DOMAIN w.obj, w.obj[i].kind \in Movable, w.obj[i].kind # "glassdoor",
         NEW a, a = CheckMovablePassable(w, i)
  PROVE  Good(r, a.w) /\ a.ok \in BOOLEAN /\ (a.ok => a.w = w)
<1>1. PICK leaves : leaves = CanLeave(w, i)
  OBVIOUS
<1>2. PICK n : n = GetNeighbour(w, Owner(w, i), DirOf(w, i))
  OBVIOUS
<1>3. PICK side : side = w.obj[i].pass[DirOf(w, i)]
  OBVIOUS
<1>4. a = IF leaves /\ CanEnter(w, n, i) THEN [w |-> w, ok |-> TRUE]
          ELSE Stopped(BumpAndStop(IF leaves THEN w ELSE Freed(w, i), IF leaves THEN n ELSE Owner(w, i), i),
                       leaves, i, side)
  BY <1>1, <1>2, <1>3 DEF CheckMovablePassable
<1>5. Owner(w, i) \in Tile \cup (DOMAIN w.obj) \cup {None}
  BY OwnerIs DEF Good, Owner
<1>6. DirOf(w, i) \in Dir /\ side \in PassableLevel /\ FULL \in PassableLevel
  BY <1>3, GoodForms DEF Object, DirOf, Way, PassableLevel
<1>7. n \in Tile \cup (DOMAIN w.obj) \cup {None}
  BY <1>2, <1>5, <1>6, NeighbourIsTile DEF GetNeighbour
<1>8. CASE leaves /\ CanEnter(w, n, i)
  BY <1>4, <1>8
<1>9. CASE leaves /\ ~CanEnter(w, n, i)
  <2>1. a = [w |-> BumpAndStop(w, n, i), ok |-> FALSE]
    BY <1>4, <1>9 DEF Stopped
  <2> QED BY <1>7, <2>1, BumpAndStopGood
<1>10. CASE ~leaves
  <2>1. PICK x : x = Freed(w, i)
    OBVIOUS
  <2>2. PICK y : y = BumpAndStop(x, Owner(w, i), i)
    OBVIOUS
  <2>3. PICK v : v = Restored(y, i, side)
    OBVIOUS
  <2>4. a = [w |-> v, ok |-> FALSE]
    BY <1>4, <1>10, <2>1, <2>2, <2>3 DEF Stopped
  <2>5. CASE w.obj[i].kind = "glass"
    BY <1>3, <2>1, <2>2, <2>3, <2>4, <2>5, StoppedGlassGood
  <2>6. CASE w.obj[i].kind # "glass"
    <3>1. w.obj[i].kind \notin Wall \cup {"glass", "glassdoor"} /\ i \notin Tile
      BY <2>6, GoodForms DEF Movable, Wall, Mob, Projectile, Item, Gun, Cloth, Closet, Structure, Breakable
    <3>2. PICK q : q = FULL
      OBVIOUS
    <3>3. x = SetPassable(w, i, DirOf(w, i), q) /\ q \in PassableLevel
      BY <1>6, <2>1, <3>2 DEF Freed
    <3>4. Good(r, x)
      BY <3>1, <3>3, SideGood
    <3> PICK d : d = DirOf(w, i)
      OBVIOUS
    <3>5. Sane(Nil, Nil \cup {i}, r, x) /\ Only({"obj", "sum", "flags"}, w, x) /\ x.obj = PassSet(w, i, d, q)
      BY <3>3, PassStepIs
    <3>6. DOMAIN x.obj = DOMAIN w.obj /\ x.obj[i].kind = w.obj[i].kind
      BY <1>6, <3>5, PassSetIs DEF Good, Way
    <3>7. Good(r, y)
      BY <1>5, <2>2, <3>4, <3>6, BumpAndStopGood
    <3>8. i \in DOMAIN y.obj => y.obj[i].kind = w.obj[i].kind
      <4>1. Good(x, x)
        BY <3>4, SaneStart DEF Good, Sane
      <4>2. Good(x, y)
        BY <1>5, <2>2, <3>6, <4>1, BumpAndStopGood
      <4>3. Remains(x, y)
        BY <4>2 DEF Good, Sane, Since
      <4> QED BY <3>6, <4>3 DEF Remains
    <3>9. v = SetPassable(y, i, DirOf(y, i), side)
      BY <2>3 DEF Restored
    <3>10. Good(r, v)
      BY <1>6, <3>1, <3>7, <3>8, <3>9, SideGood
    <3> QED BY <2>4, <3>10
  <2> QED BY <2>5, <2>6
<1> QED BY <1>8, <1>9, <1>10

-----------------------------------------------------------------------------
(* Steps: bullets, and the step itself.                                    *)

\* A non-empty set of positions has its greatest element.
LEMMA MaxIsIn ==
  ASSUME NEW n \in Nat, NEW S, S \subseteq 1 .. n, S # {}
  PROVE  Max(S) \in S
<1>1. OutFold!MaxOf(S) \in S
  BY OutFold!MaxIsIn
<1> QED BY <1>1 DEF OutFold!MaxOf, Max

\* The last item of a class on a tile is an object of that class.
LEMMA LastItemIs ==
  ASSUME NEW A, NEW U, NEW r, NEW w, Sane(A, U, r, w), NEW t \in Tile, NEW class, HasItem(w, t, class)
  PROVE  LastItem(w, t, class) \in DOMAIN w.obj /\ w.obj[LastItem(w, t, class)].kind \in class
<1>1. PICK S : S = ItemsOf(w, t, class)
  OBVIOUS
<1>2. w.content[t] \in Seq(Nat)
  BY SaneForms DEF Formed, Contents
<1>3. S # {} /\ S \subseteq 1 .. Len(w.content[t]) /\ Len(w.content[t]) \in Nat
  BY <1>1, <1>2 DEF ItemsOf, HasItem
<1>4. Max(S) \in S
  BY <1>3, MaxIsIn
<1>5. Max(S) \in DOMAIN w.content[t] /\ w.obj[w.content[t][Max(S)]].kind \in class
  BY <1>1, <1>4 DEF ItemsOf
<1>6. w.content[t][Max(S)] \in DOMAIN w.obj
  BY <1>5, ContentIs
<1> QED BY <1>1, <1>5, <1>6 DEF LastItem

\* Turfs, closets and projectiles are on tiles.
LEMMA RootedHome ==
  ASSUME NEW U, NEW r, NEW w, Sane(Nil, U, r, w), NEW i \in DOMAIN w.obj, w.obj[i].kind \in Rooted
  PROVE  w.obj[i].owner \in Tile
BY DEF Sane, Sound, Nearly, Settled, Homed, Nil

\* The check of the way, projectiles included.
LEMMA CheckPassableGood ==
  ASSUME NEW r, NEW w, Good(r, w), NEW i \in DOMAIN w.obj, w.obj[i].kind \in Movable, w.obj[i].kind # "glassdoor",
         NEW a, a = CheckPassable(w, i)
  PROVE  Good(r, a.w) /\ a.ok \in BOOLEAN /\ (a.ok => a.w = w)
<1>1. PICK b : b = IF Strikes(w, i) THEN [w |-> Wound(w, HumanAt(w, i), i), ok |-> FALSE]
                   ELSE IF Is(w, i, {"laser"}) THEN CheckLaserPassable(w, i) ELSE CheckMovablePassable(w, i)
  OBVIOUS
<1>2. a = EndOfFlight(b, i)
  BY <1>1 DEF CheckPassable
<1>3. KindOf(w, i) = w.obj[i].kind
  BY GoodForms
<1>4. Good(r, b.w) /\ b.ok \in BOOLEAN /\ (b.ok => b.w = w) /\ b = [w |-> b.w, ok |-> b.ok]
  <2>1. CASE Strikes(w, i)
    <3>1. w.obj[i].kind \in Projectile /\ HumanAt(w, i) # None
      BY <1>3, <2>1 DEF Strikes, Is
    <3>2. Owner(w, i) \in Tile
      BY <3>1, RootedHome DEF Good, Rooted, Owner
    <3>3. PICK t \in Tile : t = Owner(w, i)
      BY <3>2
    <3>4. HasItem(w, t, {"human"}) /\ HumanAt(w, i) = LastItem(w, t, {"human"})
      BY <3>1, <3>3 DEF HumanAt
    <3>5. IsHuman(w, HumanAt(w, i))
      BY <3>4, LastItemIs DEF IsHuman, Good
    <3>6. PICK h : h = HumanAt(w, i)
      OBVIOUS
    <3>7. Good(r, Wound(w, h, i))
      BY <3>5, <3>6, WoundSane DEF Good
    <3>8. b = [w |-> Wound(w, h, i), ok |-> FALSE]
      BY <1>1, <2>1, <3>6
    <3> QED BY <3>7, <3>8
  <2>2. CASE ~Strikes(w, i) /\ Is(w, i, {"laser"})
    BY <1>1, <2>2 DEF CheckLaserPassable
  <2>3. CASE ~Strikes(w, i) /\ ~Is(w, i, {"laser"})
    <3>1. b = CheckMovablePassable(w, i)
      BY <1>1, <2>3
    <3>2. b = [w |-> b.w, ok |-> b.ok]
      BY <3>1 DEF CheckMovablePassable, Stopped
    <3> QED BY <3>1, <3>2, CheckMovableGood
  <2> QED BY <2>1, <2>2, <2>3
<1>5. CASE b.ok \/ ~Is(b.w, i, Projectile)
  <2>1. a = b
    BY <1>2, <1>5 DEF EndOfFlight
  <2> QED BY <1>4, <2>1
<1>6. CASE ~b.ok /\ Is(b.w, i, Projectile)
  <2>1. PICK x : x = b.w
    OBVIOUS
  <2>2. Good(r, x) /\ i # Hand
    BY <1>4, <2>1, GoodForms
  <2>3. i \in DOMAIN x.obj /\ x.obj[i].kind \in Projectile
    BY <1>6, <2>1, <2>2 DEF Is, KindOf, IsValid, Projectile
  <2>4. Mortal(x.obj[i].kind) /\ x.obj[i].kind \notin Mob
    BY <2>3 DEF Mortal, Projectile, Wall, Closet, Mob
  <2>5. Unminded(x, i)
    BY <2>2, <2>4, GoodForms, UnmindedGood
  <2>6. Good(r, DeleteObject(x, i))
    BY <2>2, <2>3, <2>4, <2>5, DeleteGood
  <2>7. a = [w |-> DeleteObject(x, i), ok |-> FALSE]
    BY <1>2, <1>4, <1>6, <2>1 DEF EndOfFlight
  <2> QED BY <2>6, <2>7
<1> QED BY <1>4, <1>5, <1>6

MoveTarget(w, i) == GetNeighbour(w, Owner(w, i), DirOf(w, i))
LastMoveSet(v, i, tick) == ObjsSet(v, i, [v.obj[i] EXCEPT !.last_move = tick])

\* Who owns an object has it.
LEMMA OwnerHas ==
  ASSUME NEW U, NEW r, NEW w, Sane(Nil, U, r, w), NEW i \in DOMAIN w.obj, w.obj[i].owner # None
  PROVE  Has(w, w.obj[i].owner, i)
BY DEF Sane, Sound, Nearly, Settled, Homed, Nil

\* An object is taken from its tile and put on another one.
LEMMA Carried ==
  ASSUME NEW w, Sound(Nil, Nil, w), NEW i \in DOMAIN w.obj, w.obj[i].kind \in Movable,
         NEW from \in Tile, from = w.obj[i].owner, NEW to \in Tile,
         NEW y, y = AddObject(RemoveObject(w, from, i), to, i)
  PROVE  /\ Sound(Nil, Nil, y) /\ Only({"obj", "content", "turf", "sum", "flags"}, w, y)
         /\ y.obj = OwnerSet(w, i, to)
<1>1. Good(w, w)
  BY SaneStart DEF Good
<1>2. /\ w.obj[i].kind \notin Wall /\ w.obj[i].kind \in Kind \ Turf /\ i # None
      /\ from \notin DOMAIN w.obj /\ from # Hand
  BY <1>1, GoodForms DEF Object, Movable, Turf, Wall, Mob, Projectile, Item, Gun, Cloth, Closet, Structure, Breakable, Tile, Hand
<1>3. Has(w, from, i)
  BY <1>1, <1>2, OwnerHas, NoneIsNoTile DEF Good
<1>4. PICK x : x = RemoveObject(w, from, i)
  OBVIOUS
<1>5. PICK B : B = Nil \cup {i}
  OBVIOUS
<1>6. Sound(B, Nil, x) /\ Only({"content", "turf", "sum", "flags", "own"}, w, x) /\ OwnKept(w, from, x)
  BY <1>2, <1>3, <1>4, <1>5, Removed
<1>7. x.own = w.own
  BY <1>2, <1>6 DEF OwnKept, Is, KindOf, IsValid
<1>8. x.obj = w.obj
  BY <1>6, SameFields
<1>9. y = AddTo(x, to, i)
  BY <1>4 DEF AddObject, Takes, Container
<1>10. w.obj[i].kind \in Suits(to)
  BY <1>2 DEF Suits
<1>11. Sound(B \ {i}, Nil, y) /\ Stored(x, i, to, y)
  BY <1>5, <1>6, <1>8, <1>9, <1>10, AddToSound
<1>12. B \ {i} = Nil
  BY <1>5 DEF Nil
<1>13. y.obj = OwnerSet(w, i, to)
  BY <1>8, <1>11 DEF Stored, OwnerSet
<1>14. Only({"obj", "content", "turf", "sum", "flags"}, w, y)
  BY <1>6, <1>7, <1>11 DEF Only, Stored
<1> QED BY <1>11, <1>12, <1>13, <1>14

LastMoved(w, i, tick, v) == Sound(Nil, Nil, v) /\ Only({"obj"}, w, v) /\ v.obj = LastMoveSet(w, i, tick)

\* Writing the tick of the last move keeps the invariant.
LEMMA LastMoveSound ==
  ASSUME NEW w, Sound(Nil, Nil, w), NEW i \in DOMAIN w.obj, NEW v, NEW tick, tick = w.tick,
         v = [w EXCEPT !.obj[i].last_move = tick]
  PROVE  LastMoved(w, i, tick, v)
<1>1. Good(w, w)
  BY SaneStart DEF Good
<1>2. Formed(w) /\ DOMAIN w = Members /\ w.obj[i] \in Object /\ w.tick \in Nat /\ OwnFits(w, w.obj[i].kind, w.own[i])
  BY <1>1, GoodForms
<1>3. PICK o : o = [w.obj[i] EXCEPT !.last_move = tick]
  OBVIOUS
<1>4. /\ o \in Object /\ o.kind = w.obj[i].kind /\ o.owner = w.obj[i].owner /\ o.last_move = tick
      /\ o.motion = w.obj[i].motion /\ o.anchored = w.obj[i].anchored /\ o.pass = w.obj[i].pass /\ o.dir = w.obj[i].dir
  BY <1>2, <1>3 DEF Object
<1>5. Only({"obj"}, w, v) /\ v.obj = ObjsSet(w, i, o)
  BY <1>2, <1>3 DEF Only, ObjsSet, Members
<1>6. /\ DOMAIN v.obj = DOMAIN w.obj /\ v.obj[i] = o /\ v.obj = [j \in DOMAIN w.obj |-> v.obj[j]]
      /\ \A j \in DOMAIN w.obj : j # i => v.obj[j] = w.obj[j]
  BY <1>2, <1>5 DEF ObjsSet, Formed, Objects
<1>7. /\ v.own = w.own /\ v.list = w.list /\ v.to_add = w.to_add /\ v.chance = w.chance
      /\ v.under_force = w.under_force
  BY <1>5, SameFields
<1>8. Forces(w) /\ Shaped(w, i)
  BY GoodShaped, <1>1 DEF Sound, Nearly
<1>9. ObjFits(w, v, i)
  <2>1. v.obj[i] \in Object /\ v.obj[i].kind = w.obj[i].kind /\ v.obj[i].owner = w.obj[i].owner
    BY <1>4, <1>6
  <2>2. v.obj[i].last_move <= w.tick
    BY <1>2, <1>4, <1>6
  <2>3. w.obj[i].kind = "glassdoor" => v.obj[i].anchored
    BY <1>1, <1>4, <1>6, GoodForms
  <2>4. ~IsZero(v.obj[i].motion.force) =>
          w.obj[i].kind \in Movable /\ i \in ToSet(v.to_add) \cup ToSet(v.under_force)
    BY <1>4, <1>6, <1>7, <1>8 DEF Forces
  <2> QED BY <2>1, <2>2, <2>3, <2>4 DEF ObjFits
<1>10. OwnStays(w, v, i)
  BY <1>2, <1>7 DEF OwnStays
<1>11. QueuesGrow(w, v)
  BY <1>2, <1>7, QueuesSame
<1>12. Changes(w, v, i)
  <2>1. Only({"obj", "own", "list", "to_add", "chance", "failed", "lobby", "env"}, w, v)
    BY <1>5 DEF Only
  <2>2. v.own = [j \in DOMAIN w.obj |-> v.own[j]]
    BY <1>2, <1>7 DEF Formed, Owned
  <2> QED BY <1>6, <1>7, <1>9, <1>10, <1>11, <2>1, <2>2 DEF Changes
<1>13. Nearly(Nil, Nil \cup {i}, None, v)
  <2>1. Nearly(Nil, Nil, None, w)
    BY DEF Sound
  <2>2. v.obj[i].pass = w.obj[i].pass
    BY <1>4, <1>6
  <2> QED BY <1>12, <2>1, <2>2, Changed
<1>14. Shaped(v, i)
  BY <1>4, <1>6, <1>7, <1>8 DEF Shaped
<1>15. i \notin Tile
  BY <1>1, GoodForms
<1>16. Nearly(Nil, Nil, None, v)
  <2>1. CASE v.obj[i].kind \notin Wall
    BY <1>13, <1>14, <1>15, <2>1, Straightened
  <2>2. CASE v.obj[i].kind \in Wall
    <3>1. Twins(w, v)
      BY <1>4, <1>6 DEF Twins
    <3>2. v.turf = w.turf
      BY <1>5, SameFields
    <3>3. Walls(Nil, w) /\ Shapes(Nil, w)
      BY DEF Sound, Nearly
    <3>4. Walls(Nil, v)
      BY <1>7, <3>1, <3>2, <3>3, WallsSame
    <3>5. Shapes(Nil, v)
      BY <1>6, <1>7, <1>14, <3>3 DEF Shapes, Shaped
    <3> QED BY <1>13, <3>4, <3>5 DEF Nearly
  <2> QED BY <2>1, <2>2
<1> QED BY <1>3, <1>5, <1>16 DEF Sound, LastMoveSet, LastMoved

\* A step changes what there is in no other way.
MovedOnly(w, i, v) == DOMAIN v.obj = DOMAIN w.obj /\ v.own = w.own /\ v.obj[i].kind = w.obj[i].kind

\* A step to the next tile keeps the invariant, and moves that object only.
LEMMA MainMoveGood ==
  ASSUME NEW r, NEW w, Good(r, w), NEW i \in DOMAIN w.obj, w.obj[i].kind \in Movable,
         w.obj[i].kind \in Projectile \/ w.obj[i].last_move < w.tick,
         NEW a, a = MainMove(w, i)
  PROVE  Good(r, a.w) /\ a.ok \in BOOLEAN /\ MovedOnly(w, i, a.w)
<1>1. PICK from : from = w.obj[i].owner
  OBVIOUS
<1>2. PICK d : d = w.obj[i].dir
  OBVIOUS
<1>3. PICK to : to = GetNeighbour(w, from, d)
  OBVIOUS
<1>4. a = IF to = from THEN [w |-> w, ok |-> FALSE]
          ELSE [w |-> [AddObject(RemoveObject(w, from, i), to, i) EXCEPT !.obj[i].last_move = w.tick], ok |-> TRUE]
  BY <1>1, <1>2, <1>3 DEF MainMove, Owner, DirOf
<1>5. CASE to = from
  BY <1>4, <1>5 DEF MovedOnly
<1>6. CASE to # from
  <2>1. d \in Dir
    BY <1>2, GoodForms DEF Object
  <2>2. from \in Tile /\ to = Neighbour(from, d)
    BY <1>3, <1>6 DEF GetNeighbour
  <2>3. to \in Tile /\ NextTo(from, to)
    BY <1>6, <2>1, <2>2, NeighbourIsTile, NeighbourNext
  <2>4. PICK y : y = AddObject(RemoveObject(w, from, i), to, i)
    OBVIOUS
  <2>5. Sound(Nil, Nil, w) /\ Formed(w)
    BY GoodForms DEF Good, Sane
  <2>6. /\ Sound(Nil, Nil, y) /\ Only({"obj", "content", "turf", "sum", "flags"}, w, y)
        /\ y.obj = OwnerSet(w, i, to)
    BY <1>1, <2>2, <2>3, <2>4, <2>5, Carried
  <2>7. PICK v : v = [y EXCEPT !.obj[i].last_move = w.tick]
    OBVIOUS
  <2>8. /\ DOMAIN y.obj = DOMAIN w.obj /\ y.obj[i].owner = to
        /\ \A j \in DOMAIN w.obj : j # i => y.obj[j] = w.obj[j]
        /\ \A j \in DOMAIN w.obj : y.obj[j].kind = w.obj[j].kind /\ y.obj[j].last_move = w.obj[j].last_move
    BY <2>5, <2>6, OwnerSetIs DEF Formed
  <2>9. y.tick = w.tick
    BY <2>6, SameFields
  <2>10. Sound(Nil, Nil, v) /\ Only({"obj"}, y, v) /\ v.obj = LastMoveSet(y, i, w.tick)
    <3>1. PICK tick : tick = w.tick
      OBVIOUS
    <3>2. i \in DOMAIN y.obj /\ tick = y.tick /\ v = [y EXCEPT !.obj[i].last_move = tick]
      BY <2>7, <2>8, <2>9, <3>1
    <3>3. Sound(Nil, Nil, y)
      BY <2>6
    <3>4. LastMoved(y, i, tick, v)
      BY ONLY <3>2, <3>3, LastMoveSound
    <3> QED BY <3>1, <3>4 DEF LastMoved
  <2>11. y.obj[i] \in Object /\ w.obj[i] \in Object
    <3>1. Good(y, y)
      BY <2>6, SaneStart DEF Good
    <3> QED BY <2>8, <3>1, GoodForms
  <2>12. /\ DOMAIN v.obj = DOMAIN w.obj /\ v.obj[i].owner = to /\ v.obj[i].last_move = w.tick
         /\ v.obj[i].kind = w.obj[i].kind
         /\ \A j \in DOMAIN w.obj : j # i => v.obj[j] = w.obj[j]
    BY <2>8, <2>10, <2>11 DEF LastMoveSet, ObjsSet, Object
  <2>13. Only({"obj", "content", "turf", "sum", "flags"}, w, v)
    BY <2>6, <2>10 DEF Only
  <2>14. /\ v.own = w.own /\ v.last = w.last /\ v.tick = w.tick /\ v.list = w.list
         /\ v.to_add = w.to_add /\ v.under_force = w.under_force
    BY <2>13, SameFields
  <2>15. w.obj[i].last_move <= w.tick /\ w.last \in Nat /\ w.tick \in Nat /\ Len(w.list) \in Nat
    BY <2>5 DEF Formed, Objects, Counted, Queues
  <2>16. Remains(w, v)
    BY <2>12, <2>14, <2>15 DEF Remains, Waiting
  <2>17. ASSUME NEW j \in DOMAIN w.obj PROVE Moves(w, v, j)
    <3>1. CASE j = i
      <4>1. v.obj[i].owner \in Tile /\ NextTo(w.obj[i].owner, v.obj[i].owner)
        BY <1>1, <2>3, <2>12
      <4> QED BY <2>12, <2>15, <3>1, <4>1 DEF Moves
    <3>2. CASE j # i
      <4>1. v.obj[j] = w.obj[j] /\ w.obj[j].last_move \in Nat
        BY <2>12, <3>2, GoodForms DEF Object
      <4> QED BY <4>1 DEF Moves
    <3> QED BY <3>1, <3>2
  <2>18. Since(w, v)
    BY <2>16, <2>17 DEF Since
  <2>19. Good(r, v)
    BY <2>10, <2>18, SaneStep DEF Good
  <2>20. a = [w |-> v, ok |-> TRUE]
    BY <1>4, <1>6, <2>4, <2>7
  <2>21. MovedOnly(w, i, v)
    BY <2>12, <2>14 DEF MovedOnly
  <2> QED BY <2>19, <2>20, <2>21
<1> QED BY <1>5, <1>6

\* TryMove without those that pull keeps the invariant.
LEMMA MoveAloneGood ==
  ASSUME NEW r, NEW w, Good(r, w), NEW i \in DOMAIN w.obj, w.obj[i].kind \in Movable, NEW d \in Dir,
         NEW a, a = MoveAlone(w, i, d)
  PROVE  Good(r, a.w) /\ a.ok \in BOOLEAN
<1>1. /\ w.tick \in Nat /\ w.obj[i].last_move \in Nat /\ KindOf(w, i) = w.obj[i].kind
      /\ w.obj[i].kind = "glassdoor" => w.obj[i].anchored
  BY GoodForms DEF Object
<1>2. TickSpeed(KindOf(w, i)) \in {1, 5}
  BY DEF TickSpeed
<1>3. CASE w.tick - w.obj[i].last_move < TickSpeed(KindOf(w, i)) \/ w.obj[i].anchored
  BY <1>3 DEF MoveAlone
<1>4. CASE ~(w.tick - w.obj[i].last_move < TickSpeed(KindOf(w, i))) /\ ~w.obj[i].anchored
  <2>1. PICK x : x = Rotate(w, i, d)
    OBVIOUS
  <2>2. PICK b : b = CheckPassable(x, i)
    OBVIOUS
  <2>3. a = IF b.ok THEN MainMove(b.w, i) ELSE b
    BY <1>4, <2>1, <2>2 DEF MoveAlone, Then
  <2>4. w.obj[i].last_move < w.tick /\ w.obj[i].kind # "glassdoor"
    BY <1>1, <1>2, <1>4
  <2>5. Good(r, x) /\ Stays(w, x)
    BY <2>1, <2>4, RotateGood
  <2>6. /\ i \in DOMAIN x.obj /\ x.obj[i].kind = w.obj[i].kind /\ x.obj[i].last_move = w.obj[i].last_move
        /\ x.tick = w.tick
    BY <2>5, SameFields DEF Stays, Twins
  <2>7. Good(r, b.w) /\ b.ok \in BOOLEAN /\ (b.ok => b.w = x)
    BY <2>2, <2>4, <2>5, <2>6, CheckPassableGood
  <2>8. CASE b.ok
    <3>1. a = MainMove(x, i)
      BY <2>3, <2>7, <2>8
    <3> QED BY <2>4, <2>5, <2>6, <3>1, MainMoveGood
  <2>9. CASE ~b.ok
    BY <2>3, <2>7, <2>9
  <2> QED BY <2>7, <2>8, <2>9
<1> QED BY <1>3, <1>4

-----------------------------------------------------------------------------
(* Rows of people who pull each other.                                     *)

\* The one whose turn is next is there, and who pulls it is a human.
RowKnows(c, k, row) ==
  /\ Good(c.r, row.w) /\ row.way \in Dir /\ row.ok \in BOOLEAN
  /\ row.next # None =>
       /\ row.next \in DOMAIN row.w.obj /\ row.w.obj[row.next].kind \in Movable
       /\ row.by = None \/ IsHuman(row.w, row.by)

RowOp(c, row, n) == Pull(row, n)

RowFold == INSTANCE FoldInduction WITH Op <- RowOp, P <- RowKnows

\* What follows is a movable that a human pulls.
LEMMA FollowsIs ==
  ASSUME NEW x, NEW a, Good(x, a.w), NEW i \in DOMAIN x.obj, Follows(x, a, i), Good(x, x)
  PROVE  /\ IsHuman(x, i) /\ IsHuman(a.w, i)
         /\ x.own[i].pulled \in DOMAIN a.w.obj /\ a.w.obj[x.own[i].pulled].kind \in Movable
<1>1. KindOf(x, i) = "human" /\ Pulls(a.w, i)
  BY DEF Follows, Pulls, Is
<1>2. IsHuman(x, i)
  BY <1>1, GoodForms DEF IsHuman
<1>3. Remains(x, a.w) /\ Formed(a.w)
  BY GoodForms DEF Good, Sane, Since
<1>4. IsHuman(a.w, i)
  BY <1>2, <1>3 DEF IsHuman, Remains
<1>5. a.w.own[i].pulled \in DOMAIN a.w.obj
  BY <1>1 DEF Pulls, IsValid
<1>6. a.w.own[i].pulled # None
  BY <1>5, GoodForms
<1>7. a.w.own[i].pulled = x.own[i].pulled
  BY <1>2, <1>3, <1>6 DEF Remains, IsHuman
<1>8. Refers(a.w, a.w.own[i].pulled, Movable \ Projectile)
  BY <1>3, <1>4, HumanOwn
<1>9. a.w.obj[a.w.own[i].pulled].kind \in Movable
  BY <1>5, <1>8 DEF Refers, IsValid
<1> QED BY <1>2, <1>4, <1>5, <1>7, <1>9

\* The loop's invariant holds for one more in the row.
LEMMA RowStep ==
  ASSUME NEW c, NEW k, NEW row, RowKnows(c, k, row), NEW n
  PROVE  RowKnows(c, k + 1, RowOp(c, row, n))
<1>1. CASE row.next = None
  BY <1>1 DEF RowOp, Pull, RowKnows
<1>2. CASE row.next # None
  <2>1. PICK i : i = row.next
    OBVIOUS
  <2>2. PICK x : x = KeepPulling(row.w, i)
    OBVIOUS
  <2>3. Good(c.r, row.w) /\ i \in DOMAIN row.w.obj /\ row.w.obj[i].kind \in Movable
    BY <1>2, <2>1 DEF RowKnows
  <2>4. Good(c.r, x) /\ Only({"own"}, row.w, x)
    BY <2>2, <2>3, KeepPullingSane DEF Good
  <2>5. x.obj = row.w.obj
    BY <2>4, SameFields
  <2>6. Good(x, x)
    BY <2>4, SaneStart DEF Good, Sane
  <2>7. PICK a : a = MoveAlone(x, i, row.way)
    OBVIOUS
  <2>8. Good(c.r, a.w) /\ Good(x, a.w) /\ a.ok \in BOOLEAN
    BY <2>3, <2>4, <2>5, <2>6, <2>7, MoveAloneGood DEF RowKnows
  <2>9. PICK y : y = IF a.ok \/ row.by = None THEN a.w ELSE StopPull(a.w, row.by)
    OBVIOUS
  <2>10. PICK next : next = IF Follows(x, a, i) THEN x.own[i].pulled ELSE None
    OBVIOUS
  <2>11. PICK way : way = IF Follows(x, a, i) THEN VDirToDir(Distance(x, i, x.own[i].pulled)) ELSE row.way
    OBVIOUS
  <2>12. PICK ok : ok = IF row.by = None THEN a.ok ELSE row.ok
    OBVIOUS
  <2>13. RowOp(c, row, n) = [w |-> y, ok |-> ok, next |-> next, way |-> way, by |-> i]
    BY <1>2, <2>1, <2>2, <2>7, <2>9, <2>10, <2>11, <2>12 DEF RowOp, Pull, Step, Row
  <2>14. Good(c.r, y) /\ y.obj = a.w.obj
    <3>1. CASE a.ok \/ row.by = None
      BY <2>8, <2>9, <3>1
    <3>2. CASE ~a.ok /\ row.by # None
      <4>1. IsHuman(x, row.by)
        BY <1>2, <2>5, <3>2 DEF RowKnows, IsHuman
      <4>2. IsHuman(a.w, row.by)
        BY <2>8, <4>1 DEF Good, Sane, Since, Remains, IsHuman
      <4>3. Good(c.r, StopPull(a.w, row.by)) /\ Only({"own"}, a.w, StopPull(a.w, row.by))
        BY <2>8, <4>2, StopPullSane DEF Good
      <4>4. StopPull(a.w, row.by).obj = a.w.obj
        BY <4>3, SameFields
      <4> QED BY <2>9, <3>2, <4>3, <4>4
    <3> QED BY <3>1, <3>2
  <2>15. way \in Dir /\ ok \in BOOLEAN
    BY <2>8, <2>11, <2>12, VectorTypes DEF RowKnows, VDirToDir, Dir
  <2>16. next # None => next \in DOMAIN y.obj /\ y.obj[next].kind \in Movable /\ IsHuman(y, i)
    <3>1. SUFFICES ASSUME next # None
                   PROVE next \in DOMAIN y.obj /\ y.obj[next].kind \in Movable /\ IsHuman(y, i)
      OBVIOUS
    <3>2. Follows(x, a, i) /\ next = x.own[i].pulled
      BY <2>10, <3>1
    <3>3. IsHuman(a.w, i) /\ next \in DOMAIN a.w.obj /\ a.w.obj[next].kind \in Movable
      BY <2>3, <2>5, <2>6, <2>8, <3>2, FollowsIs
    <3> QED BY <2>14, <3>3 DEF IsHuman
  <2> QED BY <2>13, <2>14, <2>15, <2>16 DEF RowKnows
<1> QED BY <1>1, <1>2

\* TryMove as a fold over the row of those that pull each other.
LEMMA RowIsFold ==
  ASSUME NEW c, NEW w, NEW i, NEW d, NEW n, n = Cardinality({h \in DOMAIN w.obj : w.obj[h].kind = "human"}) + 2
  PROVE  TryMove(w, i, d) = RowFold!Folded(c, [w |-> w, ok |-> FALSE, next |-> i, way |-> d, by |-> None],
                                           [m \in 1 .. n |-> m])
BY DEF RowFold!Folded, RowFold!MaxOf, TryMove, RowOp, FoldLeft, MapThenFoldSet, Max

\* TryMove keeps the invariant for the whole row.
LEMMA TryMoveGood ==
  ASSUME NEW r, NEW w, Good(r, w), NEW i \in DOMAIN w.obj, w.obj[i].kind \in Movable, NEW d \in Dir,
         NEW a, a = TryMove(w, i, d)
  PROVE  Good(r, a.w) /\ a.ok \in BOOLEAN
<1>1. PICK S : S = {h \in DOMAIN w.obj : w.obj[h].kind = "human"}
  OBVIOUS
<1>2. PICK n : n = Cardinality(S) + 2
  OBVIOUS
<1>3. n \in Nat
  <2>1. S \subseteq 1 .. w.last /\ w.last \in Nat
    BY <1>1, GoodForms
  <2>2. IsFiniteSet(1 .. w.last)
    BY <2>1, FS_Interval
  <2>3. IsFiniteSet(S)
    BY <2>1, <2>2, FS_Subset
  <2> QED BY <1>2, <2>3, FS_CardinalityType
<1>4. PICK c : c = [r |-> r]
  OBVIOUS
<1>5. PICK s : s = [m \in 1 .. n |-> m]
  OBVIOUS
<1>6. PICK row : row = [w |-> w, ok |-> FALSE, next |-> i, way |-> d, by |-> None]
  OBVIOUS
<1>7. RowKnows(c, 0, row)
  BY <1>4, <1>6 DEF RowKnows
<1>8. \A k \in 0 .. n - 1 : \A v : RowKnows(c, k, v) => RowKnows(c, k + 1, RowOp(c, v, s[k + 1]))
  BY RowStep
<1>9. DOMAIN s = 1 .. n
  BY <1>5
<1>10. RowKnows(c, n, RowFold!Folded(c, row, s))
  BY <1>3, <1>7, <1>8, <1>9, RowFold!FoldKeeps
<1>11. a = RowFold!Folded(c, row, s)
  BY <1>1, <1>2, <1>5, <1>6, RowIsFold
<1> QED BY <1>4, <1>10, <1>11 DEF RowKnows

-----------------------------------------------------------------------------
(* Forces over time.                                                       *)

\* Nothing changed but the tick, the queues and what is asked of none of the objects.
LEMMA ScalarSound ==
  ASSUME NEW A, NEW U, NEW w, Sound(A, U, w), NEW v,
         Only({"list", "to_add", "under_force", "chance", "failed", "lobby", "env", "tick"}, w, v),
         v.tick \in Nat, w.tick <= v.tick, Queues(v), Forces(v)
  PROVE  Sound(A, U, v)
<1>1. /\ v.obj = w.obj /\ v.own = w.own /\ v.content = w.content /\ v.turf = w.turf /\ v.sum = w.sum
      /\ v.flags = w.flags /\ v.last = w.last /\ v.mind = w.mind /\ v.music = w.music /\ DOMAIN v = Members
  BY SameFields
<1>2. Formed(w) /\ Settled(A, w) /\ Sums(None, w) /\ Shapes(U, w) /\ Minds(w) /\ Walls(U, w)
  BY DEF Sound, Nearly
<1>3. Twins(w, v) /\ Kin(w, v)
  BY <1>1 DEF Twins, Kin
<1>4. Counted(v)
  BY <1>1, <1>2 DEF Formed, Counted
<1>5. Objects(v)
  <2>1. \A i \in DOMAIN w.obj : w.obj[i].last_move \in Nat
    BY <1>2 DEF Formed, Objects, Object
  <2> QED BY <1>1, <1>2, <2>1 DEF Formed, Objects, Counted
<1>6. Owned(v)
  BY <1>1, <1>2 DEF Formed, Owned, OwnFits, Refers, IsValid
<1>7. Contents(v) /\ Grid(v)
  BY <1>1, <1>2, <1>3, ContentsSame DEF Formed, Grid
<1>8. Settled(A, v)
  BY <1>1, <1>2, <1>3, SettledSame DEF SameSlots
<1>9. Sums(None, v)
  BY <1>1, <1>2, <1>3, <1>5, SumsSame DEF Formed, Objects
<1>10. Shapes(U, v)
  BY <1>1, <1>2 DEF Shapes, Shaped
<1>11. Minds(v)
  BY <1>1, <1>2 DEF Minds
<1>12. Walls(U, v)
  BY <1>1, <1>2, <1>3, WallsSame
<1> QED BY <1>4, <1>5, <1>6, <1>7, <1>8, <1>9, <1>10, <1>11, <1>12 DEF Sound, Nearly, Formed

\* The force of a step is a vector.
LEMMA StepForceIs == \A d : StepForce(d) \in Vector
BY VectorTypes

\* The motion of what is in a queue may change.
LEMMA MotionGood ==
  ASSUME NEW r, NEW w, Good(r, w), NEW i \in DOMAIN w.obj, w.obj[i].kind \in Movable, i \in Waiting(w),
         NEW m \in Motion, NEW v, v = WithMotion(w, i, m)
  PROVE  Good(r, v) /\ Only({"obj"}, w, v) /\ v.obj = MotionSet(w, i, m)
<1>1. Sane(Nil, Nil, r, w)
  BY DEF Good
<1>2. IsZero(m.force) \/ (w.obj[i].kind \in Movable /\ i \in ToSet(w.to_add) \cup ToSet(w.under_force))
  BY DEF Waiting
<1> QED BY <1>1, <1>2, MotionSane DEF Good

\* What was slowed by friction is still queued.
LEMMA SlowedGood ==
  ASSUME NEW r, NEW a, Good(r, a.w), NEW i, i \in DOMAIN a.w.obj => a.w.obj[i].kind \in Movable /\ i \in Waiting(a.w),
         NEW way
  PROVE  Good(r, Slowed(a, i, way))
<1>1. CASE i \notin DOMAIN a.w.obj
  BY <1>1 DEF Slowed, IsValid
<1>2. CASE i \in DOMAIN a.w.obj
  <2>1. PICK w : w = a.w
    OBVIOUS
  <2>2. Good(r, w) /\ i \in DOMAIN w.obj /\ w.obj[i].kind \in Movable /\ i \in Waiting(w)
    BY <1>2, <2>1
  <2>3. PICK m : m = w.obj[i].motion
    OBVIOUS
  <2>4. m \in Motion /\ DOMAIN w = Members /\ w.obj[i] \in Object
    BY <2>2, <2>3, GoodForms DEF Object
  <2>5. CASE ~a.ok
    <3>1. PICK f : f = [m EXCEPT !.force = Zero, !.error = 0]
      OBVIOUS
    <3>2. f \in Motion
      <4>1. 0 \in -(ERROR_SCALE \div 2) .. (3 * ERROR_SCALE) \div 2 /\ Zero \in Vector
        BY VectorTypes DEF ERROR_SCALE
      <4> QED BY <2>4, <3>1, <4>1 DEF Motion
    <3>3. PICK v : v = WithMotion(w, i, f)
      OBVIOUS
    <3>4. Good(r, v)
      BY <2>2, <3>2, <3>3, MotionGood
    <3>5. v = [w EXCEPT !.obj[i].motion.force = Zero, !.obj[i].motion.error = 0]
      BY <2>3, <2>4, <3>1, <3>3 DEF WithMotion, Object
    <3> QED BY <1>2, <2>1, <2>5, <3>4, <3>5 DEF Slowed, IsValid
  <2>6. CASE a.ok /\ Grips(w, Root(w, i))
    <3>1. PICK g : g = Minus(m.force, StepForce(way))
      OBVIOUS
    <3>2. g \in Vector
      BY <2>4, <3>1, VectorTypes DEF Motion
    <3>3. PICK f : f = [m EXCEPT !.force = g]
      OBVIOUS
    <3>4. f \in Motion
      BY <2>4, <3>2, <3>3 DEF Motion
    <3>5. PICK v : v = WithMotion(w, i, f)
      OBVIOUS
    <3>6. Good(r, v)
      BY <2>2, <3>4, <3>5, MotionGood
    <3>7. v = [w EXCEPT !.obj[i].motion.force = Minus(@, StepForce(way))]
      BY <2>3, <2>4, <3>1, <3>3, <3>5 DEF WithMotion
    <3> QED BY <1>2, <2>1, <2>6, <3>6, <3>7 DEF Slowed, IsValid
  <2>7. CASE a.ok /\ ~Grips(w, Root(w, i))
    BY <1>2, <2>1, <2>7 DEF Slowed, IsValid
  <2> QED BY <2>5, <2>6, <2>7
<1> QED BY <1>1, <1>2

\* One turn of the physics engine keeps the invariant.
LEMMA ProcessForceGood ==
  ASSUME NEW r, NEW w, Good(r, w), NEW i, UnderForce(w, i)
  PROVE  Good(r, ProcessForce(w, i))
<1>1. i \in DOMAIN w.obj /\ ~IsZero(w.obj[i].motion.force)
  BY DEF UnderForce, IsValid
<1>2. w.obj[i].kind \in Movable /\ i \in Waiting(w)
  BY <1>1 DEF Good, Sane, Sound, Nearly, Forces, Waiting
<1>3. PICK m : m = w.obj[i].motion
  OBVIOUS
<1>4. m \in Motion
  BY <1>1, <1>3, GoodForms DEF Object
<1>5. PICK way : way = ForceStep(m).way
  OBVIOUS
<1>6. PICK f : f = [m EXCEPT !.error = ForceStep(m).error]
  OBVIOUS
<1>7. way \in Way /\ f \in Motion
  BY <1>4, <1>5, <1>6, ForceStepIs DEF Motion
<1>8. PICK x : x = WithMotion(w, i, f)
  OBVIOUS
<1>9. Good(r, x) /\ Only({"obj"}, w, x) /\ x.obj = MotionSet(w, i, f)
  BY <1>1, <1>2, <1>7, <1>8, MotionGood
<1>10. x = [w EXCEPT !.obj[i].motion.error = ForceStep(w.obj[i].motion).error]
  BY <1>3, <1>6, <1>8 DEF WithMotion
<1>11. ProcessForce(w, i) = IF way = "all" THEN x ELSE Slowed(TryMove(x, i, way), i, way)
  BY <1>3, <1>5, <1>10 DEF ProcessForce
<1>12. CASE way = "all"
  BY <1>9, <1>11, <1>12
<1>13. CASE way # "all"
  <2>1. way \in Dir
    BY <1>7, <1>13 DEF Way
  <2>2. PICK a : a = TryMove(x, i, way)
    OBVIOUS
  <2>3. i \in DOMAIN x.obj /\ x.obj[i].kind \in Movable
    BY <1>1, <1>2, <1>9, GoodForms DEF MotionSet, ObjsSet, Object
  <2>4. i \in Waiting(x)
    BY <1>2, <1>9, SameFields DEF Waiting
  <2>5. Good(x, x)
    BY <1>9, SaneStart DEF Good, Sane
  <2>6. Good(r, a.w) /\ Good(x, a.w)
    BY <1>9, <2>1, <2>2, <2>3, <2>5, TryMoveGood
  <2>7. Remains(x, a.w)
    BY <2>6 DEF Good, Sane, Since
  <2>8. i \in DOMAIN a.w.obj => a.w.obj[i].kind \in Movable /\ i \in Waiting(a.w)
    BY <2>3, <2>4, <2>7 DEF Remains
  <2>9. Good(r, Slowed(a, i, way))
    BY <2>6, <2>8, SlowedGood
  <2> QED BY <1>11, <1>13, <2>2, <2>9
<1> QED BY <1>12, <1>13

-----------------------------------------------------------------------------
(* The queues of the physics engine.                                       *)

\* What of the first k elements of a sequence is in the set.
AmongOp(c, s, i) == IF i \in c.ids THEN Append(s, i) ELSE s

AmongKnows(c, k, s) ==
  /\ s \in Seq(c.type)
  /\ ToSet(s) = {c.seq[m] : m \in 1 .. k} \cap c.ids
  /\ (\A m, n \in 1 .. Len(c.seq) : c.seq[m] = c.seq[n] => m = n) =>
       \A m, n \in 1 .. Len(s) : s[m] = s[n] => m = n

AmongFold == INSTANCE FoldInduction WITH Op <- AmongOp, P <- AmongKnows

\* The filter by ids as a fold over the sequence.
LEMMA AmongIsFold ==
  ASSUME NEW c
  PROVE  Among(c.seq, c.ids) = AmongFold!Folded(c, <<>>, c.seq)
BY DEF AmongFold!Folded, AmongFold!MaxOf, Among, AmongOp, FoldLeft, MapThenFoldSet, Max

\* The loop's invariant holds for one element more.
LEMMA AmongStep ==
  ASSUME NEW c, c.seq \in Seq(c.type), NEW k \in 0 .. Len(c.seq) - 1, NEW s, AmongKnows(c, k, s)
  PROVE  AmongKnows(c, k + 1, AmongOp(c, s, c.seq[k + 1]))
<1>1. PICK e : e = c.seq[k + 1]
  OBVIOUS
<1>2. Len(c.seq) \in Nat /\ k + 1 \in 1 .. Len(c.seq) /\ e \in c.type
  BY <1>1, LenProperties
<1>3. 1 .. k + 1 = (1 .. k) \cup {k + 1}
  BY <1>2
<1>4. {c.seq[m] : m \in 1 .. k + 1} = {c.seq[m] : m \in 1 .. k} \cup {e}
  BY <1>1, <1>3
<1>5. CASE e \notin c.ids
  BY <1>1, <1>4, <1>5 DEF AmongOp, AmongKnows
<1>6. CASE e \in c.ids
  <2>1. PICK v : v = Append(s, e)
    OBVIOUS
  <2>2. s \in Seq(c.type) /\ ToSet(s) = {c.seq[m] : m \in 1 .. k} \cap c.ids
    BY DEF AmongKnows
  <2>3. PICK S : S = c.type
    OBVIOUS
  <2>4. /\ v \in Seq(S) /\ Len(v) = Len(s) + 1
        /\ \A n \in 1 .. Len(s) : v[n] = s[n]
        /\ v[Len(s) + 1] = e
        /\ ToSet(v) = ToSet(s) \cup {e}
    BY <1>2, <2>1, <2>2, <2>3, AppendIs
  <2>5. ToSet(v) = {c.seq[m] : m \in 1 .. k + 1} \cap c.ids
    BY <1>4, <1>6, <2>2, <2>4
  <2>6. ASSUME \A m, n \in 1 .. Len(c.seq) : c.seq[m] = c.seq[n] => m = n,
               NEW m \in 1 .. Len(v), NEW n \in 1 .. Len(v), v[m] = v[n]
        PROVE m = n
    <3>1. Len(s) \in Nat
      BY <2>2, LenProperties
    <3>2. \A j \in 1 .. Len(s) : s[j] \in ToSet(s)
      BY <2>2, LenProperties DEF ToSet
    <3>3. e \notin ToSet(s)
      <4>1. SUFFICES ASSUME e \in ToSet(s) PROVE FALSE
        OBVIOUS
      <4>2. PICK j \in 1 .. k : c.seq[j] = e
        BY <2>2, <4>1
      <4> QED BY <1>1, <1>2, <2>6, <4>2
    <3>4. \A i, j \in 1 .. Len(s) : s[i] = s[j] => i = j
      BY <2>6 DEF AmongKnows
    <3> QED BY <2>4, <2>6, <3>1, <3>2, <3>3, <3>4
  <2> QED BY <1>1, <1>6, <2>1, <2>3, <2>4, <2>5, <2>6 DEF AmongOp, AmongKnows
<1> QED BY <1>1, <1>5, <1>6

\* The filter keeps the elements that are among the ids, once each.
LEMMA AmongIs ==
  ASSUME NEW S, NEW seq \in Seq(S), NEW ids
  PROVE  /\ Among(seq, ids) \in Seq(S)
         /\ ToSet(Among(seq, ids)) = ToSet(seq) \cap ids
         /\ (\A m, n \in 1 .. Len(seq) : seq[m] = seq[n] => m = n) =>
              \A m, n \in 1 .. Len(Among(seq, ids)) : Among(seq, ids)[m] = Among(seq, ids)[n] => m = n
<1>1. PICK c : c = [seq |-> seq, ids |-> ids, type |-> S]
  OBVIOUS
<1>2. PICK n : n = Len(seq)
  OBVIOUS
<1>3. n \in Nat /\ DOMAIN seq = 1 .. n
  BY <1>2, LenProperties
<1>4. AmongKnows(c, 0, <<>>)
  <2>1. PICK s : s = <<>>
    OBVIOUS
  <2>2. s \in Seq(S) /\ Len(s) = 0 /\ DOMAIN s = 1 .. 0 /\ 1 .. 0 = {}
    BY <2>1
  <2>3. ToSet(s) = {}
    BY <2>2 DEF ToSet
  <2> QED BY <1>1, <2>1, <2>2, <2>3 DEF AmongKnows
<1>5. \A k \in 0 .. n - 1 : \A v : AmongKnows(c, k, v) => AmongKnows(c, k + 1, AmongOp(c, v, seq[k + 1]))
  BY <1>1, <1>2, AmongStep
<1>6. AmongKnows(c, n, AmongFold!Folded(c, <<>>, seq))
  BY <1>3, <1>4, <1>5, AmongFold!FoldKeeps
<1>7. PICK v : v = Among(seq, ids)
  OBVIOUS
<1>8. v = AmongFold!Folded(c, <<>>, seq)
  BY <1>1, <1>7, AmongIsFold
<1>9. AmongKnows(c, n, v)
  BY <1>6, <1>8
<1>10. {seq[m] : m \in 1 .. n} = ToSet(seq)
  BY <1>3 DEF ToSet
<1> QED BY <1>1, <1>2, <1>7, <1>9, <1>10 DEF AmongKnows

\* A sorted set of ids has each of them once.
LEMMA SortedIs ==
  ASSUME NEW w, w.last \in Nat, NEW ids, ids \subseteq 1 .. w.last
  PROVE  /\ SortedIds(w, ids) \in Seq(1 .. w.last)
         /\ ToSet(SortedIds(w, ids)) = ids
         /\ \A m, n \in 1 .. Len(SortedIds(w, ids)) : SortedIds(w, ids)[m] = SortedIds(w, ids)[n] => m = n
<1>1. PICK n : n = w.last
  OBVIOUS
<1>2. PICK S : S = 1 .. n
  OBVIOUS
<1>3. PICK seq : seq = [i \in 1 .. n |-> i]
  OBVIOUS
<1>4. seq \in Seq(S) /\ Len(seq) = n /\ DOMAIN seq = 1 .. n
  BY <1>1, <1>2, <1>3, SeqDef
<1>5. ToSet(seq) = S
  BY <1>2, <1>3, <1>4 DEF ToSet
<1>6. \A i, j \in 1 .. Len(seq) : seq[i] = seq[j] => i = j
  BY <1>3, <1>4
<1>7. PICK s : s = Among(seq, ids)
  OBVIOUS
<1>8. /\ s \in Seq(S) /\ ToSet(s) = ToSet(seq) \cap ids
      /\ \A i, j \in 1 .. Len(s) : s[i] = s[j] => i = j
  BY <1>4, <1>6, <1>7, AmongIs
<1>9. SortedIds(w, ids) = s
  BY <1>1, <1>3, <1>7 DEF SortedIds
<1> QED BY <1>1, <1>2, <1>5, <1>8, <1>9

\* Moving the new forces to the queue loses none.
LEMMA QueueIs ==
  ASSUME NEW A, NEW U, NEW w, Sound(A, U, w)
  PROVE  /\ Sound(A, U, Queue(w)) /\ Only({"under_force", "to_add"}, w, Queue(w))
         /\ Queue(w).to_add = <<>>
<1>1. PICK v : v = Queue(w)
  OBVIOUS
<1>2. PICK ids : ids = {i \in ToSet(w.under_force) : UnderForce(w, i)}
  OBVIOUS
<1>3. PICK left : left = Among(w.under_force, ids)
  OBVIOUS
<1>4. PICK new : new = {i \in ToSet(w.to_add) : UnderForce(w, i)}
  OBVIOUS
<1>5. PICK all : all = ToSet(left) \cup new
  OBVIOUS
<1>6. PICK f : f = IF w.to_add = <<>> THEN left ELSE SortedIds(w, all)
  OBVIOUS
<1>7. v = [w EXCEPT !.under_force = f, !.to_add = <<>>]
  BY <1>1, <1>2, <1>3, <1>4, <1>5, <1>6 DEF Queue
<1>8. Formed(w) /\ Forces(w) /\ DOMAIN w = Members /\ w.last \in Nat
  BY DEF Sound, Nearly, Formed, Counted
<1>9. PICK S : S = 1 .. w.last
  OBVIOUS
<1>10. w.under_force \in Seq(S) /\ w.to_add \in Seq(S)
  BY <1>8, <1>9 DEF Formed, Queues
<1>11. \A m, n \in 1 .. Len(w.under_force) : w.under_force[m] = w.under_force[n] => m = n
  BY <1>8 DEF Forces
<1>12. /\ left \in Seq(S) /\ ToSet(left) = ToSet(w.under_force) \cap ids
       /\ \A m, n \in 1 .. Len(left) : left[m] = left[n] => m = n
  BY <1>3, <1>10, <1>11, AmongIs
<1>13. ToSet(left) = ids
  BY <1>2, <1>12
<1>14. ToSet(w.under_force) \subseteq S /\ ToSet(w.to_add) \subseteq S
  BY <1>10, LenProperties DEF ToSet
<1>15. all \subseteq S
  BY <1>2, <1>4, <1>5, <1>13, <1>14
<1>16. PICK sorted : sorted = SortedIds(w, all)
  OBVIOUS
<1>17. /\ sorted \in Seq(S) /\ ToSet(sorted) = all
       /\ \A m, n \in 1 .. Len(sorted) : sorted[m] = sorted[n] => m = n
  BY <1>8, <1>9, <1>15, <1>16, SortedIs
<1>18. w.to_add = <<>> => ToSet(w.to_add) = {}
  <2>1. SUFFICES ASSUME w.to_add = <<>>, ToSet(w.to_add) # {} PROVE FALSE
    OBVIOUS
  <2>2. DOMAIN w.to_add = {}
    BY <2>1
  <2> QED BY <2>1, <2>2 DEF ToSet
<1>19. /\ f \in Seq(S) /\ ToSet(f) = ids \cup new
       /\ \A m, n \in 1 .. Len(f) : f[m] = f[n] => m = n
  <2>1. CASE w.to_add = <<>>
    <3>1. new = {}
      BY <1>4, <1>18, <2>1
    <3> QED BY <1>6, <1>12, <1>13, <2>1, <3>1
  <2>2. CASE w.to_add # <<>>
    BY <1>5, <1>6, <1>13, <1>16, <1>17, <2>2
  <2> QED BY <2>1, <2>2
<1>20. /\ Only({"under_force", "to_add"}, w, v)
       /\ v.under_force = f /\ v.to_add = <<>>
  BY <1>7, <1>8 DEF Only, Members
<1>21. Only({"list", "to_add", "under_force", "chance", "failed", "lobby", "env", "tick"}, w, v)
  BY <1>20 DEF Only
<1>22. /\ v.obj = w.obj /\ v.last = w.last /\ v.list = w.list /\ v.chance = w.chance /\ v.tick = w.tick
  BY <1>20, SameFields
<1>23. Queues(v)
  <2>1. <<>> \in Seq(S)
    OBVIOUS
  <2> QED BY <1>8, <1>9, <1>19, <1>20, <1>22, <2>1 DEF Formed, Queues
<1>24. Forces(v)
  <2>1. ASSUME NEW i \in DOMAIN v.obj, ~IsZero(v.obj[i].motion.force)
        PROVE v.obj[i].kind \in Movable /\ i \in ToSet(v.to_add) \cup ToSet(v.under_force)
    <3>1. w.obj[i].kind \in Movable /\ i \in ToSet(w.to_add) \cup ToSet(w.under_force)
      BY <1>8, <1>22, <2>1 DEF Forces
    <3>2. UnderForce(w, i)
      BY <1>22, <2>1 DEF UnderForce, IsValid
    <3> QED BY <1>2, <1>4, <1>19, <1>20, <1>22, <3>1, <3>2
  <2> QED BY <1>19, <1>20, <2>1 DEF Forces
<1>25. v.tick \in Nat /\ w.tick <= v.tick
  BY <1>8, <1>22 DEF Formed, Counted
<1>26. Sound(A, U, v)
  BY <1>21, <1>23, <1>24, <1>25, ScalarSound
<1> QED BY <1>1, <1>20, <1>26

-----------------------------------------------------------------------------
(* A round of the physics engine.                                          *)

PhysicsOp(c, v, i) == IF UnderForce(v, i) THEN ProcessForce(v, i) ELSE v
PhysicsKnows(c, k, v) == Good(c.r, v)

PhysicsFold == INSTANCE FoldInduction WITH Op <- PhysicsOp, P <- PhysicsKnows

\* ProcessPhysics as a fold over the queue.
LEMMA PhysicsIsFold ==
  ASSUME NEW c, NEW w, NEW q, q = Queue(w)
  PROVE  ProcessPhysics(w) = PhysicsFold!Folded(c, q, q.under_force)
BY DEF PhysicsFold!Folded, PhysicsFold!MaxOf, ProcessPhysics, PhysicsOp, FoldLeft, MapThenFoldSet, Max

\* ProcessPhysics keeps the invariant.
LEMMA PhysicsGood ==
  ASSUME NEW w, Sound(Nil, Nil, w)
  PROVE  Sound(Nil, Nil, Queue(w)) /\ Good(Queue(w), ProcessPhysics(w))
<1>1. PICK q : q = Queue(w)
  OBVIOUS
<1>2. Sound(Nil, Nil, q)
  BY <1>1, QueueIs
<1>3. Good(q, q)
  BY <1>2, SaneStart DEF Good
<1>4. PICK c : c = [r |-> q]
  OBVIOUS
<1>5. PICK s : s = q.under_force
  OBVIOUS
<1>6. PICK n : n = Len(s)
  OBVIOUS
<1>7. n \in Nat /\ DOMAIN s = 1 .. n
  BY <1>2, <1>5, <1>6, LenProperties DEF Sound, Nearly, Formed, Queues
<1>8. PhysicsKnows(c, 0, q)
  BY <1>3, <1>4 DEF PhysicsKnows
<1>9. \A k \in 0 .. n - 1 : \A v : PhysicsKnows(c, k, v) => PhysicsKnows(c, k + 1, PhysicsOp(c, v, s[k + 1]))
  BY ProcessForceGood DEF PhysicsKnows, PhysicsOp
<1>10. PhysicsKnows(c, n, PhysicsFold!Folded(c, q, s))
  BY <1>7, <1>8, <1>9, PhysicsFold!FoldKeeps
<1>11. ProcessPhysics(w) = PhysicsFold!Folded(c, q, s)
  BY <1>1, <1>5, PhysicsIsFold
<1> QED BY <1>1, <1>2, <1>4, <1>10, <1>11 DEF PhysicsKnows

\* What is no projectile went one tile at most, and had not moved in this tick before.
Strode(r, w, i) ==
  r.obj[i].owner \in Tile /\ w.obj[i].owner \in Tile /\ w.obj[i].owner # r.obj[i].owner =>
    NextTo(r.obj[i].owner, w.obj[i].owner) /\ r.obj[i].last_move < w.tick

Strides(r, w) ==
  \A i \in (DOMAIN r.obj) \cap DOMAIN w.obj : r.obj[i].kind \notin Projectile => Strode(r, w, i)

\* What became of a world in part of a step was at most one stride for each object.
LEMMA SinceStrides ==
  ASSUME NEW r, NEW w, Since(r, w)
  PROVE  Strides(r, w)
BY DEF Strides, Strode, Since, Remains, Moves

\* A world with the same objects, later.
LEMMA StridesLater ==
  ASSUME NEW r, NEW w, NEW v, Strides(r, w), v.obj = r.obj
  PROVE  Strides(v, w)
BY DEF Strides, Strode

\* In a good world the strides are single.
LEMMA GoodStrides ==
  ASSUME NEW r, NEW w, Good(r, w)
  PROVE  Sound(Nil, Nil, w) /\ Strides(r, w)
BY SinceStrides DEF Good, Sane

\* ProcessPhysics as a step of the loop.
LEMMA PhysicsStep ==
  ASSUME NEW w, Sound(Nil, Nil, w)
  PROVE  Sound(Nil, Nil, ProcessPhysics(w)) /\ Strides(w, ProcessPhysics(w))
<1>1. PICK q : q = Queue(w)
  OBVIOUS
<1>2. PICK v : v = ProcessPhysics(w)
  OBVIOUS
<1>3. Good(q, v)
  BY <1>1, <1>2, PhysicsGood
<1>4. Only({"under_force", "to_add"}, w, q)
  BY <1>1, QueueIs
<1>5. w.obj = q.obj
  BY <1>4, SameFields
<1> QED BY <1>2, <1>3, <1>5, GoodStrides, StridesLater

-----------------------------------------------------------------------------
(* What happens to a body.                                                 *)

\* Nothing of a human changes that other objects depend on.
SameBody(o, e) ==
  /\ DOMAIN e = DOMAIN o
  /\ e.slot = o.slot /\ e.active_hand = o.active_hand /\ e.pulled = o.pulled
  /\ e.dead = o.dead /\ e.lying = o.lying

OwnChanged(w, i, e, v) == Only({"own"}, w, v) /\ v.own = OwnsSet(w, i, e)

\* The type of a human.
LEMMA HumanIs ==
  ASSUME NEW r, NEW w, Good(r, w), NEW h, IsHuman(w, h)
  PROVE  /\ h \in DOMAIN w.obj /\ h \in DOMAIN w.own /\ w.obj[h].kind = "human"
         /\ DOMAIN w = Members /\ DOMAIN w.own[h] = DOMAIN NewHuman
         /\ w.own[h].slot \in [Slot -> Nat] /\ w.own[h].active_hand \in {"right_hand", "left_hand"}
         /\ w.own[h].active_hand \in Slot
         /\ Refers(w, w.own[h].pulled, Movable \ Projectile)
         /\ w.own[h].pulled \in 0 .. w.last
<1>1. Formed(w) /\ DOMAIN w = Members /\ DOMAIN w.own = DOMAIN w.obj
  BY GoodForms
<1> QED BY <1>1, HumanOwn DEF IsHuman, Refers

\* What writing an object's own data changes.
LEMMA OwnChangedIs ==
  ASSUME NEW w, DOMAIN w = Members, NEW i, NEW e, NEW v, v = [w EXCEPT !.own[i] = e]
  PROVE  OwnChanged(w, i, e, v)
BY DEF OwnChanged, Only, Members, OwnsSet

\* A change of a body without slots, hand, pull and life keeps the invariant.
LEMMA BodyGood ==
  ASSUME NEW r, NEW w, Good(r, w), NEW h, IsHuman(w, h), NEW e, SameBody(w.own[h], e), NEW v, OwnChanged(w, h, e, v)
  PROVE  Good(r, v) /\ v.obj = w.obj /\ v.mind = w.mind /\ IsHuman(v, h) /\ v.own[h] = e
<1>1. /\ h \in DOMAIN w.obj /\ h \in DOMAIN w.own /\ w.own[h].active_hand \in {"right_hand", "left_hand"}
  BY HumanIs
<1>2. Only({"own"}, w, v) /\ v.own = OwnsSet(w, h, e)
  BY DEF OwnChanged
<1>3. /\ DOMAIN e = DOMAIN w.own[h] /\ e.slot = w.own[h].slot /\ e.active_hand \in {"right_hand", "left_hand"}
      /\ e.pulled \in {w.own[h].pulled, None} /\ e.dead = w.own[h].dead /\ e.lying = w.own[h].lying
  BY <1>1 DEF SameBody
<1>4. Good(r, v)
  BY <1>2, <1>3, HumanStep DEF Good
<1>5. v.obj = w.obj /\ v.mind = w.mind
  BY <1>2, SameFields
<1> QED BY <1>1, <1>2, <1>4, <1>5 DEF IsHuman, OwnsSet

\* Someone lies down or gets up.
LEMMA SetLayingGood ==
  ASSUME NEW r, NEW w, Good(r, w), NEW h, IsHuman(w, h), NEW value \in BOOLEAN,
         NEW v, v = SetLaying(w, h, value)
  PROVE  Good(r, v) /\ IsHuman(v, h) /\ Twins(w, v)
<1>1. CASE ~value /\ w.own[h].lay_timer > 0
  BY <1>1 DEF SetLaying, Twins
<1>2. CASE ~(~value /\ w.own[h].lay_timer > 0)
  <2>1. PICK U : U = Nil \cup {h}
    OBVIOUS
  <2>2. Sane(Nil, U, r, w) /\ h \in U
    BY <2>1, LooseSane DEF Good
  <2>3. /\ h \in DOMAIN w.obj /\ h \in DOMAIN w.own /\ w.obj[h].kind = "human" /\ DOMAIN w = Members
        /\ DOMAIN w.own[h] = DOMAIN NewHuman /\ w.own[h].active_hand \in {"right_hand", "left_hand"}
    BY HumanIs
  <2>4. PICK e : e = [w.own[h] EXCEPT !.lying = value]
    OBVIOUS
  <2>5. /\ DOMAIN e = DOMAIN w.own[h] /\ e.slot = w.own[h].slot /\ e.active_hand = w.own[h].active_hand
        /\ e.pulled = w.own[h].pulled /\ e.dead = w.own[h].dead /\ e.lying = value
    BY <2>3, <2>4 DEF NewHuman
  <2>6. PICK x : x = [w EXCEPT !.own[h].lying = value]
    OBVIOUS
  <2>7. Only({"own"}, w, x) /\ x.own = OwnsSet(w, h, e)
    BY <2>3, <2>4, <2>6 DEF Only, Members, OwnsSet
  <2>8. Sane(Nil, U, r, x)
    BY <2>2, <2>3, <2>5, <2>7, HumanStep
  <2>9. x.obj = w.obj /\ x.own[h] = e
    BY <2>3, <2>7, SameFields DEF OwnsSet
  <2>10. PICK d : d = "all"
    OBVIOUS
  <2>11. PICK p : p = IF value THEN FULL ELSE BIG_ITEM
    OBVIOUS
  <2>12. d \in Way /\ p \in PassableLevel /\ x.obj[h].kind \notin Wall /\ h \in DOMAIN x.obj
    BY <2>3, <2>9, <2>10, <2>11 DEF Way, PassableLevel, Wall
  <2>13. Fitting(x, h, d, p)
    BY <2>3, <2>5, <2>9, <2>10, <2>11 DEF Fitting, ShapeFits, Closet
  <2>14. v = SetPassable(x, h, d, p)
    BY <1>2, <2>6, <2>10, <2>11 DEF SetLaying
  <2>15. Sane(Nil, Nil, r, v) /\ Only({"obj", "sum", "flags"}, x, v) /\ v.obj = PassSet(x, h, d, p)
    <3>1. Sane(Nil, Nil \cup {h}, r, x)
      BY <2>1, <2>8
    <3> QED BY ONLY <2>12, <2>13, <2>14, <3>1, PassKeeps
  <2>16. Stays(x, v)
    BY <2>8, <2>12, <2>15, PassStays
  <2>17. Twins(w, v)
    BY <2>9, <2>16 DEF Stays, Twins
  <2> QED BY <2>3, <2>15, <2>17 DEF Good, Twins, IsHuman
<1> QED BY <1>1, <1>2

\* Damage keeps the invariant.
LEMMA BruteDamageGood ==
  ASSUME NEW r, NEW w, Good(r, w), NEW h, IsHuman(w, h), NEW n, NEW v, v = ApplyBruteDamage(w, h, n)
  PROVE  Good(r, v) /\ v.obj = w.obj /\ v.mind = w.mind /\ IsHuman(v, h)
<1>1. PICK x : x = AtLeast(0, w.own[h].brute + n)
  OBVIOUS
<1>2. PICK e : e = [w.own[h] EXCEPT !.brute = x]
  OBVIOUS
<1>3. h \in DOMAIN w.own /\ DOMAIN w = Members /\ DOMAIN w.own[h] = DOMAIN NewHuman
  BY HumanIs
<1>4. SameBody(w.own[h], e)
  BY <1>2, <1>3 DEF SameBody, NewHuman
<1>5. v = [w EXCEPT !.own[h] = e]
  BY <1>1, <1>2, <1>3 DEF ApplyBruteDamage, Members, NewHuman
<1>6. OwnChanged(w, h, e, v)
  BY <1>3, <1>5, OwnChangedIs
<1> QED BY <1>4, <1>6, BodyGood

\* The time somebody stays down.
LEMMA LayTimerGood ==
  ASSUME NEW r, NEW w, Good(r, w), NEW h, IsHuman(w, h), NEW n, NEW v, v = [w EXCEPT !.own[h].lay_timer = n]
  PROVE  Good(r, v) /\ v.obj = w.obj /\ v.mind = w.mind /\ IsHuman(v, h)
<1>2. PICK e : e = [w.own[h] EXCEPT !.lay_timer = n]
  OBVIOUS
<1>3. h \in DOMAIN w.own /\ DOMAIN w = Members /\ DOMAIN w.own[h] = DOMAIN NewHuman
  BY HumanIs
<1>4. SameBody(w.own[h], e)
  BY <1>2, <1>3 DEF SameBody, NewHuman
<1>5. v = [w EXCEPT !.own[h] = e]
  BY <1>2
<1>6. OwnChanged(w, h, e, v)
  BY <1>3, <1>5, OwnChangedIs
<1> QED BY <1>4, <1>6, BodyGood

\* A human that is knocked out lies: it lets everything through.
LEMMA KnockOutGood ==
  ASSUME NEW r, NEW w, Good(r, w), NEW h, IsHuman(w, h)
  PROVE  Good(r, KnockOut(w, h))
<1>1. PICK value : value = TRUE
  OBVIOUS
<1>2. PICK x : x = SetLaying(w, h, value)
  OBVIOUS
<1>3. Good(r, x) /\ IsHuman(x, h)
  BY <1>1, <1>2, SetLayingGood
<1>4. PICK n : n = x.own[h].lay_timer + KNOCKED_TIME
  OBVIOUS
<1>5. PICK v : v = [x EXCEPT !.own[h].lay_timer = n]
  OBVIOUS
<1>6. KnockOut(w, h) = v
  BY <1>1, <1>2, <1>4, <1>5 DEF KnockOut
<1> QED BY <1>3, <1>5, <1>6, LayTimerGood

\* The item somebody uses: a thing, or the hand itself.
IsUsed(w, item) == item = Hand \/ (item \in DOMAIN w.obj /\ w.obj[item].kind \in Item)

\* What is used as an item of a class is an item of that class.
LEMMA UsedIs ==
  ASSUME NEW r, NEW w, Good(r, w), NEW item, IsUsed(w, item), NEW class, Is(w, item, class), "hand" \notin class
  PROVE  item \in DOMAIN w.obj /\ w.obj[item].kind \in class /\ w.obj[item].kind \in Item
BY GoodForms DEF IsUsed, Is, KindOf, Hand

\* An item may be deleted.
LEMMA ItemGoes ==
  ASSUME NEW r, NEW w, Good(r, w), NEW item \in DOMAIN w.obj, w.obj[item].kind \in Item, NEW v, v = DeleteObject(w, item)
  PROVE  Good(r, v) /\ Deleted(w, item, v)
<1>1. w.obj[item].kind \notin Mob /\ Mortal(w.obj[item].kind) /\ item # None
  BY GoodForms DEF Item, Gun, Cloth, Mob, Mortal, Wall, Closet
<1>2. Unminded(w, item)
  BY <1>1, UnmindedGood
<1> QED BY <1>1, <1>2, DeleteGood

\* An attack on a human keeps the invariant.
LEMMA HumanAttackedGood ==
  ASSUME NEW r, NEW w, Good(r, w), NEW h, IsHuman(w, h), NEW item, IsUsed(w, item)
  PROVE  Good(r, HumanAttacked(w, h, item))
<1>1. PICK hurt : hurt = ApplyBruteDamage(w, h, 100 * Damage(KindOf(w, item)))
  OBVIOUS
<1>2. Good(r, hurt) /\ IsHuman(hurt, h)
  BY <1>1, BruteDamageGood
<1>3. CASE Is(w, item, {"brutepack"})
  <2>1. item \in DOMAIN w.obj /\ w.obj[item].kind \in Item
    BY <1>3, UsedIs
  <2>2. PICK n : n = -1000
    OBVIOUS
  <2>3. PICK x : x = ApplyBruteDamage(w, h, n)
    OBVIOUS
  <2>4. Good(r, x) /\ x.obj = w.obj
    BY <2>3, BruteDamageGood
  <2>5. Good(r, DeleteObject(x, item))
    BY <2>1, <2>4, ItemGoes
  <2> QED BY <1>3, <2>2, <2>3, <2>5 DEF HumanAttacked
<1>4. CASE ~Is(w, item, {"brutepack"})
  BY <1>1, <1>2, <1>4, KnockOutGood DEF HumanAttacked
<1> QED BY <1>3, <1>4

-----------------------------------------------------------------------------
(* Minds.                                                                  *)

\* Only who minds what is different, and what they hear.
LEMMA MindsOnly ==
  ASSUME NEW r, NEW w, Good(r, w), NEW v, Only({"mind", "music"}, w, v), Minds(v)
  PROVE  Good(r, v) /\ v.obj = w.obj /\ v.own = w.own
<1>1. /\ v.obj = w.obj /\ v.own = w.own /\ v.content = w.content /\ v.turf = w.turf /\ v.sum = w.sum
      /\ v.flags = w.flags /\ v.tick = w.tick /\ v.last = w.last /\ v.list = w.list /\ v.to_add = w.to_add
      /\ v.under_force = w.under_force /\ v.chance = w.chance /\ DOMAIN v = Members
  BY SameFields
<1>2. /\ Sound(Nil, Nil, w) /\ Since(r, w) /\ Formed(r)
      /\ Formed(w) /\ Settled(Nil, w) /\ Sums(None, w) /\ Shapes(Nil, w) /\ Forces(w) /\ Walls(Nil, w)
  BY DEF Good, Sane, Sound, Nearly
<1>3. Twins(w, v) /\ Kin(w, v)
  BY <1>1 DEF Twins, Kin
<1>4. Counted(v) /\ Objects(v) /\ Queues(v)
  BY <1>1, <1>2 DEF Formed, Counted, Objects, Queues
<1>5. Owned(v)
  <2>1. v.obj = w.obj /\ v.last = w.last
    BY <1>1
  <2>2. \A kind, own : OwnFits(w, kind, own) => OwnFits(v, kind, own)
    BY <2>1 DEF OwnFits, Refers, IsValid
  <2> QED BY <1>1, <1>2, <2>2 DEF Formed, Owned
<1>6. Contents(v) /\ Grid(v)
  BY <1>1, <1>2, <1>3, ContentsSame DEF Formed, Grid
<1>7. Settled(Nil, v)
  BY <1>1, <1>2, <1>3, SettledSame DEF SameSlots
<1>8. Sums(None, v)
  BY <1>1, <1>2, <1>3, SumsSame DEF Formed
<1>9. Shapes(Nil, v) /\ Forces(v)
  BY <1>1, <1>2 DEF Shapes, Shaped, Forces
<1>10. Walls(Nil, v)
  BY <1>1, <1>2, <1>3, WallsSame
<1>11. Formed(v)
  BY <1>4, <1>5, <1>6 DEF Formed
<1>12. Since(r, v)
  BY <1>1, <1>2 DEF Since, Remains, Moves, Waiting
<1> QED BY <1>1, <1>2, <1>7, <1>8, <1>9, <1>10, <1>11, <1>12 DEF Good, Sane, Sound, Nearly

\* What PlayMusic changes.
LEMMA PlayMusicIs ==
  ASSUME NEW w, DOMAIN w = Members, NEW i, NEW name, NEW v, v = PlayMusic(w, i, name)
  PROVE  /\ Only({"music"}, w, v)
         /\ v.music = [q \in Player |-> IF w.mind[q] = i THEN name ELSE w.music[q]]
<1>1. PICK f : f = [q \in Player |-> IF q \in NetIds(w, i) THEN name ELSE w.music[q]]
  OBVIOUS
<1>2. v = [w EXCEPT !.music = f]
  BY <1>1, KeptIs DEF PlayMusic
<1>3. f = [q \in Player |-> IF w.mind[q] = i THEN name ELSE w.music[q]]
  BY <1>1 DEF NetIds
<1>4. Only({"music"}, w, v) /\ v.music = f
  BY <1>2 DEF Only, Members
<1> QED BY <1>3, <1>4

\* What a mob's player hears when the mind is in it, or was.
MusicSet(w, i, name) == [q \in Player |-> IF w.mind[q] = i THEN name ELSE w.music[q]]

\* The music a mind leaves or meets in a login mob.
LEMMA MusicIs ==
  ASSUME NEW w, DOMAIN w = Members, NEW i, NEW name, NEW v, w.music = [q \in Player |-> w.music[q]],
         v = IF Is(w, i, {"loginmob"}) THEN PlayMusic(w, i, name) ELSE w
  PROVE  /\ Only({"music"}, w, v)
         /\ v.music = IF Is(w, i, {"loginmob"}) THEN MusicSet(w, i, name) ELSE w.music
<1>1. CASE Is(w, i, {"loginmob"})
  BY <1>1, PlayMusicIs DEF MusicSet
<1>2. CASE ~Is(w, i, {"loginmob"})
  BY <1>2 DEF Only
<1> QED BY <1>1, <1>2

\* One mind went from one mob to another.
MindSet(w, p, i) == [w.mind EXCEPT ![p] = i]

\* A mind that moved to a free and living mob keeps the minds sound.
LEMMA MindMoved ==
  ASSUME NEW r, NEW w, Good(r, w), NEW p \in Player, NEW to \in DOMAIN w.obj,
         w.obj[to].kind \in Mob, w.obj[to].kind = "human" => ~w.own[to].dead, Unminded(w, to),
         w.music[p] # LOBBY_MUSIC \/ w.mind[p] # None,
         NEW v, Only({"mind", "music"}, w, v), v.mind = MindSet(w, p, to),
         v.music \in [Player -> {Unheard, LOBBY_MUSIC, Silence}],
         \A q \in Player : q # p => v.music[q] = w.music[q],
         v.music[p] = LOBBY_MUSIC <=> w.obj[to].kind = "loginmob"
  PROVE  Good(r, v) /\ v.obj = w.obj /\ (w.mind[p] # None => Unminded(v, w.mind[p]))
<1>1. v.obj = w.obj /\ v.own = w.own /\ to # None /\ to \in Nat
  BY SameFields, GoodForms
<1>2. /\ w.mind \in [Player -> Nat]
      /\ \A q \in Player : w.mind[q] # None =>
           /\ w.mind[q] \in DOMAIN w.obj /\ w.obj[w.mind[q]].kind \in Mob
           /\ w.obj[w.mind[q]].kind = "human" => ~w.own[w.mind[q]].dead
      /\ \A q, s \in Player : w.mind[q] = w.mind[s] /\ w.mind[q] # None => q = s
      /\ \A q \in Player : w.music[q] = LOBBY_MUSIC <=> w.mind[q] # None /\ w.obj[w.mind[q]].kind = "loginmob"
  BY DEF Good, Sane, Sound, Nearly, Minds
<1>3. /\ v.mind \in [Player -> Nat] /\ v.mind[p] = to
      /\ \A q \in Player : q # p => v.mind[q] = w.mind[q]
  BY <1>1, <1>2 DEF MindSet
<1>4. \A q \in Player : w.mind[q] # to
  BY DEF Unminded
<1>5. \A q \in Player : v.mind[q] # None =>
        /\ v.mind[q] \in DOMAIN v.obj /\ v.obj[v.mind[q]].kind \in Mob
        /\ v.obj[v.mind[q]].kind = "human" => ~v.own[v.mind[q]].dead
  BY <1>1, <1>2, <1>3
<1>6. \A q, s \in Player : v.mind[q] = v.mind[s] /\ v.mind[q] # None => q = s
  BY <1>2, <1>3, <1>4
<1>7. \A q \in Player : v.music[q] = LOBBY_MUSIC <=> v.mind[q] # None /\ v.obj[v.mind[q]].kind = "loginmob"
  BY <1>1, <1>2, <1>3
<1>8. Minds(v)
  BY <1>3, <1>5, <1>6, <1>7 DEF Minds
<1>9. w.mind[p] # None => Unminded(v, w.mind[p])
  BY <1>2, <1>3, <1>4 DEF Unminded
<1> QED BY <1>1, <1>8, <1>9, MindsOnly

\* What the minds are.
LEMMA MindForms ==
  ASSUME NEW r, NEW w, Good(r, w)
  PROVE  /\ w.mind \in [Player -> Nat] /\ w.music \in [Player -> {Unheard, LOBBY_MUSIC, Silence}]
         /\ w.music = [q \in Player |-> w.music[q]]
         /\ \A q, s \in Player : w.mind[q] = w.mind[s] /\ w.mind[q] # None => q = s
         /\ \A q \in Player : w.music[q] = LOBBY_MUSIC <=> w.mind[q] # None /\ w.obj[w.mind[q]].kind = "loginmob"
BY DEF Good, Sane, Sound, Nearly, Minds

\* What SetPlayerId changes.
LEMMA SetPlayerIs ==
  ASSUME NEW w, DOMAIN w = Members, NEW p, NEW i, NEW v, v = SetPlayerId(w, p, i)
  PROVE  Only({"mind"}, w, v) /\ v.mind = MindSet(w, p, i)
BY DEF SetPlayerId, Only, Members, MindSet

\* MoveMindTo a free and living mob keeps the invariant, and frees the old one.
LEMMA MoveMindGood ==
  ASSUME NEW r, NEW w, Good(r, w), NEW from \in DOMAIN w.obj, NEW to \in DOMAIN w.obj,
         w.obj[to].kind \in Mob, w.obj[to].kind = "human" => ~w.own[to].dead, Unminded(w, to),
         NEW v, v = MoveMindTo(w, from, to)
  PROVE  Good(r, v) /\ v.obj = w.obj /\ v.own = w.own /\ Unminded(v, from)
<1>1. CASE ~IsMinded(w, from)
  BY <1>1 DEF MoveMindTo, IsMinded, NetIds, Unminded
<1>2. CASE IsMinded(w, from)
  <2>1. PICK p : p = CHOOSE q \in NetIds(w, from) : TRUE
    OBVIOUS
  <2>2. p \in Player /\ w.mind[p] = from
    BY <1>2, <2>1 DEF IsMinded, NetIds
  <2>3. from # None /\ to # None /\ KindOf(w, from) = w.obj[from].kind /\ KindOf(w, to) = w.obj[to].kind
        /\ DOMAIN w = Members
    BY GoodForms
  <2>4. PICK x : x = MindExit(w, from)
    OBVIOUS
  <2>5. Only({"music"}, w, x) /\ x.music = IF Is(w, from, {"loginmob"}) THEN MusicSet(w, from, Silence) ELSE w.music
    BY <2>3, <2>4, MusicIs, MindForms DEF MindExit
  <2>6. x.obj = w.obj /\ x.mind = w.mind /\ DOMAIN x = Members
    BY <2>5, SameFields
  <2>7. PICK y : y = SetPlayerId(x, p, to)
    OBVIOUS
  <2>8. Only({"mind"}, x, y) /\ y.mind = MindSet(w, p, to)
    BY <2>6, <2>7, SetPlayerIs DEF MindSet
  <2>9. y.obj = w.obj /\ y.music = x.music /\ DOMAIN y = Members
    BY <2>6, <2>8, SameFields
  <2>10. v = MindEnter(y, to)
    BY <1>2, <2>1, <2>4, <2>7 DEF MoveMindTo
  <2>11. y.music = [q \in Player |-> y.music[q]]
    BY <2>5, <2>9, MindForms DEF MusicSet
  <2>12. Only({"music"}, y, v) /\ v.music = IF Is(y, to, {"loginmob"}) THEN MusicSet(y, to, LOBBY_MUSIC) ELSE y.music
    BY <2>9, <2>10, <2>11, MusicIs DEF MindEnter
  <2>13. Only({"mind", "music"}, w, v) /\ v.mind = MindSet(w, p, to)
    <3>1. v.mind = y.mind
      BY <2>12, SameFields
    <3> QED BY <2>5, <2>8, <2>12, <3>1 DEF Only
  <2>14. /\ Is(w, from, {"loginmob"}) <=> w.obj[from].kind = "loginmob"
         /\ Is(y, to, {"loginmob"}) <=> w.obj[to].kind = "loginmob"
    BY <2>3, <2>9 DEF Is, KindOf, IsValid
  <2>26. /\ w.mind \in [Player -> Nat]
         /\ \A q, s \in Player : w.mind[q] = w.mind[s] /\ w.mind[q] # None => q = s
    BY DEF Good, Sane, Sound, Nearly, Minds
  <2>27. /\ w.music \in [Player -> {Unheard, LOBBY_MUSIC, Silence}]
         /\ w.music[p] = LOBBY_MUSIC <=> w.mind[p] # None /\ w.obj[w.mind[p]].kind = "loginmob"
    BY <2>2, MindForms
  <2>15. /\ \A q \in Player : w.mind[q] = from <=> q = p
         /\ \A q \in Player : y.mind[q] = to <=> q = p
    BY <2>2, <2>3, <2>8, <2>26 DEF Unminded, MindSet
  <2>16. \A q \in Player : y.music[q] = IF q = p /\ w.obj[from].kind = "loginmob" THEN Silence ELSE w.music[q]
    BY <2>5, <2>9, <2>14, <2>15 DEF MusicSet
  <2>17. \A q \in Player : v.music[q] = IF q = p /\ w.obj[to].kind = "loginmob" THEN LOBBY_MUSIC ELSE y.music[q]
    BY <2>12, <2>14, <2>15 DEF MusicSet
  <2>18. v.music = [q \in Player |-> v.music[q]]
    BY <2>11, <2>12 DEF MusicSet
  <2>19. v.music \in [Player -> {Unheard, LOBBY_MUSIC, Silence}]
    BY <2>16, <2>17, <2>18, <2>27
  <2>20. LOBBY_MUSIC # Silence
    BY DEF LOBBY_MUSIC, Silence
  <2>21. v.music[p] = LOBBY_MUSIC <=> w.obj[to].kind = "loginmob"
    BY <2>2, <2>3, <2>16, <2>17, <2>20, <2>27
  <2>22. \A q \in Player : q # p => v.music[q] = w.music[q]
    BY <2>16, <2>17
  <2>23. w.mind[p] # None
    BY <2>2, <2>3
  <2>24. Good(r, v) /\ v.obj = w.obj /\ Unminded(v, from)
    BY <2>2, <2>13, <2>19, <2>21, <2>22, <2>23, MindMoved
  <2>25. v.own = w.own
    BY <2>13, SameFields
  <2> QED BY <2>24, <2>25
<1> QED BY <1>1, <1>2

-----------------------------------------------------------------------------
(* Players come, people die and ghosts return.                             *)

\* What the mind that is in the new mob makes it hear.
LEMMA NewClientGood ==
  ASSUME NEW r, NEW w, Good(r, w), NEW p \in Player
  PROVE  Good(r, NewClient(w, p))
<1>1. CASE w.mind[p] # None
  BY <1>1 DEF NewClient
<1>2. CASE w.mind[p] = None
  <2>1. PICK i : i = NewId(w)
    OBVIOUS
  <2>2. PICK kind : kind = "loginmob"
    OBVIOUS
  <2>3. PICK x : x = Create(w, kind, None)
    OBVIOUS
  <2>4. PlainAt(kind, None)
    BY <2>2 DEF PlainAt, Plain, Kind, Movable, Mob, Rooted, Turf, Wall, Closet, Projectile
  <2>5. Good(r, x) /\ Gained(w, x, i, kind)
    BY <2>1, <2>3, <2>4, CreateGood
  <2>6. x.mind = w.mind /\ x.music = w.music /\ i \in DOMAIN x.obj /\ x.obj[i].kind = kind /\ i = w.last + 1
    BY <2>5, SameFields DEF Gained
  <2>7. Unminded(x, i)
    BY <2>1, <2>6, NewId_Fresh DEF Good, Unminded
  <2>8. i # None /\ DOMAIN x = Members /\ KindOf(x, i) = kind
    BY <2>5, <2>6, GoodForms
  <2>9. PICK y : y = SetPlayerId(x, p, i)
    OBVIOUS
  <2>10. Only({"mind"}, x, y) /\ y.mind = MindSet(x, p, i)
    BY <2>8, <2>9, SetPlayerIs
  <2>11. y.obj = x.obj /\ y.music = x.music /\ DOMAIN y = Members
    BY <2>10, SameFields
  <2>12. PICK v : v = MindEnter(y, i)
    OBVIOUS
  <2>13. y.music = [q \in Player |-> y.music[q]]
    BY <2>5, <2>11, MindForms
  <2>14. Is(y, i, {"loginmob"})
    BY <2>2, <2>8, <2>11 DEF Is, KindOf, IsValid
  <2>15. Only({"music"}, y, v) /\ v.music = MusicSet(y, i, LOBBY_MUSIC)
    BY <2>11, <2>12, <2>13, <2>14, MusicIs DEF MindEnter
  <2>16. Only({"mind", "music"}, x, v) /\ v.mind = MindSet(x, p, i)
    <3>1. v.mind = y.mind
      BY <2>15, SameFields
    <3> QED BY <2>10, <2>15, <3>1 DEF Only
  <2>17. x.mind \in [Player -> Nat] /\ x.music \in [Player -> {Unheard, LOBBY_MUSIC, Silence}]
    BY <2>5, MindForms
  <2>18. \A q \in Player : y.mind[q] = i <=> q = p
    BY <2>7, <2>10, <2>17 DEF Unminded, MindSet
  <2>19. \A q \in Player : v.music[q] = IF q = p THEN LOBBY_MUSIC ELSE x.music[q]
    BY <2>11, <2>15, <2>18 DEF MusicSet
  <2>20. v.music = [q \in Player |-> v.music[q]]
    BY <2>15 DEF MusicSet
  <2>21. v.music \in [Player -> {Unheard, LOBBY_MUSIC, Silence}]
    BY <2>17, <2>19, <2>20
  <2>22. x.music[p] # LOBBY_MUSIC
    <3>1. w.music[p] = LOBBY_MUSIC => w.mind[p] # None
      BY DEF Good, Sane, Sound, Nearly, Minds
    <3> QED BY <1>2, <2>6, <3>1
  <2>23. x.obj[i].kind \in Mob /\ x.obj[i].kind # "human"
    BY <2>2, <2>6 DEF Mob
  <2>24. \A q \in Player : q # p => v.music[q] = x.music[q]
    BY <2>19
  <2>25. v.music[p] = LOBBY_MUSIC <=> x.obj[i].kind = "loginmob"
    BY <2>2, <2>6, <2>19
  <2>26. Good(r, v)
    BY <2>5, <2>6, <2>7, <2>16, <2>21, <2>22, <2>23, <2>24, <2>25, MindMoved
  <2>27. NewClient(w, p) = v
    BY <1>2, <2>1, <2>2, <2>3, <2>9, <2>12 DEF NewClient
  <2> QED BY <2>26, <2>27
<1> QED BY <1>1, <1>2

\* A mob without a mind goes.
LEMMA DeleteMobGood ==
  ASSUME NEW r, NEW w, Good(r, w), NEW i \in DOMAIN w.obj, w.obj[i].kind \in {"ghost", "loginmob"}, Unminded(w, i),
         NEW v, v = DeleteMob(w, i)
  PROVE  Good(r, v)
<1>1. PICK x : x = MindExit(w, i)
  OBVIOUS
<1>2. DOMAIN w = Members
  BY GoodForms
<1>3. Only({"music"}, w, x) /\ x.music = IF Is(w, i, {"loginmob"}) THEN MusicSet(w, i, Silence) ELSE w.music
  BY <1>1, <1>2, MusicIs, MindForms DEF MindExit
<1>4. w.music = [q \in Player |-> w.music[q]]
  BY MindForms
<1>5. x.music = w.music
  BY <1>3, <1>4 DEF MusicSet, Unminded
<1>6. x.obj = w.obj /\ x.own = w.own /\ x.mind = w.mind
  BY <1>3, SameFields
<1>7. Minds(x)
  BY <1>5, <1>6 DEF Good, Sane, Sound, Nearly, Minds
<1>8. Only({"mind", "music"}, w, x)
  BY <1>3 DEF Only
<1>9. Good(r, x)
  BY <1>7, <1>8, MindsOnly
<1>10. Mortal(x.obj[i].kind) /\ Unminded(x, i)
  BY <1>6 DEF Mortal, Wall, Closet, Unminded
<1> QED BY <1>1, <1>6, <1>9, <1>10, DeleteGood DEF DeleteMob

\* A new mob takes the mind of another; what it is and where.
LEMMA NewMobGood ==
  ASSUME NEW r, NEW w, Good(r, w), NEW from \in DOMAIN w.obj, NEW kind \in {"ghost", "loginmob"}, NEW owner,
         NEW i, i = NewId(w), NEW v, v = MoveMindTo(Create(w, kind, owner), from, i)
  PROVE  Good(r, v) /\ Unminded(v, from) /\ from \in DOMAIN v.obj /\ v.obj[from] = w.obj[from] /\ v.own[from] = w.own[from]
<1>1. PICK x : x = Create(w, kind, owner)
  OBVIOUS
<1>2. PlainAt(kind, owner)
  BY DEF PlainAt, Plain, Kind, Movable, Mob, Rooted, Turf, Wall, Closet, Projectile
<1>3. Good(r, x) /\ Gained(w, x, i, kind)
  BY <1>1, <1>2, CreateGood
<1>4. /\ x.mind = w.mind /\ i \in DOMAIN x.obj /\ x.obj[i].kind = kind /\ i = w.last + 1
      /\ from \in DOMAIN x.obj /\ x.obj[from] = w.obj[from] /\ x.own[from] = w.own[from]
  BY <1>3, SameFields DEF Gained
<1>5. Unminded(x, i)
  BY <1>4, NewId_Fresh DEF Good, Unminded
<1>6. x.obj[i].kind \in Mob /\ x.obj[i].kind # "human"
  BY <1>4 DEF Mob
<1>7. Good(r, v) /\ v.obj = x.obj /\ v.own = x.own /\ Unminded(v, from)
  BY <1>1, <1>3, <1>4, <1>5, <1>6, MoveMindGood
<1> QED BY <1>4, <1>7

\* A death moves the mind to a ghost before the body is dead.
LEMMA OnDeathGood ==
  ASSUME NEW r, NEW w, Good(r, w), NEW h, IsHuman(w, h)
  PROVE  Good(r, OnDeath(w, h))
<1>1. PICK i : i = NewId(w)
  OBVIOUS
<1>2. PICK x : x = IF IsMinded(w, h) THEN MoveMindTo(Create(w, "ghost", Owner(w, h)), h, i) ELSE w
  OBVIOUS
<1>3. Good(r, x) /\ Unminded(x, h) /\ IsHuman(x, h)
  <2>1. CASE ~IsMinded(w, h)
    BY <1>2, <2>1 DEF IsMinded, NetIds, Unminded
  <2>2. CASE IsMinded(w, h)
    <3>1. PICK kind : kind = "ghost"
      OBVIOUS
    <3>2. PICK owner : owner = Owner(w, h)
      OBVIOUS
    <3>3. x = MoveMindTo(Create(w, kind, owner), h, i) /\ kind \in {"ghost", "loginmob"} /\ h \in DOMAIN w.obj
      BY <1>2, <2>2, <3>1, <3>2 DEF IsHuman
    <3>4. Good(r, x) /\ Unminded(x, h) /\ h \in DOMAIN x.obj /\ x.obj[h] = w.obj[h]
      BY <1>1, <3>3, NewMobGood
    <3> QED BY <3>4 DEF IsHuman
  <2> QED BY <2>1, <2>2
<1>4. PICK e : e = [x.own[h] EXCEPT !.dead = TRUE]
  OBVIOUS
<1>5. /\ h \in DOMAIN x.obj /\ h \in DOMAIN x.own /\ DOMAIN x = Members
      /\ DOMAIN x.own[h] = DOMAIN NewHuman /\ x.own[h].active_hand \in {"right_hand", "left_hand"}
  BY <1>3, HumanIs
<1>6. /\ DOMAIN e = DOMAIN x.own[h] /\ e.slot = x.own[h].slot /\ e.active_hand = x.own[h].active_hand
      /\ e.pulled = x.own[h].pulled /\ e.lying = x.own[h].lying
  BY <1>4, <1>5 DEF NewHuman
<1>7. PICK y : y = [x EXCEPT !.own[h].dead = TRUE]
  OBVIOUS
<1>8. Only({"own"}, x, y) /\ y.own = OwnsSet(x, h, e)
  BY <1>4, <1>5, <1>7 DEF Only, Members, OwnsSet
<1>9. Good(r, y)
  <2>1. \A p \in Player : x.mind[p] # h
    BY <1>3 DEF Unminded
  <2> QED BY <1>3, <1>5, <1>6, <1>8, <2>1, HumanStep DEF Good
<1>10. h \in DOMAIN y.obj
  BY <1>5, <1>8, SameFields
<1>11. PICK n : n = 0
  OBVIOUS
<1>12. OnDeath(w, h) = SetFreq(y, h, n)
  BY <1>1, <1>2, <1>7, <1>11 DEF OnDeath
<1>13. n \in Nat
  BY <1>11
<1> QED BY <1>9, <1>10, <1>12, <1>13, SetFreqSane DEF Good

\* What the air does to a body.
LEMMA FeltIs ==
  ASSUME NEW o, DOMAIN o = DOMAIN NewHuman, NEW env
  PROVE  SameBody(o, Felt(o, env)) /\ SameBody(o, Suffocated(o))
<1>1. \A x, y, z : SameBody(x, y) /\ SameBody(y, z) => SameBody(x, z)
  BY DEF SameBody
<1>2. \A x : SameBody(x, x)
  BY DEF SameBody
<1>3. ASSUME NEW x, DOMAIN x = DOMAIN NewHuman, NEW n
      PROVE /\ SameBody(x, [x EXCEPT !.burn = n]) /\ SameBody(x, [x EXCEPT !.toxins = n])
            /\ SameBody(x, [x EXCEPT !.suffocation = n])
  BY <1>3 DEF SameBody, NewHuman
<1>4. \A x : DOMAIN x = DOMAIN NewHuman => SameBody(x, Burnt(x, env))
  BY <1>2, <1>3 DEF Burnt
<1>5. \A x : DOMAIN x = DOMAIN NewHuman => SameBody(x, Poisoned(x, env))
  BY <1>2, <1>3 DEF Poisoned
<1>6. \A x : DOMAIN x = DOMAIN NewHuman => SameBody(x, Suffocated(x))
  BY <1>2, <1>3 DEF Suffocated
<1>7. \A x : DOMAIN x = DOMAIN NewHuman => SameBody(x, Breathed(x, env))
  BY <1>3, <1>6 DEF Breathed
<1>8. PICK x : x = Burnt(o, env)
  OBVIOUS
<1>9. PICK y : y = Poisoned(x, env)
  OBVIOUS
<1>10. SameBody(o, x) /\ DOMAIN x = DOMAIN NewHuman
  BY <1>4, <1>8 DEF SameBody
<1>11. SameBody(o, y) /\ DOMAIN y = DOMAIN NewHuman
  BY <1>1, <1>5, <1>9, <1>10 DEF SameBody
<1>12. SameBody(o, Breathed(y, env))
  BY <1>1, <1>7, <1>11
<1> QED BY <1>6, <1>8, <1>9, <1>12 DEF Felt

-----------------------------------------------------------------------------
(* Turns of the objects of each class.                                     *)

\* Live, step by step: what the air does, rest, fainting and dying.
Aired(w, h) == IF Owner(w, h) \in Tile THEN [w EXCEPT !.own[h] = Felt(@, w.env[Owner(w, h)])] ELSE w
Rested(w, h) == [Aired(w, h) EXCEPT !.own[h].lay_timer = AtLeast(0, @ - 1)]
Fainted(w, h) ==
  IF CalculateHealth(Rested(w, h).own[h]) < 0 /\ ~Rested(w, h).own[h].lying
  THEN SetLaying(Rested(w, h), h, TRUE) ELSE Rested(w, h)
Weakened(w, h) ==
  IF CalculateHealth(Rested(w, h).own[h]) < 0
  THEN [Fainted(w, h) EXCEPT !.own[h] = Suffocated(@)] ELSE Fainted(w, h)

\* Live as weakening and then, perhaps, death.
LEMMA LiveIs ==
  ASSUME NEW w, NEW h
  PROVE  Live(w, h) = IF w.own[h].dead \/ Owner(w, h) = None THEN w
                      ELSE IF CalculateHealth(Weakened(w, h).own[h]) < -HUMAN_MAX_HEALTH
                      THEN OnDeath(Weakened(w, h), h) ELSE Weakened(w, h)
BY Zenon DEF Live, Weakened, Fainted, Rested, Aired

\* Live keeps the invariant.
LEMMA LiveGood ==
  ASSUME NEW r, NEW w, Good(r, w), NEW h, IsHuman(w, h)
  PROVE  Good(r, Live(w, h)) /\ IsHuman(Live(w, h), h)
<1>1. PICK t : t = Owner(w, h)
  OBVIOUS
<1>2. PICK a : a = IF t \in Tile THEN [w EXCEPT !.own[h] = Felt(@, w.env[t])] ELSE w
  OBVIOUS
<1>3. Good(r, a) /\ IsHuman(a, h)
  <2>1. PICK e : e = Felt(w.own[h], w.env[t])
    OBVIOUS
  <2>2. h \in DOMAIN w.own /\ DOMAIN w = Members /\ DOMAIN w.own[h] = DOMAIN NewHuman
    BY HumanIs
  <2>3. SameBody(w.own[h], e)
    BY <2>1, <2>2, FeltIs
  <2>4. PICK x : x = [w EXCEPT !.own[h] = e]
    OBVIOUS
  <2>5. OwnChanged(w, h, e, x)
    BY <2>2, <2>4, OwnChangedIs
  <2>6. Good(r, x) /\ IsHuman(x, h)
    BY <2>3, <2>5, BodyGood
  <2>7. a = IF t \in Tile THEN x ELSE w
    BY <1>2, <2>1, <2>4
  <2> QED BY <2>6, <2>7
<1>4. PICK n : n = AtLeast(0, a.own[h].lay_timer - 1)
  OBVIOUS
<1>5. PICK b : b = [a EXCEPT !.own[h].lay_timer = n]
  OBVIOUS
<1>6. Good(r, b) /\ IsHuman(b, h)
  BY <1>3, <1>5, LayTimerGood
<1>7. b = [a EXCEPT !.own[h].lay_timer = AtLeast(0, @ - 1)]
  <2>1. h \in DOMAIN a.own /\ DOMAIN a = Members /\ DOMAIN a.own[h] = DOMAIN NewHuman
    BY <1>3, HumanIs
  <2> QED BY <1>4, <1>5, <2>1 DEF Members, NewHuman
<1>9. PICK value : value = TRUE
  OBVIOUS
<1>10. PICK c : c = IF CalculateHealth(b.own[h]) < 0 /\ ~b.own[h].lying THEN SetLaying(b, h, value) ELSE b
  OBVIOUS
<1>11. Good(r, c) /\ IsHuman(c, h)
  <2>1. PICK y : y = SetLaying(b, h, value)
    OBVIOUS
  <2>2. Good(r, y) /\ IsHuman(y, h)
    BY <1>6, <1>9, <2>1, SetLayingGood
  <2> QED BY <1>6, <1>10, <2>1, <2>2
<1>12. PICK d : d = IF CalculateHealth(b.own[h]) < 0 THEN [c EXCEPT !.own[h] = Suffocated(@)] ELSE c
  OBVIOUS
<1>13. Good(r, d) /\ IsHuman(d, h)
  <2>1. PICK e : e = Suffocated(c.own[h])
    OBVIOUS
  <2>2. h \in DOMAIN c.own /\ DOMAIN c = Members /\ DOMAIN c.own[h] = DOMAIN NewHuman
    BY <1>11, HumanIs
  <2>3. SameBody(c.own[h], e)
    BY <2>1, <2>2, FeltIs
  <2>4. PICK x : x = [c EXCEPT !.own[h] = e]
    OBVIOUS
  <2>5. OwnChanged(c, h, e, x)
    BY <2>2, <2>4, OwnChangedIs
  <2>6. Good(r, x) /\ IsHuman(x, h)
    BY <1>11, <2>3, <2>5, BodyGood
  <2>7. d = IF CalculateHealth(b.own[h]) < 0 THEN x ELSE c
    BY <1>12, <2>1, <2>4
  <2> QED BY <1>11, <2>6, <2>7
<1>14. Live(w, h) = IF w.own[h].dead \/ t = None THEN w
                    ELSE IF CalculateHealth(d.own[h]) < -HUMAN_MAX_HEALTH THEN OnDeath(d, h) ELSE d
  <2>1. a = Aired(w, h)
    BY <1>1, <1>2 DEF Aired
  <2>2. b = Rested(w, h)
    BY <1>7, <2>1 DEF Rested
  <2>3. c = Fainted(w, h)
    <3>1. c = IF CalculateHealth(b.own[h]) < 0 /\ ~b.own[h].lying THEN SetLaying(b, h, TRUE) ELSE b
      BY <1>9, <1>10
    <3> QED BY <2>2, <3>1 DEF Fainted
  <2>4. d = Weakened(w, h)
    BY <1>12, <2>2, <2>3 DEF Weakened
  <2> QED BY <1>1, <2>4, LiveIs
<1>15. Good(r, OnDeath(d, h)) /\ IsHuman(OnDeath(d, h), h)
  <2>1. PICK y : y = OnDeath(d, h)
    OBVIOUS
  <2>2. Good(d, d)
    BY <1>13, SaneStart DEF Good, Sane
  <2>3. Good(r, y) /\ Good(d, y)
    BY <1>13, <2>1, <2>2, OnDeathGood
  <2>4. IsHuman(y, h)
    BY <1>13, <2>3 DEF Good, Sane, Since, Remains, IsHuman
  <2> QED BY <2>1, <2>3, <2>4
<1> QED BY <1>13, <1>14, <1>15

\* A human's turn keeps the invariant.
LEMMA ProcessHumanGood ==
  ASSUME NEW r, NEW w, Good(r, w), NEW h, IsHuman(w, h)
  PROVE  Good(r, ProcessHuman(w, h))
BY LiveGood, KeepPullingSane DEF ProcessHuman, Good

\* A counter of a ghost, of the lobby or of a tool.
LEMMA SimpleGood ==
  ASSUME NEW r, NEW w, Good(r, w), NEW i \in DOMAIN w.obj, NEW e, DOMAIN e = DOMAIN w.own[i],
         w.obj[i].kind \notin Wall \cup Projectile \cup Closet \cup {"human", "opener", "door", "glassdoor", "grille"},
         NEW v, OwnChanged(w, i, e, v)
  PROVE  Good(r, v) /\ v.obj = w.obj /\ v.mind = w.mind /\ v.own[i] = e
<1>1. OwnFits(w, w.obj[i].kind, w.own[i]) /\ DOMAIN w.own = DOMAIN w.obj
  BY GoodForms
<1>2. OwnFine(w, i, e)
  BY <1>1, SimpleOwn
<1>3. ShapeFits(w.obj[i].kind, w.obj[i].pass, w.obj[i].dir, e)
  BY GoodShaped DEF Shaped, ShapeFits
<1>4. Good(r, v)
  BY <1>2, <1>3, OwnStep DEF Good, OwnChanged
<1>5. v.obj = w.obj /\ v.mind = w.mind
  BY SameFields DEF OwnChanged
<1> QED BY <1>1, <1>4, <1>5 DEF OwnChanged, OwnsSet

\* The fields of the other classes.
LEMMA KindOwn ==
  ASSUME NEW r, NEW w, Good(r, w), NEW i \in DOMAIN w.obj
  PROVE  /\ w.obj[i].kind \in {"ghost", "lobby"} => DOMAIN w.own[i] = {"seconds"}
         /\ w.obj[i].kind = "welder" => DOMAIN w.own[i] = {"on", "fuel"}
         /\ w.obj[i].kind \in Gun => DOMAIN w.own[i] = {"ammunition"}
         /\ w.obj[i].kind = "floor" => DOMAIN w.own[i] = {"open"}
         /\ w.obj[i].kind \in {"door", "glassdoor"} => DOMAIN w.own[i] = {"state", "last_tick"}
         /\ w.obj[i].kind \in Projectile => DOMAIN w.own[i] = {"movement", "step", "harmless"}
         /\ w.obj[i].kind = "opener" => DOMAIN w.own[i] = {"door"}
<1>1. DOMAIN w.own[i] = DOMAIN NewOwn(w.obj[i].kind)
  BY GoodForms DEF OwnFits
<1> QED BY <1>1, NewOwnIs

\* A countdown is in no part of the invariant.
LEMMA SecondsGood ==
  ASSUME NEW r, NEW w, Good(r, w), NEW i \in DOMAIN w.obj, w.obj[i].kind \in {"ghost", "lobby"},
         NEW v, v = [w EXCEPT !.own[i].seconds = @ - 1]
  PROVE  Good(r, v) /\ v.obj = w.obj /\ v.mind = w.mind
<1>1. PICK n : n = w.own[i].seconds - 1
  OBVIOUS
<1>2. PICK e : e = [w.own[i] EXCEPT !.seconds = n]
  OBVIOUS
<1>3. DOMAIN w = Members /\ DOMAIN e = DOMAIN w.own[i] /\ DOMAIN w.own = DOMAIN w.obj
  BY <1>2, GoodForms
<1>4. DOMAIN w.own[i] = {"seconds"}
  BY KindOwn
<1>5. v = [w EXCEPT !.own[i] = e]
  BY <1>1, <1>2, <1>3, <1>4 DEF Members
<1>6. OwnChanged(w, i, e, v)
  BY <1>3, <1>5, OwnChangedIs
<1>7. w.obj[i].kind \notin Wall \cup Projectile \cup Closet \cup {"human", "opener", "door", "glassdoor", "grille"}
  BY DEF Wall, Projectile, Closet
<1> QED BY <1>3, <1>6, <1>7, SimpleGood

\* The lobby's turn keeps the invariant.
LEMMA ProcessLobbyGood ==
  ASSUME NEW r, NEW w, Good(r, w), NEW i \in DOMAIN w.obj, w.obj[i].kind = "lobby"
  PROVE  Good(r, ProcessLobby(w, i))
<1>1. PICK v : v = ProcessLobby(w, i)
  OBVIOUS
<1>2. v = [w EXCEPT !.own[i].seconds = @ - 1] /\ w.obj[i].kind \in {"ghost", "lobby"}
  BY <1>1 DEF ProcessLobby
<1> QED BY <1>1, <1>2, SecondsGood

\* A ghost's turn keeps the invariant: after its wait the mind goes to a login mob, and it goes.
LEMMA ProcessGhostGood ==
  ASSUME NEW r, NEW w, Good(r, w), NEW g \in DOMAIN w.obj, w.obj[g].kind = "ghost"
  PROVE  Good(r, ProcessGhost(w, g))
<1>1. PICK older : older = [w EXCEPT !.own[g].seconds = @ - 1]
  OBVIOUS
<1>2. Good(r, older) /\ older.obj = w.obj
  <2>1. w.obj[g].kind \in {"ghost", "lobby"}
    OBVIOUS
  <2> QED BY <1>1, <2>1, SecondsGood
<1>3. older.last = w.last
  <2>1. DOMAIN w = Members
    BY GoodForms
  <2> QED BY <1>1, <2>1 DEF Members
<1>4. PICK i : i = NewId(older)
  OBVIOUS
<1>5. i = NewId(w)
  BY <1>3, <1>4 DEF NewId
<1>6. PICK kind : kind = "loginmob"
  OBVIOUS
<1>7. PICK x : x = MoveMindTo(Create(older, kind, None), g, i)
  OBVIOUS
<1>8. kind \in {"ghost", "loginmob"}
  BY <1>6
<1>9. Good(r, x) /\ Unminded(x, g) /\ g \in DOMAIN x.obj /\ x.obj[g] = older.obj[g]
  BY <1>2, <1>4, <1>7, <1>8, NewMobGood
<1>10. x.obj[g].kind \in {"ghost", "loginmob"}
  BY <1>2, <1>9
<1>11. PICK y : y = DeleteMob(x, g)
  OBVIOUS
<1>12. Good(r, y)
  BY <1>9, <1>10, <1>11, DeleteMobGood
<1>13. ProcessGhost(w, g) = IF older.own[g].seconds >= 0 \/ ~IsMinded(w, g) THEN older ELSE y
  BY <1>1, <1>5, <1>6, <1>7, <1>11 DEF ProcessGhost
<1> QED BY <1>2, <1>12, <1>13

\* A welder's switch is in no part of the invariant.
LEMMA WelderOnGood ==
  ASSUME NEW r, NEW w, Good(r, w), NEW i \in DOMAIN w.obj, w.obj[i].kind = "welder", NEW on,
         NEW v, v = [w EXCEPT !.own[i].on = on]
  PROVE  Good(r, v) /\ v.obj = w.obj
<1>1. PICK e : e = [w.own[i] EXCEPT !.on = on]
  OBVIOUS
<1>2. DOMAIN w = Members /\ DOMAIN e = DOMAIN w.own[i]
  BY <1>1, GoodForms
<1>3. v = [w EXCEPT !.own[i] = e]
  BY <1>1
<1>4. OwnChanged(w, i, e, v)
  BY <1>2, <1>3, OwnChangedIs
<1>5. w.obj[i].kind \notin Wall \cup Projectile \cup Closet \cup {"human", "opener", "door", "glassdoor", "grille"}
  BY DEF Wall, Projectile, Closet
<1> QED BY <1>2, <1>4, <1>5, SimpleGood

\* Nor is its fuel.
LEMMA FuelGood ==
  ASSUME NEW r, NEW w, Good(r, w), NEW i \in DOMAIN w.obj, w.obj[i].kind = "welder", NEW n,
         NEW v, v = [w EXCEPT !.own[i].fuel = n]
  PROVE  Good(r, v) /\ v.obj = w.obj
<1>1. PICK e : e = [w.own[i] EXCEPT !.fuel = n]
  OBVIOUS
<1>2. DOMAIN w = Members /\ DOMAIN e = DOMAIN w.own[i]
  BY <1>1, GoodForms
<1>3. v = [w EXCEPT !.own[i] = e]
  BY <1>1
<1>4. OwnChanged(w, i, e, v)
  BY <1>2, <1>3, OwnChangedIs
<1>5. w.obj[i].kind \notin Wall \cup Projectile \cup Closet \cup {"human", "opener", "door", "glassdoor", "grille"}
  BY DEF Wall, Projectile, Closet
<1> QED BY <1>2, <1>4, <1>5, SimpleGood

\* Nor is the frequency of its turns.
LEMMA WelderFreqGood ==
  ASSUME NEW r, NEW w, Good(r, w), NEW i \in DOMAIN w.obj, w.obj[i].kind = "welder", NEW on, NEW n \in Nat,
         NEW v, v = SetFreq([w EXCEPT !.own[i].on = on], i, n)
  PROVE  Good(r, v)
<1>1. PICK x : x = [w EXCEPT !.own[i].on = on]
  OBVIOUS
<1>2. Good(r, x) /\ x.obj = w.obj
  BY <1>1, WelderOnGood
<1> QED BY <1>1, <1>2, SetFreqSane DEF Good

\* Turning a welder off keeps the invariant.
LEMMA TurnOffGood ==
  ASSUME NEW r, NEW w, Good(r, w), NEW i \in DOMAIN w.obj, w.obj[i].kind = "welder"
  PROVE  Good(r, TurnOff(w, i))
<1>1. PICK on, n : on = FALSE /\ n = 0
  OBVIOUS
<1>2. PICK v : v = SetFreq([w EXCEPT !.own[i].on = on], i, n)
  OBVIOUS
<1>3. TurnOff(w, i) = v /\ n \in Nat
  BY <1>1, <1>2 DEF TurnOff
<1> QED BY <1>2, <1>3, WelderFreqGood

\* Using a welder on itself keeps the invariant.
LEMMA WelderAttackedGood ==
  ASSUME NEW r, NEW w, Good(r, w), NEW i \in DOMAIN w.obj, w.obj[i].kind = "welder"
  PROVE  Good(r, WelderAttacked(w, i))
<1>1. PICK on, n : on = TRUE /\ n = 2
  OBVIOUS
<1>2. PICK v : v = SetFreq([w EXCEPT !.own[i].on = on], i, n)
  OBVIOUS
<1>3. Good(r, v)
  BY <1>1, <1>2, WelderFreqGood
<1>4. WelderAttacked(w, i) = IF w.own[i].on THEN TurnOff(w, i) ELSE IF w.own[i].fuel <= 0 THEN w ELSE v
  BY <1>1, <1>2 DEF WelderAttacked
<1> QED BY <1>3, <1>4, TurnOffGood

\* A welder's turn keeps the invariant.
LEMMA ProcessWelderGood ==
  ASSUME NEW r, NEW w, Good(r, w), NEW i \in DOMAIN w.obj, w.obj[i].kind = "welder"
  PROVE  Good(r, ProcessWelder(w, i))
<1>1. PICK n : n = AtLeast(0, w.own[i].fuel - 1)
  OBVIOUS
<1>2. PICK x : x = [w EXCEPT !.own[i].fuel = n]
  OBVIOUS
<1>3. Good(r, x) /\ x.obj = w.obj
  BY <1>2, FuelGood
<1>4. DOMAIN w = Members /\ DOMAIN w.own[i] = {"on", "fuel"} /\ i \in DOMAIN w.own
  BY GoodForms, KindOwn
<1>5. x = [w EXCEPT !.own[i].fuel = AtLeast(0, @ - 1)]
  BY <1>1, <1>2, <1>4 DEF Members
<1>6. ProcessWelder(w, i) = IF x.own[i].fuel <= 0 /\ w.own[i].on THEN TurnOff(x, i) ELSE x
  BY <1>5 DEF ProcessWelder
<1> QED BY <1>3, <1>6, TurnOffGood

-----------------------------------------------------------------------------
(* What flies.                                                             *)

\* The type of a projectile.
LEMMA FlierIs ==
  ASSUME NEW r, NEW w, Good(r, w), NEW i \in DOMAIN w.obj, w.obj[i].kind \in Projectile
  PROVE  /\ DOMAIN w = Members /\ DOMAIN w.own[i] = {"movement", "step", "harmless"} /\ i \in DOMAIN w.own
         /\ w.own[i].movement \in Seq(Dir) /\ w.own[i].step \in Nat
         /\ w.own[i].movement # <<>> => w.own[i].step \in 1 .. Len(w.own[i].movement)
         /\ w.obj[i].kind \in Movable /\ w.obj[i].kind # "glassdoor" /\ w.obj[i].kind # "human"
BY GoodForms, KindOwn DEF OwnFits, Projectile, Movable

\* A projectile's progress keeps the invariant.
LEMMA FlightGood ==
  ASSUME NEW r, NEW w, Good(r, w), NEW i \in DOMAIN w.obj, w.obj[i].kind \in Projectile, NEW e,
         DOMAIN e = DOMAIN w.own[i], e.movement \in Seq(Dir), e.step \in Nat,
         e.movement # <<>> => e.step \in 1 .. Len(e.movement), NEW v, OwnChanged(w, i, e, v)
  PROVE  Good(r, v) /\ v.obj = w.obj /\ v.own[i] = e
<1>1. OwnFits(w, w.obj[i].kind, w.own[i]) /\ DOMAIN w.own = DOMAIN w.obj
  BY GoodForms
<1>2. w.obj[i].kind \notin Wall \cup Closet \cup {"human", "opener", "door", "glassdoor", "glass", "grille"}
  BY DEF Projectile, Wall, Closet
<1>3. OwnFine(w, i, e)
  BY <1>1, <1>2 DEF OwnFine, OwnFits
<1>4. ShapeFits(w.obj[i].kind, w.obj[i].pass, w.obj[i].dir, e)
  BY <1>2 DEF ShapeFits
<1>5. Good(r, v)
  BY <1>3, <1>4, OwnStep DEF Good, OwnChanged
<1>6. v.obj = w.obj
  BY SameFields DEF OwnChanged
<1> QED BY <1>1, <1>5, <1>6 DEF OwnChanged, OwnsSet

\* It is still there.
Flies(w, i) == i \in DOMAIN w.obj /\ w.obj[i].kind \in Projectile

\* One step of a flight keeps the invariant, and the projectile flies on or is gone.
LEMMA ProcessMovementGood ==
  ASSUME NEW r, NEW w, Good(r, w), NEW i, Flies(w, i), NEW a, a = ProcessMovement(w, i)
  PROVE  Good(r, a.w) /\ a.ok \in BOOLEAN /\ (a.ok => Flies(a.w, i))
<1>1. i \in DOMAIN w.obj /\ w.obj[i].kind \in Projectile
  BY DEF Flies
<1>2. PICK m : m = w.own[i].movement
  OBVIOUS
<1>3. CASE m = <<>>
  <2>1. PICK why : why = "Trajectory for the projectile is empty"
    OBVIOUS
  <2>2. a = [w |-> Fail(w, why), ok |-> FALSE]
    BY <1>2, <1>3, <2>1 DEF ProcessMovement
  <2>3. Good(r, Fail(w, why))
    BY FailSane DEF Good
  <2> QED BY <2>2, <2>3
<1>4. CASE m # <<>>
  <2>1. /\ m \in Seq(Dir) /\ w.own[i].step \in 1 .. Len(m) /\ w.obj[i].kind \in Movable
        /\ w.obj[i].kind # "glassdoor"
    BY <1>1, <1>2, <1>4, FlierIs
  <2>2. PICK d : d = m[w.own[i].step]
    OBVIOUS
  <2>3. d \in Dir
    BY <2>1, <2>2
  <2>4. PICK x : x = Rotate(w, i, d)
    OBVIOUS
  <2>5. Good(r, x) /\ Stays(w, x)
    BY <1>1, <2>1, <2>3, <2>4, RotateGood
  <2>6. i \in DOMAIN x.obj /\ x.obj[i].kind = w.obj[i].kind /\ x.own = w.own
    BY <1>1, <2>5, SameFields DEF Stays, Twins
  <2>7. PICK b : b = CheckPassable(x, i)
    OBVIOUS
  <2>8. Good(r, b.w) /\ b.ok \in BOOLEAN /\ (b.ok => b.w = x)
    BY <2>1, <2>5, <2>6, <2>7, CheckPassableGood
  <2>9. PICK n : n = (x.own[i].step % Len(m)) + 1
    OBVIOUS
  <2>10. PICK e : e = [x.own[i] EXCEPT !.step = n]
    OBVIOUS
  <2>11. DOMAIN x = Members /\ DOMAIN x.own[i] = {"movement", "step", "harmless"} /\ i \in DOMAIN x.own
    BY <1>1, <2>5, <2>6, FlierIs
  <2>12. n \in 1 .. Len(m)
    <3>1. PICK k : k = w.own[i].step
      OBVIOUS
    <3>2. PICK l : l = Len(m)
      OBVIOUS
    <3>3. l \in Nat /\ k \in 1 .. l
      BY <2>1, <3>1, <3>2, LenProperties
    <3>4. k % l \in 0 .. l - 1
      BY <3>3
    <3> QED BY <2>6, <2>9, <3>1, <3>2, <3>3, <3>4
  <2>13. /\ DOMAIN e = DOMAIN x.own[i] /\ e.movement = m /\ e.step = n
    BY <1>2, <2>6, <2>10, <2>11
  <2>14. PICK y : y = [x EXCEPT !.own[i] = e]
    OBVIOUS
  <2>15. OwnChanged(x, i, e, y)
    BY <2>11, <2>14, OwnChangedIs
  <2>16. Good(r, y) /\ y.obj = x.obj
    <3>1. e.movement \in Seq(Dir) /\ e.step \in Nat /\ (e.movement # <<>> => e.step \in 1 .. Len(e.movement))
      BY <2>1, <2>12, <2>13
    <3>2. x.obj[i].kind \in Projectile
      BY <1>1, <2>6
    <3> QED BY <2>5, <2>6, <2>13, <2>15, <3>1, <3>2, FlightGood
  <2>17. y = [x EXCEPT !.own[i].step = (@ % Len(m)) + 1]
    BY <2>9, <2>10, <2>11, <2>14 DEF Members
  <2>18. PICK g : g = MainMove(y, i)
    OBVIOUS
  <2>19. Good(r, g.w) /\ MovedOnly(y, i, g.w)
    <3>1. y.obj[i].kind \in Projectile /\ y.obj[i].kind \in Movable /\ i \in DOMAIN y.obj
      BY <1>1, <2>1, <2>6, <2>16
    <3> QED BY <2>16, <2>18, <3>1, MainMoveGood
  <2>20. Flies(g.w, i)
    BY <1>1, <2>6, <2>16, <2>19 DEF MovedOnly, Flies
  <2>21. a = IF b.ok THEN [w |-> MainMove([b.w EXCEPT !.own[i].step = (@ % Len(m)) + 1], i).w, ok |-> TRUE] ELSE b
    BY <1>2, <1>4, <2>2, <2>4, <2>7 DEF ProcessMovement, Then
  <2>22. CASE b.ok
    <3>1. a = [w |-> g.w, ok |-> TRUE]
      BY <2>8, <2>17, <2>18, <2>21, <2>22
    <3> QED BY <2>19, <2>20, <3>1
  <2>23. CASE ~b.ok
    BY <2>8, <2>21, <2>23
  <2> QED BY <2>8, <2>22, <2>23
<1> QED BY <1>3, <1>4

\* So does the end of its harmless start.
LEMMA ArmedGood ==
  ASSUME NEW r, NEW a, Good(r, a.w), a.ok \in BOOLEAN, NEW i, a.ok => Flies(a.w, i), NEW b, b = Armed(a, i)
  PROVE  Good(r, b.w) /\ b.ok \in BOOLEAN /\ (b.ok => Flies(b.w, i))
<1>1. CASE ~a.ok
  BY <1>1 DEF Armed
<1>2. CASE a.ok
  <2>1. PICK w : w = a.w
    OBVIOUS
  <2>2. Good(r, w) /\ i \in DOMAIN w.obj /\ w.obj[i].kind \in Projectile
    BY <1>2, <2>1 DEF Flies
  <2>3. /\ DOMAIN w = Members /\ DOMAIN w.own[i] = {"movement", "step", "harmless"} /\ i \in DOMAIN w.own
        /\ w.own[i].movement \in Seq(Dir) /\ w.own[i].step \in Nat
        /\ w.own[i].movement # <<>> => w.own[i].step \in 1 .. Len(w.own[i].movement)
    BY <2>2, FlierIs
  <2>4. PICK e : e = [w.own[i] EXCEPT !.harmless = FALSE]
    OBVIOUS
  <2>5. DOMAIN e = DOMAIN w.own[i] /\ e.movement = w.own[i].movement /\ e.step = w.own[i].step
    BY <2>3, <2>4
  <2>6. PICK v : v = [w EXCEPT !.own[i] = e]
    OBVIOUS
  <2>7. OwnChanged(w, i, e, v)
    BY <2>3, <2>6, OwnChangedIs
  <2>8. Good(r, v) /\ v.obj = w.obj
    <3>1. e.movement \in Seq(Dir) /\ e.step \in Nat /\ (e.movement # <<>> => e.step \in 1 .. Len(e.movement))
      BY <2>3, <2>5
    <3> QED BY <2>2, <2>5, <2>7, <3>1, FlightGood
  <2>9. b.w = v /\ b.ok = a.ok
    <3>1. PICK y : y = [a EXCEPT !.w.own[i].harmless = FALSE]
      OBVIOUS
    <3>2. b = y
      BY <1>2, <3>1 DEF Armed
    <3> QED BY <2>1, <2>4, <2>6, <3>1, <3>2
  <2> QED BY <1>2, <2>2, <2>8, <2>9 DEF Flies
<1> QED BY <1>1, <1>2

\* A projectile's turn keeps the invariant.
LEMMA ProcessProjectileGood ==
  ASSUME NEW r, NEW w, Good(r, w), NEW i, Flies(w, i)
  PROVE  Good(r, ProcessProjectile(w, i))
<1>1. PICK m : m = ProcessMovement(w, i)
  OBVIOUS
<1>2. Good(r, m.w) /\ m.ok \in BOOLEAN /\ (m.ok => Flies(m.w, i))
  BY <1>1, ProcessMovementGood
<1>3. PICK a : a = Armed(m, i)
  OBVIOUS
<1>4. Good(r, a.w) /\ a.ok \in BOOLEAN /\ (a.ok => Flies(a.w, i))
  BY <1>2, <1>3, ArmedGood
<1>5. CASE a.ok /\ DirOf(a.w, i) # DirOf(w, i)
  <2>1. PICK n : n = ProcessMovement(a.w, i)
    OBVIOUS
  <2>2. PICK x : x = a.w
    OBVIOUS
  <2>3. Good(r, x) /\ Flies(x, i) /\ n = ProcessMovement(x, i)
    BY <1>4, <1>5, <2>1, <2>2
  <2>4. Good(r, n.w) /\ n.ok \in BOOLEAN /\ (n.ok => Flies(n.w, i))
    BY <2>3, ProcessMovementGood
  <2>5. PICK b : b = Armed(n, i)
    OBVIOUS
  <2>6. Good(r, b.w)
    BY <2>4, <2>5, ArmedGood
  <2> QED BY <1>1, <1>3, <1>5, <2>1, <2>5, <2>6 DEF ProcessProjectile
<1>6. CASE ~(a.ok /\ DirOf(a.w, i) # DirOf(w, i))
  BY <1>1, <1>3, <1>4, <1>6 DEF ProcessProjectile
<1> QED BY <1>5, <1>6

-----------------------------------------------------------------------------
(* A tick.                                                                 *)

\* Any object's turn keeps the invariant.
LEMMA ProcessGood ==
  ASSUME NEW r, NEW w, Good(r, w), NEW i \in DOMAIN w.obj
  PROVE  Good(r, Process(w, i))
<1>1. PICK k : k = KindOf(w, i)
  OBVIOUS
<1>2. k = w.obj[i].kind
  BY <1>1, GoodForms
<1>3. CASE k = "human"
  <2>1. IsHuman(w, i)
    BY <1>2, <1>3 DEF IsHuman
  <2>2. Process(w, i) = ProcessHuman(w, i)
    BY <1>1, <1>3 DEF Process, Projectile
  <2> QED BY <2>1, <2>2, ProcessHumanGood
<1>4. CASE k = "ghost"
  <2>1. Process(w, i) = ProcessGhost(w, i)
    BY <1>1, <1>4 DEF Process, Projectile
  <2> QED BY <1>2, <1>4, <2>1, ProcessGhostGood
<1>5. CASE k = "lobby"
  <2>1. Process(w, i) = ProcessLobby(w, i)
    BY <1>1, <1>5 DEF Process, Projectile
  <2> QED BY <1>2, <1>5, <2>1, ProcessLobbyGood
<1>6. CASE k \in {"door", "glassdoor"}
  <2>1. Process(w, i) = ProcessDoor(w, i)
    BY <1>1, <1>6 DEF Process, Projectile
  <2> QED BY <1>2, <1>6, <2>1, ProcessDoorSane DEF Good, IsDoor
<1>7. CASE k \in Projectile
  <2>1. Process(w, i) = ProcessProjectile(w, i)
    BY <1>1, <1>7 DEF Process, Projectile
  <2> QED BY <1>2, <1>7, <2>1, ProcessProjectileGood DEF Flies
<1>8. CASE k = "welder"
  <2>1. Process(w, i) = ProcessWelder(w, i)
    BY <1>1, <1>8 DEF Process, Projectile
  <2> QED BY <1>2, <1>8, <2>1, ProcessWelderGood
<1>9. CASE k \notin Projectile \cup {"human", "ghost", "lobby", "door", "glassdoor", "welder"}
  <2>1. Process(w, i) = w
    BY <1>1, <1>9 DEF Process, Projectile
  <2> QED BY <2>1
<1> QED BY <1>3, <1>4, <1>5, <1>6, <1>7, <1>8, <1>9

\* A turn of the object with this number in the list.
TurnOp(c, a, n) == Turn(a, n)

\* As long as the round goes on, the list has those who were in it.
TurnKnows(c, k, a) ==
  /\ a.going \in BOOLEAN
  /\ Sound(Nil, Nil, a.w) /\ Strides(c.w, a.w) /\ a.w.tick = c.w.tick /\ c.w.last <= a.w.last
  /\ a.going => Good(c.w, a.w)

TurnFold == INSTANCE FoldInduction WITH Op <- TurnOp, P <- TurnKnows

Numbers(n) == [m \in 1 .. n |-> m]

\* RunProcess as a fold over the process list.
LEMMA RunIsFold ==
  ASSUME NEW c, NEW w, NEW b, b = [w |-> w, going |-> TRUE]
  PROVE  RunProcess(w) = TurnFold!Folded(c, b, Numbers(Len(w.list))).w
BY DEF TurnFold!Folded, TurnFold!MaxOf, RunProcess, TurnOp, FoldLeft, MapThenFoldSet, Max, Numbers

\* The one who left gives its place to the last one.
Shortened(w, n) == [w EXCEPT !.list = Front([@ EXCEPT ![n] = Last(w.list)])]

\* The list without what is gone keeps the invariant.
LEMMA ShortenedGood ==
  ASSUME NEW r, NEW w, Good(r, w), NEW n \in 1 .. Len(w.list), NEW v, v = Shortened(w, n)
  PROVE  Sound(Nil, Nil, v) /\ Strides(r, v) /\ v.tick = w.tick /\ v.last = w.last
<1>1. PICK l : l = w.list
  OBVIOUS
<1>2. PICK S : S = 1 .. w.last
  OBVIOUS
<1>3. DOMAIN w = Members /\ w.tick \in Nat /\ l \in Seq(S) /\ Sound(Nil, Nil, w) /\ Queues(w) /\ Forces(w)
  BY <1>1, <1>2, GoodForms DEF Good, Sane, Sound, Nearly, Formed, Queues
<1>4. PICK e : e = Last(l)
  OBVIOUS
<1>5. n \in 1 .. Len(l) /\ Len(l) \in Nat
  BY <1>1, <1>3, LenProperties
<1>6. e \in S
  BY <1>3, <1>4, <1>5 DEF Last
<1>7. PICK m : m = [l EXCEPT ![n] = e]
  OBVIOUS
<1>8. m \in Seq(S) /\ Len(m) = Len(l)
  BY <1>3, <1>5, <1>6, <1>7, ExceptSeq
<1>9. PICK f : f = Front(m)
  OBVIOUS
<1>10. f \in Seq(S)
  BY <1>5, <1>8, <1>9 DEF Front
<1>11. v = [w EXCEPT !.list = f]
  BY <1>1, <1>3, <1>4, <1>7, <1>9 DEF Shortened, Members
<1>12. Only({"list"}, w, v) /\ v.list = f
  BY <1>3, <1>11 DEF Only, Members
<1>13. /\ v.obj = w.obj /\ v.to_add = w.to_add /\ v.under_force = w.under_force /\ v.chance = w.chance
       /\ v.tick = w.tick /\ v.last = w.last
  BY <1>12, SameFields
<1>14. Queues(v) /\ Forces(v)
  BY <1>2, <1>3, <1>10, <1>12, <1>13 DEF Queues, Forces
<1>15. Only({"list", "to_add", "under_force", "chance", "failed", "lobby", "env", "tick"}, w, v)
  BY <1>12 DEF Only
<1>16. Sound(Nil, Nil, v)
  BY <1>3, <1>13, <1>14, <1>15, ScalarSound
<1>17. Strides(r, v)
  BY <1>13, GoodStrides DEF Strides, Strode
<1> QED BY <1>13, <1>16, <1>17

\* The loop's invariant holds for one turn more.
LEMMA TurnStep ==
  ASSUME NEW c, NEW n \in Nat, Len(c.w.list) = n, NEW k \in 0 .. n - 1, NEW a, TurnKnows(c, k, a)
  PROVE  TurnKnows(c, k + 1, Turn(a, k + 1))
<1>1. PICK b : b = Turn(a, k + 1)
  OBVIOUS
<1>2. CASE ~a.going
  BY <1>2 DEF Turn, TurnKnows
<1>3. CASE a.going
  <2>1. PICK w : w = a.w
    OBVIOUS
  <2>2. Good(c.w, w) /\ k + 1 \in 1 .. Len(w.list) /\ w.tick = c.w.tick /\ c.w.last <= w.last
    <3>1. Good(c.w, w) /\ w.tick = c.w.tick /\ c.w.last <= w.last
      BY <1>3, <2>1 DEF TurnKnows
    <3>2. Len(w.list) \in Nat /\ Len(c.w.list) <= Len(w.list)
      BY <3>1, LenProperties DEF Good, Sane, Sound, Nearly, Formed, Queues, Since, Remains
    <3> QED BY <3>1, <3>2
  <2>3. PICK i : i = w.list[k + 1]
    OBVIOUS
  <2>4. CASE ~IsValid(w, i) \/ w.obj[i].freq = 0
    <3>1. PICK v : v = Shortened(w, k + 1)
      OBVIOUS
    <3>2. b = [w |-> v, going |-> FALSE]
      BY <1>1, <1>3, <2>1, <2>3, <2>4, <3>1 DEF Turn, Shortened
    <3>3. Sound(Nil, Nil, v) /\ Strides(c.w, v) /\ v.tick = w.tick /\ v.last = w.last
      BY <2>2, <3>1, ShortenedGood
    <3>4. b.w = v /\ b.going = FALSE
      BY <3>2
    <3>5. Sound(Nil, Nil, b.w) /\ Strides(c.w, b.w) /\ b.w.tick = c.w.tick /\ c.w.last <= b.w.last
      BY <2>2, <3>3, <3>4
    <3> QED BY ONLY <1>1, <3>4, <3>5 DEF TurnKnows
  <2>5. CASE ~(~IsValid(w, i) \/ w.obj[i].freq = 0)
    <3>1. i \in DOMAIN w.obj
      BY <2>5 DEF IsValid
    <3>2. PICK v : v = IF w.tick % w.obj[i].freq = 0 THEN Process(w, i) ELSE w
      OBVIOUS
    <3>3. Good(c.w, v)
      BY <2>2, <3>1, <3>2, ProcessGood
    <3>4. b = [w |-> v, going |-> TRUE]
      BY <1>1, <1>3, <2>1, <2>3, <2>5, <3>2 DEF Turn
    <3>5. v.tick = c.w.tick /\ c.w.last <= v.last
      BY <3>3 DEF Good, Sane, Since, Remains
    <3>6. Sound(Nil, Nil, v) /\ Strides(c.w, v)
      BY <3>3, GoodStrides
    <3>7. b.w = v /\ b.going = TRUE
      BY <3>4
    <3>8. Sound(Nil, Nil, b.w) /\ Strides(c.w, b.w) /\ b.w.tick = c.w.tick /\ Good(c.w, b.w) /\ c.w.last <= b.w.last
      BY <3>3, <3>5, <3>6, <3>7
    <3> QED BY ONLY <1>1, <3>7, <3>8 DEF TurnKnows
  <2> QED BY <2>4, <2>5
<1>4. a.going \in BOOLEAN
  BY DEF TurnKnows
<1> QED BY <1>2, <1>3

\* RunProcess keeps the invariant.
LEMMA RunGood ==
  ASSUME NEW w, Sound(Nil, Nil, w)
  PROVE  Sound(Nil, Nil, RunProcess(w)) /\ Strides(w, RunProcess(w)) /\ w.last <= RunProcess(w).last
<1>1. Good(w, w)
  BY SaneStart DEF Good
<1>2. PICK n : n = Len(w.list)
  OBVIOUS
<1>3. n \in Nat
  BY <1>2, LenProperties DEF Sound, Nearly, Formed, Queues
<1>4. PICK c : c = [w |-> w]
  OBVIOUS
<1>5. PICK b : b = [w |-> w, going |-> TRUE]
  OBVIOUS
<1>6. TurnKnows(c, 0, b)
  <2>1. w.last \in Nat
    BY <1>1, GoodForms
  <2> QED BY <1>1, <1>4, <1>5, <2>1, GoodStrides DEF TurnKnows
<1>7. PICK s : s = Numbers(n)
  OBVIOUS
<1>8. DOMAIN s = 1 .. n /\ \A k \in 0 .. n - 1 : s[k + 1] = k + 1
  BY <1>3, <1>7 DEF Numbers
<1>9. \A k \in 0 .. n - 1 : \A a : TurnKnows(c, k, a) => TurnKnows(c, k + 1, Turn(a, k + 1))
  BY <1>2, <1>3, <1>4, TurnStep
<1>10. \A k \in 0 .. n - 1 : \A a : TurnKnows(c, k, a) => TurnKnows(c, k + 1, TurnOp(c, a, s[k + 1]))
  BY <1>8, <1>9 DEF TurnOp
<1>11. TurnKnows(c, n, TurnFold!Folded(c, b, s))
  BY <1>3, <1>6, <1>8, <1>10, TurnFold!FoldKeeps
<1>12. RunProcess(w) = TurnFold!Folded(c, b, s).w
  BY <1>2, <1>5, <1>7, RunIsFold
<1> QED BY <1>4, <1>11, <1>12 DEF TurnKnows

\* A tick keeps the invariant.
LEMMA TickedGood ==
  ASSUME NEW w, Sound(Nil, Nil, w)
  PROVE  Sound(Nil, Nil, Ticked(w)) /\ Strides(w, Ticked(w)) /\ w.last <= Ticked(w).last
<1>1. PICK n : n = w.tick + 1
  OBVIOUS
<1>2. PICK v : v = [w EXCEPT !.tick = n]
  OBVIOUS
<1>3. DOMAIN w = Members /\ w.tick \in Nat /\ Queues(w) /\ Forces(w)
  BY DEF Sound, Nearly, Formed, Counted
<1>4. Only({"tick"}, w, v) /\ v.tick = n
  BY <1>2, <1>3 DEF Only, Members
<1>5. /\ v.obj = w.obj /\ v.to_add = w.to_add /\ v.under_force = w.under_force /\ v.chance = w.chance
      /\ v.last = w.last /\ v.list = w.list
  BY <1>4, SameFields
<1>6. Queues(v) /\ Forces(v)
  BY <1>3, <1>5 DEF Queues, Forces
<1>7. Only({"list", "to_add", "under_force", "chance", "failed", "lobby", "env", "tick"}, w, v)
  BY <1>4 DEF Only
<1>8. Sound(Nil, Nil, v)
  BY <1>1, <1>3, <1>4, <1>6, <1>7, ScalarSound
<1>9. Ticked(w) = RunProcess(v)
  BY <1>1, <1>2, <1>3 DEF Ticked, Members
<1> QED BY <1>5, <1>8, <1>9, RunGood, StridesLater

-----------------------------------------------------------------------------
(* The gas.                                                                *)

\* What is of a class is an object of it.
LEMMA IsValidObject ==
  ASSUME NEW w, NEW i, NEW class, Is(w, i, class), "hand" \notin class, "none" \notin class
  PROVE  i \in DOMAIN w.obj /\ i # Hand /\ w.obj[i].kind \in class
BY DEF Is, KindOf, IsValid

\* What is a movable is an object.
LEMMA IsMovable ==
  ASSUME NEW w, NEW i, Is(w, i, Movable)
  PROVE  i \in DOMAIN w.obj /\ i # Hand /\ w.obj[i].kind \in Movable
<1>1. "hand" \notin Movable /\ "none" \notin Movable
  BY DEF Movable, Mob, Projectile, Item, Gun, Cloth, Closet, Structure, Breakable
<1> QED BY <1>1, IsValidObject

\* A gust of the layout.
IsGust(g) == g.tile \in Tile /\ g.way \in Dir /\ g.strength \in Int

\* A gust keeps the invariant.
LEMMA GustGood ==
  ASSUME NEW r, NEW w, Good(r, w), NEW g, IsGust(g)
  PROVE  Good(r, Gust(w, g))
<1>1. PICK i : i = Topmost(w, g.tile)
  OBVIOUS
<1>2. PICK f : f = StepForce(g.way)
  OBVIOUS
<1>3. f \in Vector
  BY <1>2, VectorTypes
<1>4. Is(w, i, Movable) => Good(r, ApplyForce(w, i, f))
  BY <1>3, IsMovable, ApplyForceGood
<1>5. PICK e : e = Times(g.strength, f)
  OBVIOUS
<1>6. e \in Vector
  BY <1>3, <1>5, VectorTypes DEF IsGust
<1>7. PICK inside : inside = (g.how = "inside")
  OBVIOUS
<1>8. PICK x : x = BumpByGas(w, g.tile, e, inside)
  OBVIOUS
<1>9. Good(r, x)
  <2>1. PICK hit : hit = InTheWay(w, g.tile, inside, VDirToDir(e), AIR)
    OBVIOUS
  <2>2. x = IF Is(w, hit, Movable) THEN ApplyForce(w, hit, e) ELSE w
    BY <1>8, <2>1 DEF BumpByGas
  <2>3. CASE Is(w, hit, Movable)
    BY <1>6, <2>2, <2>3, IsMovable, ApplyForceGood
  <2> QED BY <2>2, <2>3
<1>11. CASE g.how = "flow"
  <2>1. Gust(w, g) = IF Is(w, i, Movable) THEN ApplyForce(w, i, f) ELSE w
    BY <1>1, <1>2, <1>11 DEF Gust
  <2> QED BY <1>4, <2>1
<1>12. CASE g.how # "flow"
  <2>1. Gust(w, g) = x \/ Gust(w, g) = w
    BY <1>2, <1>5, <1>7, <1>8, <1>12 DEF Gust
  <2> QED BY <1>9, <2>1
<1> QED BY <1>11, <1>12

-----------------------------------------------------------------------------
(* Attacks on doors, windows and grilles.                                  *)

\* A door that is not open stays so.
LEMMA DoorShutGood ==
  ASSUME NEW r, NEW w, Good(r, w), NEW i \in DOMAIN w.obj, w.obj[i].kind = "door", NEW state,
         w.own[i].state # "open", state # "open", NEW v, v = [w EXCEPT !.own[i].state = state]
  PROVE  Good(r, v)
<1>1. /\ DOMAIN w = Members /\ i \in DOMAIN w.own /\ DOMAIN w.own[i] = {"state", "last_tick"}
      /\ OwnFits(w, w.obj[i].kind, w.own[i]) /\ w.obj[i].kind \notin Wall \cup Closet \cup Projectile
  BY GoodForms, KindOwn DEF Wall, Closet, Projectile
<1>2. PICK e : e = [w.own[i] EXCEPT !.state = state]
  OBVIOUS
<1>3. DOMAIN e = DOMAIN w.own[i] /\ e.state = state
  BY <1>1, <1>2
<1>4. v = [w EXCEPT !.own[i] = e]
  BY <1>1, <1>2 DEF Members
<1>5. OwnChanged(w, i, e, v)
  BY <1>1, <1>4, OwnChangedIs
<1>6. OwnFine(w, i, e)
  BY <1>1, <1>3 DEF OwnFine, OwnFits
<1>7. Shaped(w, i)
  BY DEF Good, Sane, Sound, Nearly, Shapes, Nil
<1>8. ShapeFits(w.obj[i].kind, w.obj[i].pass, w.obj[i].dir, e)
  BY <1>1, <1>3, <1>7 DEF Shaped, ShapeFits
<1> QED BY <1>5, <1>6, <1>8, OwnStep DEF Good, OwnChanged

\* A remote control gets its door.
LEMMA OpenerGood ==
  ASSUME NEW r, NEW w, Good(r, w), NEW i \in DOMAIN w.obj, w.obj[i].kind = "door",
         NEW item \in DOMAIN w.obj, w.obj[item].kind = "opener", NEW v, v = [w EXCEPT !.own[item].door = i]
  PROVE  Good(r, v)
<1>1. /\ DOMAIN w = Members /\ item \in DOMAIN w.own /\ DOMAIN w.own[item] = {"door"}
      /\ OwnFits(w, w.obj[item].kind, w.own[item]) /\ w.obj[item].kind \notin Wall \cup Closet \cup Projectile
      /\ i \in 1 .. w.last /\ w.last \in Nat
  BY GoodForms, KindOwn DEF Wall, Closet, Projectile
<1>2. PICK e : e = [w.own[item] EXCEPT !.door = i]
  OBVIOUS
<1>3. DOMAIN e = DOMAIN w.own[item] /\ e.door = i
  BY <1>1, <1>2
<1>4. v = [w EXCEPT !.own[item] = e]
  BY <1>1, <1>2 DEF Members
<1>5. OwnChanged(w, item, e, v)
  BY <1>1, <1>4, OwnChangedIs
<1>6. Refers(w, e.door, {"door"})
  BY <1>1, <1>3 DEF Refers
<1>7. OwnFine(w, item, e)
  BY <1>1, <1>3, <1>6 DEF OwnFine, OwnFits
<1>8. ShapeFits(w.obj[item].kind, w.obj[item].pass, w.obj[item].dir, e)
  BY <1>1 DEF ShapeFits
<1> QED BY <1>5, <1>7, <1>8, OwnStep DEF Good, OwnChanged

\* An attack on a door keeps the invariant.
LEMMA DoorAttackedGood ==
  ASSUME NEW r, NEW w, Good(r, w), NEW i, IsDoor(w, i), NEW item, IsUsed(w, item)
  PROVE  Good(r, DoorAttacked(w, i, item))
<1>1. i \in DOMAIN w.obj /\ (Is(w, i, {"door"}) => w.obj[i].kind = "door")
  BY GoodForms DEF IsDoor, Is
<1>2. PICK k : k = "opener"
  OBVIOUS
<1>3. Is(w, item, {k}) => item \in DOMAIN w.obj /\ w.obj[item].kind = k
  BY <1>2, IsValidObject
<1>4. PICK x : x = [w EXCEPT !.own[item].door = i]
  OBVIOUS
<1>5. Is(w, i, {"door"}) /\ Is(w, item, {k}) => Good(r, x)
  BY <1>1, <1>2, <1>3, <1>4, OpenerGood
<1>6. PICK y : y = [w EXCEPT !.own[i].state = "welded"]
  OBVIOUS
<1>7. Is(w, i, {"door"}) /\ w.own[i].state = "closed" => Good(r, y)
  <2>1. PICK s : s = "welded"
    OBVIOUS
  <2> QED BY <1>1, <1>6, <2>1, DoorShutGood
<1>8. PICK z : z = [w EXCEPT !.own[i].state = "closed"]
  OBVIOUS
<1>9. Is(w, i, {"door"}) /\ w.own[i].state = "welded" => Good(r, z)
  <2>1. PICK s : s = "closed"
    OBVIOUS
  <2> QED BY <1>1, <1>8, <2>1, DoorShutGood
<1>10. Good(r, CloseDoor(w, i)) /\ Good(r, OpenDoor(w, i))
  BY CloseDoorSane, OpenDoorSane DEF Good
<1> QED BY <1>2, <1>4, <1>5, <1>6, <1>7, <1>8, <1>9, <1>10 DEF DoorAttacked

\* Bolting and unbolting keep the invariant.
LEMMA SetAnchoredGood ==
  ASSUME NEW r, NEW w, Good(r, w), NEW i \in DOMAIN w.obj, w.obj[i].kind \in Breakable
  PROVE  Good(r, SetAnchored(w, i))
<1>1. /\ DOMAIN w = Members /\ w.obj[i] \in Object /\ w.obj[i].kind # "glassdoor"
  BY GoodForms DEF Breakable
<1>2. PICK o : o = [w.obj[i] EXCEPT !.anchored = ~@]
  OBVIOUS
<1>3. /\ o \in Object /\ o.kind = w.obj[i].kind /\ o.owner = w.obj[i].owner /\ o.pass = w.obj[i].pass
      /\ o.last_move = w.obj[i].last_move /\ o.motion = w.obj[i].motion /\ o.dir = w.obj[i].dir
  BY <1>1, <1>2 DEF Object
<1>4. PICK v : v = SetAnchored(w, i)
  OBVIOUS
<1>5. Only({"obj"}, w, v) /\ v.obj = ObjsSet(w, i, o)
  BY <1>1, <1>2, <1>4 DEF SetAnchored, Only, Members, ObjsSet
<1>6. ~IsZero(w.obj[i].motion.force) => w.obj[i].kind \in Movable /\ i \in ToSet(w.to_add) \cup ToSet(w.under_force)
  BY DEF Good, Sane, Sound, Nearly, Forces
<1>7. ObjFine(w, w, i, o)
  BY <1>1, <1>3, <1>6 DEF ObjFine, Forceful
<1>8. Shaped(w, i)
  BY DEF Good, Sane, Sound, Nearly, Shapes, Nil
<1>9. ShapeFits(w.obj[i].kind, o.pass, o.dir, w.own[i])
  BY <1>3, <1>8 DEF Shaped
<1> QED BY <1>4, <1>5, <1>7, <1>9, ObjStep DEF Good

\* An attack on a structure keeps the invariant.
LEMMA BreakableAttackedGood ==
  ASSUME NEW r, NEW w, Good(r, w), NEW i \in DOMAIN w.obj, w.obj[i].kind \in Breakable, NEW item
  PROVE  Good(r, BreakableAttacked(w, i, item))
BY SetAnchoredGood, HitGood DEF BreakableAttacked

\* An attack on a grille keeps the invariant.
LEMMA GrilleAttackedGood ==
  ASSUME NEW r, NEW w, Good(r, w), NEW i \in DOMAIN w.obj, w.obj[i].kind \in Breakable, NEW item
  PROVE  Good(r, GrilleAttacked(w, i, item))
BY BreakableAttackedGood, TakeApartGood DEF GrilleAttacked

-----------------------------------------------------------------------------
(* New turfs.                                                              *)

\* None is no object that could be anywhere.
LEMMA NoneNowhere ==
  ASSUME NEW U, NEW w, NEW A, A = {None}, NEW B, B = {}, Sound(A, U, w)
  PROVE  Sound(B, U, w)
<1>1. Formed(w) /\ Settled(A, w) /\ \A j \in DOMAIN w.obj : j # None
  BY ValidIsNat DEF Sound, Nearly, Formed
<1>2. \A j \in DOMAIN w.obj : j \notin A
  BY <1>1
<1>3. Settled(B, w)
  BY <1>1, <1>2 DEF Settled, OnTiles, InContents, InSlots, Homed, Lies
<1> QED BY <1>3 DEF Sound, Nearly

\* The turf of the tile before.
Former(w, t) == {w.turf[t]} \ {None}

TurfGained(w, v, i, kind, t) ==
  /\ Only({"obj", "own", "content", "last", "turf", "sum", "flags", "failed", "list"}, w, v)
  /\ DOMAIN v.obj = (DOMAIN w.obj) \cup {i} /\ i \notin DOMAIN w.obj
  /\ \A j \in DOMAIN w.obj : v.obj[j] = w.obj[j]
  /\ v.obj[i].kind = kind /\ v.obj[i].owner = t /\ v.turf[t] = i

\* A new turf on a tile leaves only the old one unsettled, and its walls open.
LEMMA NewTurfSane ==
  ASSUME NEW N, N = {}, NEW U, NEW r, NEW w, Sane(N, U, r, w), NEW kind \in Turf, NEW t \in Tile, NEW i, i = NewId(w),
         NEW V, U \subseteq V, kind \in Wall => i \in V /\ t \in V, Is(w, w.turf[t], Wall) => t \in V,
         NEW v, v = Placed(Allocate(w, kind), i, t)
  PROVE  Sane(Former(w, t), V, r, v) /\ TurfGained(w, v, i, kind, t)
<1>0. kind \in Kind /\ kind \notin {"glass", "glassdoor"} /\ kind # "human"
  BY DEF Kind, Turf, Wall
<1>1. PICK x : x = Allocate(w, kind)
  OBVIOUS
<1>2. /\ OneMore(w, x, i, kind) /\ Sane({i}, U \cup {i}, r, x)
      /\ kind \notin Wall \cup {"glass", "glassdoor"} => Sane({i}, U, r, x)
  BY <1>0, <1>1, AllocateSane
<1>3. PICK A : A = {i}
  OBVIOUS
<1>4. Sane(A, V, r, x)
  <2>1. CASE kind \in Wall
    <3>1. PICK W : W = U \cup {i}
      OBVIOUS
    <3>2. W \subseteq V /\ Sane(A, W, r, x)
      BY <1>2, <1>3, <2>1, <3>1
    <3> QED BY <3>2, LooseSane
  <2>2. CASE kind \notin Wall
    <3>1. Sane(A, U, r, x)
      BY <1>0, <1>2, <1>3, <2>2
    <3> QED BY <3>1, LooseSane
  <2> QED BY <2>1, <2>2
<1>5. Gained(w, x, i, kind) /\ x.obj[i].owner = None
  BY <1>0, <1>2, AllocatedGained
<1>6. i = w.last + 1
  BY DEF NewId
<1>7. i \notin DOMAIN w.obj /\ w.turf[t] # i /\ DOMAIN w = Members /\ i # Hand
  BY <1>6, NewId_Fresh, SaneForms
<1>8. /\ x.turf = w.turf /\ i \in DOMAIN x.obj /\ x.obj[i].kind = kind
      /\ DOMAIN x.obj = (DOMAIN w.obj) \cup {i} /\ \A j \in DOMAIN w.obj : x.obj[j] = w.obj[j]
  BY <1>5, SameFields DEF Gained
<1>9. /\ Is(x, i, Turf) /\ (Is(x, i, Wall) => kind \in Wall)
      /\ Is(x, x.turf[t], Wall) => Is(w, w.turf[t], Wall)
  BY <1>7, <1>8 DEF Is, KindOf, IsValid
<1>10. v = SetTurf(x, t, i)
  BY <1>1, <1>9 DEF Placed
<1>11. PICK B : B = (A \cup {x.turf[t]}) \ {i}
  OBVIOUS
<1>12. /\ Sound(B, V, v) /\ Since(x, v) /\ Only({"obj", "turf", "sum", "flags"}, x, v)
       /\ v.obj = TurfOwner(x, t, i) /\ v.turf = TurfSet(x, t, i)
  <2>1. x.obj[i].owner \notin Tile
    BY <1>5, NoneIsNoTile
  <2>2. Sound(A, V, x)
    BY <1>4 DEF Sane
  <2>3. Is(x, x.turf[t], Wall) \/ Is(x, i, Wall) => t \in V
    BY <1>9
  <2>4. Is(x, i, Wall) => i \in V
    BY <1>9
  <2>5. x.obj[i].kind \in Turf /\ i \in A
    BY <1>3, <1>8
  <2> QED BY <1>8, <1>10, <1>11, <2>1, <2>2, <2>3, <2>4, <2>5, SetTurfSound
<1>13. Sound(Former(w, t), V, v)
  <2>1. B = {w.turf[t]}
    BY <1>3, <1>7, <1>8, <1>11
  <2>2. CASE w.turf[t] = None
    <3>1. PICK F : F = {}
      OBVIOUS
    <3>2. Sound(F, V, v)
      BY <1>12, <2>1, <2>2, <3>1, NoneNowhere
    <3> QED BY <2>2, <3>1, <3>2 DEF Former
  <2>3. CASE w.turf[t] # None
    <3>1. B = Former(w, t)
      BY <2>1, <2>3 DEF Former
    <3> QED BY <1>12, <3>1
  <2> QED BY <2>2, <2>3
<1>14. Sane(Former(w, t), V, r, v)
  BY <1>4, <1>12, <1>13, SaneStep
<1>15. TurfGained(w, v, i, kind, t)
  <2>1. Only({"obj", "own", "content", "last", "turf", "sum", "flags", "failed", "list"}, w, v)
    BY <1>5, <1>12 DEF Gained, Only
  <2>2. v.obj = OwnerSet(x, i, t)
    BY <1>8, <1>12 DEF TurfOwner, IsValid
  <2>3. Objects(x)
    BY <1>4 DEF Sane, Sound, Nearly, Formed
  <2>4. /\ DOMAIN v.obj = DOMAIN x.obj /\ v.obj[i].owner = t /\ v.obj[i].kind = kind
        /\ \A j \in DOMAIN x.obj : j # i => v.obj[j] = x.obj[j]
    <3>1. /\ DOMAIN OwnerSet(x, i, t) = DOMAIN x.obj
          /\ \A j \in DOMAIN x.obj : j # i => OwnerSet(x, i, t)[j] = x.obj[j]
          /\ OwnerSet(x, i, t)[i].owner = t
      <4>1. i \in DOMAIN x.obj /\ x.obj[i] \in Object
        BY <1>8, <2>3 DEF Objects
      <4> QED BY <4>1 DEF OwnerSet, Object
    <3>2. OwnerSet(x, i, t)[i].kind = x.obj[i].kind
      <4>1. i \in DOMAIN x.obj /\ x.obj[i] \in Object
        BY <1>8, <2>3 DEF Objects
      <4> QED BY <4>1 DEF OwnerSet, Object
    <3> QED BY <1>8, <2>2, <3>1, <3>2
  <2>5. t \in DOMAIN x.turf
    BY <1>4 DEF Sane, Sound, Nearly, Formed, Grid
  <2>6. v.turf[t] = i
    BY <1>12, <2>5 DEF TurfSet
  <2> QED BY <1>7, <1>8, <2>1, <2>4, <2>6 DEF TurfGained
<1> QED BY <1>14, <1>15

\* A floor or space where there was something, or nothing.
LEMMA NewGroundSane ==
  ASSUME NEW N, N = {}, NEW U, NEW r, NEW w, Sane(N, U, r, w), NEW kind \in Turf \ Wall, NEW t \in Tile, NEW i, i = NewId(w),
         Is(w, w.turf[t], Wall) => t \in U, NEW v, v = Create(w, kind, t)
  PROVE  Sane(Former(w, t), U, r, v) /\ TurfGained(w, v, i, kind, t)
<1>1. PICK x : x = Placed(Allocate(w, kind), i, t)
  OBVIOUS
<1>2. Sane(Former(w, t), U, r, x) /\ TurfGained(w, x, i, kind, t)
  BY <1>1, NewTurfSane
<1>3. KindOf(x, i) = kind
  BY <1>2, SaneForms DEF TurfGained
<1>4. kind \in {"floor", "space"}
  BY DEF Turf
<1>5. v = x
  BY <1>1, <1>3, <1>4 DEF Create, AfterWorldCreation, Projectile, Wall, Closet
<1> QED BY <1>2, <1>5

\* A wall where there was nothing.
LEMMA NewWallSane ==
  ASSUME NEW N, N = {}, NEW U, NEW r, NEW w, Sane(N, U, r, w), NEW kind \in Wall, NEW t \in Tile, NEW i, i = NewId(w),
         w.turf[t] = None, NEW v, v = Create(w, kind, t)
  PROVE  Sane(N, U, r, v) /\ TurfGained(w, v, i, kind, t)
<1>1. PICK x : x = Placed(Allocate(w, kind), i, t)
  OBVIOUS
<1>2. PICK V : V = U \cup {i, t}
  OBVIOUS
<1>3. Sane(Former(w, t), V, r, x) /\ TurfGained(w, x, i, kind, t)
  <2>1. kind \in Turf /\ U \subseteq V /\ i \in V /\ t \in V
    BY <1>2 DEF Turf
  <2> QED BY <1>1, <2>1, NewTurfSane
<1>4. Former(w, t) = {}
  BY DEF Former
<1>5. KindOf(x, i) = kind /\ i \in DOMAIN x.obj /\ x.obj[i].kind \in Wall /\ x.obj[i].owner = t
  BY <1>3, SaneForms DEF TurfGained
<1>6. v = CheckNeighborhood(x, i)
  BY <1>1, <1>5 DEF Create, AfterWorldCreation, Projectile, Wall
<1>7. Sane({}, U \cup {i, t}, r, x)
  BY <1>2, <1>3, <1>4
<1>8. Sane({}, U, r, v) /\ Only({"own"}, x, v)
  BY ONLY <1>5, <1>6, <1>7, CheckSane
<1>9. v.obj = x.obj /\ v.turf = x.turf
  BY <1>8, SameFields
<1>10. Only({"obj", "own", "content", "last", "turf", "sum", "flags", "failed", "list"}, w, v)
  BY <1>3, <1>8 DEF TurfGained, Only
<1>11. TurfGained(w, v, i, kind, t)
  BY <1>3, <1>9, <1>10 DEF TurfGained
<1> QED BY <1>8, <1>11

-----------------------------------------------------------------------------
(* Building and taking apart.                                              *)

\* What is no item and no person is on a tile, or nowhere.
LEMMA StructureHome ==
  ASSUME NEW r, NEW w, Good(r, w), NEW i \in DOMAIN w.obj, w.obj[i].kind \notin Item \cup {"human"}
  PROVE  w.obj[i].owner \in Tile \cup {None}
<1>1. Formed(w) /\ Settled(Nil, w) /\ i # None /\ i \notin Nil
  BY GoodForms DEF Good, Sane, Sound, Nearly, Nil
<1>2. PICK c : c = w.obj[i].owner
  OBVIOUS
<1>3. CASE c # None
  <2>1. Has(w, c, i)
    BY <1>1, <1>2, <1>3 DEF Settled, Homed
  <2>2. c \in Tile \/ Is(w, c, Closet) \/ Is(w, c, {"human"})
    BY <2>1 DEF Has
  <2> QED BY <1>1, <1>2, <2>1, <2>2, HasLies
<1> QED BY <1>2, <1>3

\* The turf under what is fixed is the turf of its tile.
LEMMA TurfUnder ==
  ASSUME NEW r, NEW w, Good(r, w), NEW i \in DOMAIN w.obj, w.obj[i].kind \notin Item \cup {"human"},
         NEW g, g = GetTurf(w, i), g # None
  PROVE  w.obj[i].owner \in Tile /\ g \in DOMAIN w.obj /\ w.obj[g].kind \in Turf /\ w.obj[g].owner = w.obj[i].owner
<1>1. i \notin Tile
  BY GoodForms
<1>2. w.obj[i].owner \in Tile \cup {None}
  BY StructureHome
<1>3. CASE w.obj[i].owner = None
  <2>1. Above(w, i) = i
    BY <1>1, <1>3 DEF Above, Owner
  <2>2. GetTurf(w, i) = None
    BY <1>1, <2>1 DEF GetTurf, Root
  <2> QED BY <2>2
<1>4. CASE w.obj[i].owner \in Tile
  <2>1. PICK t : t = w.obj[i].owner
    OBVIOUS
  <2>2. t # None /\ t \in Tile
    BY <1>4, <2>1, NoneIsNoTile
  <2>3. Above(w, i) = t /\ Above(w, t) = t
    BY <1>1, <2>1, <2>2 DEF Above, Owner, IsValid
  <2>4. g = w.turf[t]
    BY <2>2, <2>3 DEF GetTurf, Root
  <2>5. OnTiles(Nil, w)
    BY DEF Good, Sane, Sound, Nearly, Settled
  <2> QED BY <2>1, <2>2, <2>4, <2>5 DEF OnTiles, Lies
<1> QED BY <1>2, <1>3, <1>4

\* A turf goes, and its tile has none.
LEMMA TurfGoes ==
  ASSUME NEW r, NEW w, Good(r, w), NEW g \in DOMAIN w.obj, w.obj[g].kind \in Turf, NEW t, t = w.obj[g].owner,
         NEW v, v = DeleteObject(w, g)
  PROVE  Good(r, v) /\ Deleted(w, g, v) /\ t \in Tile /\ v.turf[t] = None
<1>1. t \in Tile /\ w.turf[t] = g
  BY TurfHome DEF Good, Nil
<1>2. w.obj[g].kind \notin Mob \cup Closet \cup {"human"} /\ g # None
  BY GoodForms DEF Turf, Mob, Wall, Closet
<1>3. Good(r, v) /\ Deleted(w, g, v)
  <2>1. CASE w.obj[g].kind \in Wall
    <3>1. PICK V : V = Nil \cup {g, t}
      OBVIOUS
    <3>2. Sane(Nil, V, r, w)
      BY <3>1, LooseSane DEF Good, Nil
    <3>3. Sane(Nil, Nil \cup {g, t}, r, w) /\ Nil \subseteq {g} /\ g \notin Nil
      BY <3>1, <3>2 DEF Nil
    <3>4. Sane({}, Nil, r, v) /\ Deleted(w, g, v)
      BY <1>1, <2>1, <3>3, DeleteWallSane
    <3> QED BY <3>4 DEF Good, Nil
  <2>2. CASE w.obj[g].kind \notin Wall
    BY <1>2, <2>2, DeleteGood, UnmindedGood DEF Mortal
  <2> QED BY <2>1, <2>2
<1>4. v.turf[t] = None
  <2>1. SUFFICES ASSUME v.turf[t] # None PROVE FALSE
    OBVIOUS
  <2>2. PICK j : j = v.turf[t]
    OBVIOUS
  <2>3. j \in DOMAIN v.obj /\ v.obj[j].kind \in Turf /\ v.obj[j].owner = t
    BY <1>1, <1>3, <2>1, <2>2 DEF Good, Sane, Sound, Nearly, Settled, OnTiles, Lies
  <2>4. j \in DOMAIN w.obj /\ j # g /\ w.obj[j].kind \in Turf /\ w.obj[j].owner = t
    BY <1>3, <2>3 DEF Deleted
  <2>5. w.turf[t] = j
    BY <2>4, TurfHome DEF Good, Nil
  <2> QED BY <1>1, <2>4, <2>5
<1> QED BY <1>1, <1>3, <1>4

\* The tiles of a floor are laid or taken off.
LEMMA FloorSane ==
  ASSUME NEW A, NEW U, NEW r, NEW w, Sane(A, U, r, w), NEW i \in DOMAIN w.obj, w.obj[i].kind = "floor", NEW open,
         NEW v, v = [w EXCEPT !.own[i].open = open]
  PROVE  Sane(A, U, r, v) /\ v.obj = w.obj /\ v.turf = w.turf
<1>1. /\ DOMAIN w = Members /\ DOMAIN w.own = DOMAIN w.obj /\ OwnFits(w, w.obj[i].kind, w.own[i])
  BY SaneForms
<1>2. DOMAIN w.own[i] = {"open"}
  BY <1>1, NewOwnIs DEF OwnFits
<1>3. PICK e : e = [w.own[i] EXCEPT !.open = open]
  OBVIOUS
<1>4. DOMAIN e = DOMAIN w.own[i]
  BY <1>3
<1>5. v = [w EXCEPT !.own[i] = e]
  BY <1>1, <1>2, <1>3 DEF Members
<1>6. OwnChanged(w, i, e, v)
  BY <1>1, <1>5, OwnChangedIs
<1>7. w.obj[i].kind \notin Wall \cup Projectile \cup {"human", "opener"}
  BY DEF Wall, Projectile
<1>8. OwnFine(w, i, e)
  BY <1>1, <1>4, <1>7, SimpleOwn
<1>9. ShapeFits(w.obj[i].kind, w.obj[i].pass, w.obj[i].dir, e)
  BY DEF ShapeFits, Closet
<1>10. Only({"own"}, w, v) /\ v.own = OwnsSet(w, i, e)
  BY <1>6 DEF OwnChanged
<1>11. Sane(A, U, r, v)
  BY <1>8, <1>9, <1>10, OwnStep
<1> QED BY <1>10, <1>11, SameFields

\* The floor that is on the tile now.
Floored(w, t, i, v) ==
  /\ v.turf[t] = i /\ i \in DOMAIN v.obj /\ v.obj[i].kind = "floor"
  /\ \A j \in DOMAIN w.obj : j \in DOMAIN v.obj /\ v.obj[j] = w.obj[j]

\* A floor on a tile leaves only the old turf unsettled.
LEMMA LaidFloorSane ==
  ASSUME NEW N, N = {}, NEW U, NEW r, NEW w, Sane(N, U, r, w), NEW t \in Tile, Is(w, w.turf[t], Wall) => t \in U,
         NEW kind, kind = "floor", NEW i, i = NewId(w), NEW v, v = Laid(w, kind, t)
  PROVE  Sane(Former(w, t), U, r, v) /\ Floored(w, t, i, v)
<1>1. PICK x : x = Create(w, kind, t)
  OBVIOUS
<1>2. kind \in Turf \ Wall
  BY DEF Turf, Wall
<1>3. Sane(Former(w, t), U, r, x) /\ TurfGained(w, x, i, kind, t)
  BY <1>1, <1>2, NewGroundSane
<1>4. /\ DOMAIN x.obj = (DOMAIN w.obj) \cup {i} /\ \A j \in DOMAIN w.obj : x.obj[j] = w.obj[j]
      /\ x.obj[i].kind = kind /\ x.turf[t] = i
  BY <1>3 DEF TurfGained
<1>5. PICK open : open = TRUE
  OBVIOUS
<1>6. v = [x EXCEPT !.own[i].open = open]
  BY <1>1, <1>5 DEF Laid
<1>7. Sane(Former(w, t), U, r, v) /\ v.obj = x.obj /\ v.turf = x.turf
  BY <1>3, <1>4, <1>6, FloorSane
<1> QED BY <1>4, <1>7 DEF Floored

\* A turf on a tile without one keeps the invariant.
LEMMA LaidGood ==
  ASSUME NEW r, NEW w, Good(r, w), NEW t \in Tile, w.turf[t] = None, NEW kind \in {"floor", "wall"},
         NEW v, v = Laid(w, kind, t)
  PROVE  Good(r, v) /\ \A j \in DOMAIN w.obj : j \in DOMAIN v.obj /\ v.obj[j] = w.obj[j]
<1>1. PICK i : i = NewId(w)
  OBVIOUS
<1>2. Former(w, t) = Nil /\ Nil = {}
  BY DEF Former, Nil
<1>3. ~Is(w, w.turf[t], Wall)
  <2>1. None \notin DOMAIN w.obj
    BY GoodForms
  <2> QED BY <2>1 DEF Is, KindOf, IsValid, Wall, Hand, None
<1>4. CASE kind = "floor"
  <2>1. Sane(Former(w, t), Nil, r, v) /\ Floored(w, t, i, v)
    BY <1>1, <1>2, <1>3, <1>4, LaidFloorSane DEF Good
  <2> QED BY <1>2, <2>1 DEF Good, Floored
<1>5. CASE kind = "wall"
  <2>1. kind \in Wall /\ v = Create(w, kind, t)
    BY <1>5 DEF Wall, Laid
  <2>2. Sane(Nil, Nil, r, v) /\ TurfGained(w, v, i, kind, t)
    BY <1>1, <1>2, <2>1, NewWallSane DEF Good
  <2> QED BY <2>2 DEF Good, TurfGained
<1> QED BY <1>4, <1>5

\* Building on a tile keeps the invariant.
LEMMA BuiltGood ==
  ASSUME NEW r, NEW w, Good(r, w), NEW i \in DOMAIN w.obj, w.obj[i].kind \in {"girder", "lattice"},
         NEW item \in DOMAIN w.obj, w.obj[item].kind \in Item, NEW kind \in {"floor", "wall"}
  PROVE  Good(r, Built(w, i, item, kind))
<1>1. PICK g : g = GetTurf(w, i)
  OBVIOUS
<1>2. CASE g = None
  <2>1. PICK why : why = "No turf to delete"
    OBVIOUS
  <2>2. Built(w, i, item, kind) = Fail(w, why)
    BY <1>1, <1>2, <2>1 DEF Built
  <2> QED BY <2>2, FailSane DEF Good
<1>3. CASE g # None
  <2>1. PICK t : t = w.obj[i].owner
    OBVIOUS
  <2>2. w.obj[i].kind \notin Item \cup {"human"} /\ w.obj[i].kind \notin Turf \cup Mob /\ Mortal(w.obj[i].kind)
    BY DEF Item, Gun, Cloth, Turf, Wall, Mob, Mortal, Closet
  <2>3. t \in Tile /\ g \in DOMAIN w.obj /\ w.obj[g].kind \in Turf /\ w.obj[g].owner = t
    BY <1>1, <1>3, <2>1, <2>2, TurfUnder
  <2>4. item # g /\ item # i /\ g # i
    BY <2>2, <2>3 DEF Item, Gun, Cloth, Turf, Wall
  <2>5. PICK x : x = DeleteObject(w, item)
    OBVIOUS
  <2>6. Good(r, x) /\ Deleted(w, item, x)
    BY <2>5, ItemGoes
  <2>7. g \in DOMAIN x.obj /\ i \in DOMAIN x.obj /\ x.obj[g] = w.obj[g] /\ x.obj[i] = w.obj[i]
    BY <2>3, <2>4, <2>6 DEF Deleted
  <2>8. PICK y : y = DeleteObject(x, g)
    OBVIOUS
  <2>9. Good(r, y) /\ Deleted(x, g, y) /\ y.turf[t] = None
    BY <2>3, <2>6, <2>7, <2>8, TurfGoes
  <2>10. i \in DOMAIN y.obj /\ y.obj[i] = w.obj[i]
    BY <2>4, <2>7, <2>9 DEF Deleted
  <2>11. PICK z : z = Laid(y, kind, t)
    OBVIOUS
  <2>12. Good(r, z) /\ i \in DOMAIN z.obj /\ z.obj[i] = w.obj[i]
    BY <2>3, <2>9, <2>10, <2>11, LaidGood
  <2>13. PICK v : v = DeleteObject(z, i)
    OBVIOUS
  <2>14. Good(r, v)
    <3>1. Unminded(z, i)
      BY <2>2, <2>12, UnmindedGood, GoodForms
    <3> QED BY <2>2, <2>12, <2>13, <3>1, DeleteGood
  <2>15. v = Built(w, i, item, kind)
    BY <1>1, <1>3, <2>1, <2>5, <2>8, <2>11, <2>13 DEF Built, Owner
  <2> QED BY <2>14, <2>15
<1> QED BY <1>2, <1>3

-----------------------------------------------------------------------------
(* Attacks on structures, turfs and items.                                 *)

\* Something is made of something.
LEMMA MadeGood ==
  ASSUME NEW r, NEW w, Good(r, w), NEW kind, NEW owner, Plain(kind), NEW i \in DOMAIN w.obj, Mortal(w.obj[i].kind),
         w.obj[i].kind \notin Mob, NEW v, v = DeleteObject(Create(w, kind, owner), i)
  PROVE  Good(r, v)
<1>1. PICK n : n = NewId(w)
  OBVIOUS
<1>2. PICK x : x = Create(w, kind, owner)
  OBVIOUS
<1>3. Good(r, x) /\ Gained(w, x, n, kind)
  BY <1>1, <1>2, CreateGood DEF PlainAt
<1>4. i \in DOMAIN x.obj /\ x.obj[i] = w.obj[i] /\ i # None
  BY <1>3, GoodForms DEF Gained
<1>5. Unminded(x, i)
  BY <1>3, <1>4, UnmindedGood
<1> QED BY <1>2, <1>3, <1>4, <1>5, DeleteGood

\* Items may be deleted, and are none of the special classes.
LEMMA ItemIs == \A kind \in Item : Mortal(kind) /\ kind \notin Mob \cup Turf \cup Closet \cup {"human"}
BY DEF Item, Gun, Cloth, Mortal, Mob, Wall, Turf, Closet

\* What is built is plain.
LEMMA PlainKinds == \A kind \in {"girder", "lattice", "grille", "metal", "rod", "floortile", "casing"} : Plain(kind)
BY DEF Plain, Kind, Movable, Item, Structure, Breakable, Rooted, Turf, Wall, Closet, Projectile

\* Building with a girder keeps the invariant.
LEMMA GirderAttackedGood ==
  ASSUME NEW r, NEW w, Good(r, w), NEW i \in DOMAIN w.obj, w.obj[i].kind = "girder", NEW item
  PROVE  Good(r, GirderAttacked(w, i, item))
<1>1. PICK kind : kind = "wall"
  OBVIOUS
<1>2. Is(w, item, {"metal"}) => Good(r, Built(w, i, item, kind))
  <2>1. Is(w, item, {"metal"}) => item \in DOMAIN w.obj /\ w.obj[item].kind \in {"metal"}
    BY IsValidObject
  <2> QED BY <1>1, <2>1, BuiltGood DEF Item
<1>3. PICK metal : metal = "metal"
  OBVIOUS
<1>4. PICK t : t = Owner(w, i)
  OBVIOUS
<1>5. PICK v : v = DeleteObject(Create(w, metal, t), i)
  OBVIOUS
<1>6. Good(r, v)
  <2>1. Plain(metal) /\ Mortal(w.obj[i].kind) /\ w.obj[i].kind \notin Mob
    BY <1>3, PlainKinds DEF Mortal, Wall, Closet, Mob
  <2> QED BY <1>5, <2>1, MadeGood
<1> QED BY <1>1, <1>2, <1>3, <1>4, <1>5, <1>6 DEF GirderAttacked

\* Building with a lattice keeps the invariant.
LEMMA LatticeAttackedGood ==
  ASSUME NEW r, NEW w, Good(r, w), NEW i \in DOMAIN w.obj, w.obj[i].kind = "lattice", NEW item
  PROVE  Good(r, LatticeAttacked(w, i, item))
<1>1. PICK kind : kind = "floor"
  OBVIOUS
<1>2. Is(w, item, {"floortile"}) => item \in DOMAIN w.obj /\ w.obj[item].kind \in {"floortile"}
  BY IsValidObject
<1> QED BY <1>1, <1>2, BuiltGood DEF LatticeAttacked, Item

\* Taking a wall down keeps the invariant: its neighbours forget it.
LEMMA WallAttackedGood ==
  ASSUME NEW r, NEW w, Good(r, w), NEW i \in DOMAIN w.obj, w.obj[i].kind \in Wall, NEW item
  PROVE  Good(r, WallAttacked(w, i, item))
<1>1. PICK t : t = Owner(w, i)
  OBVIOUS
<1>2. t \in Tile /\ w.obj[i].owner = t
  BY <1>1, RootedHome DEF Good, Rooted, Turf, Owner
<1>3. PICK a : a = "girder"
  OBVIOUS
<1>4. PICK b : b = "metal"
  OBVIOUS
<1>5. PICK x : x = Create(w, a, t)
  OBVIOUS
<1>6. PICK n : n = NewId(w)
  OBVIOUS
<1>7. Good(r, x) /\ Gained(w, x, n, a)
  BY <1>3, <1>5, <1>6, PlainKinds, CreateGood DEF PlainAt
<1>8. i \in DOMAIN x.obj /\ x.obj[i] = w.obj[i]
  BY <1>7 DEF Gained
<1>9. PICK y : y = Create(x, b, t)
  OBVIOUS
<1>10. PICK m : m = NewId(x)
  OBVIOUS
<1>11. Good(r, y) /\ Gained(x, y, m, b)
  BY <1>4, <1>7, <1>9, <1>10, PlainKinds, CreateGood DEF PlainAt
<1>12. i \in DOMAIN y.obj /\ y.obj[i] = w.obj[i]
  BY <1>8, <1>11 DEF Gained
<1>13. y.turf[t] = i
  BY <1>2, <1>11, <1>12, TurfHome DEF Good, Nil, Turf
<1>14. PICK U : U = Nil \cup {i, t}
  OBVIOUS
<1>15. Sane(Nil, U, r, y)
  BY <1>11, <1>14, LooseSane DEF Good, Nil
<1>16. PICK kind : kind = "floor"
  OBVIOUS
<1>17. PICK k : k = NewId(y)
  OBVIOUS
<1>18. PICK z : z = Laid(y, kind, t)
  OBVIOUS
<1>19. /\ Sane(Former(y, t), U, r, z) /\ z.turf[t] = k /\ k \in DOMAIN z.obj /\ z.obj[k].kind = "floor"
       /\ \A j \in DOMAIN y.obj : j \in DOMAIN z.obj /\ z.obj[j] = y.obj[j]
  <2>1. t \in U /\ Nil = {} /\ (Is(y, y.turf[t], Wall) => t \in U)
    BY <1>14 DEF Nil
  <2>2. Sane(Former(y, t), U, r, z) /\ Floored(y, t, k, z)
    BY ONLY <1>2, <1>15, <1>16, <1>17, <1>18, <2>1, LaidFloorSane
  <2> QED BY <2>2 DEF Floored
<1>20. PICK A : A = Former(y, t)
  OBVIOUS
<1>21. A \subseteq {i} /\ i \in DOMAIN z.obj /\ z.obj[i].kind \in Wall /\ z.obj[i].owner = t
  BY <1>2, <1>12, <1>13, <1>19, <1>20 DEF Former
<1>22. ~Is(z, z.turf[t], Wall)
  <2>1. KindOf(z, k) = "floor"
    BY <1>19, SaneForms
  <2> QED BY <1>19, <2>1 DEF Is, Wall
<1>23. PICK v : v = DeleteObject(z, i)
  OBVIOUS
<1>24. Sane(A, Nil \cup {i, t}, r, z)
  BY <1>14, <1>19, <1>20
<1>25. Sane({}, Nil, r, v)
  BY <1>2, <1>21, <1>22, <1>23, <1>24, DeleteWallSane
<1>26. Good(r, v)
  BY <1>25 DEF Good, Nil
<1>27. WallAttacked(w, i, item) \in {v, w}
  BY <1>1, <1>3, <1>4, <1>5, <1>9, <1>16, <1>18, <1>23 DEF WallAttacked
<1> QED BY <1>26, <1>27

\* Work on a floor keeps the invariant.
LEMMA FloorAttackedGood ==
  ASSUME NEW r, NEW w, Good(r, w), NEW i \in DOMAIN w.obj, w.obj[i].kind = "floor", NEW item
  PROVE  Good(r, FloorAttacked(w, i, item))
<1>1. PICK yes : yes = TRUE
  OBVIOUS
<1>2. PICK x : x = [w EXCEPT !.own[i].open = yes]
  OBVIOUS
<1>3. Good(r, x) /\ x.obj = w.obj
  BY <1>2, FloorSane DEF Good
<1>4. PICK kind : kind = "floortile"
  OBVIOUS
<1>5. PICK t : t = Owner(w, i)
  OBVIOUS
<1>6. PICK n : n = NewId(x)
  OBVIOUS
<1>7. PICK v : v = Create(x, kind, t)
  OBVIOUS
<1>8. Good(r, v)
  BY <1>3, <1>4, <1>6, <1>7, PlainKinds, CreateGood DEF PlainAt
<1>9. PICK no : no = FALSE
  OBVIOUS
<1>10. PICK y : y = [w EXCEPT !.own[i].open = no]
  OBVIOUS
<1>11. Good(r, y) /\ y.obj = w.obj
  BY <1>10, FloorSane DEF Good
<1>12. PICK z : z = DeleteObject(y, item)
  OBVIOUS
<1>13. Is(w, item, {"floortile"}) => Good(r, z)
  <2>1. Is(w, item, {"floortile"}) => item \in DOMAIN w.obj /\ w.obj[item].kind \in {"floortile"}
    BY IsValidObject
  <2> QED BY <1>11, <1>12, <2>1, ItemGoes DEF Item
<1> QED BY <1>1, <1>2, <1>4, <1>5, <1>7, <1>8, <1>9, <1>10, <1>12, <1>13 DEF FloorAttacked

\* Work on space keeps the invariant.
LEMMA SpaceAttackedGood ==
  ASSUME NEW r, NEW w, Good(r, w), NEW i \in DOMAIN w.obj, NEW item
  PROVE  Good(r, SpaceAttacked(w, i, item))
<1>1. PICK kind : kind = "lattice"
  OBVIOUS
<1>2. PICK t : t = Owner(w, i)
  OBVIOUS
<1>3. PICK x : x = DeleteObject(w, item)
  OBVIOUS
<1>4. PICK v : v = Create(x, kind, t)
  OBVIOUS
<1>5. CASE Is(w, item, {"rod"})
  <2>1. item \in DOMAIN w.obj /\ w.obj[item].kind \in {"rod"}
    BY <1>5, IsValidObject
  <2>2. Good(r, x)
    BY <1>3, <2>1, ItemGoes DEF Item
  <2>3. PICK n : n = NewId(x)
    OBVIOUS
  <2>4. Good(r, v)
    BY <1>1, <1>4, <2>2, <2>3, PlainKinds, CreateGood DEF PlainAt
  <2> QED BY <1>1, <1>2, <1>3, <1>4, <1>5, <2>4 DEF SpaceAttacked
<1>6. CASE ~Is(w, item, {"rod"})
  BY <1>6 DEF SpaceAttacked
<1> QED BY <1>5, <1>6

\* An item used on itself keeps the invariant.
LEMMA UsedOnItselfGood ==
  ASSUME NEW r, NEW w, Good(r, w), NEW i \in DOMAIN w.obj, w.obj[i].kind \in Item
  PROVE  Good(r, UsedOnItself(w, i))
<1>1. PICK t : t = GetTurf(w, i)
  OBVIOUS
<1>2. PICK kind : kind = IF Is(w, i, {"rod"}) THEN "grille" ELSE "girder"
  OBVIOUS
<1>3. Plain(kind) /\ Mortal(w.obj[i].kind) /\ w.obj[i].kind \notin Mob
  BY <1>2, PlainKinds, ItemIs
<1>4. PICK v : v = DeleteObject(Create(w, kind, t), i)
  OBVIOUS
<1>5. Good(r, v)
  BY <1>3, <1>4, MadeGood
<1>6. PICK o : o = w.own[i].door
  OBVIOUS
<1>7. PICK x : x = OpenDoor(w, o)
  OBVIOUS
<1>8. Is(w, i, {"opener"}) /\ IsValid(w, o) => Good(r, x)
  <2>1. Is(w, i, {"opener"}) => w.obj[i].kind = "opener"
    BY GoodForms DEF Is
  <2>2. w.obj[i].kind = "opener" => Refers(w, o, {"door"})
    BY <1>6, GoodForms DEF OwnFits
  <2>3. Is(w, i, {"opener"}) /\ IsValid(w, o) => IsDoor(w, o)
    BY <2>1, <2>2 DEF Refers, IsDoor, IsValid
  <2> QED BY <1>7, <2>3, OpenDoorSane DEF Good
<1> QED BY <1>1, <1>2, <1>4, <1>5, <1>6, <1>7, <1>8 DEF UsedOnItself

\* An item used on an item keeps the invariant.
LEMMA ItemAttackedGood ==
  ASSUME NEW r, NEW w, Good(r, w), NEW i, NEW item, i = item => i \in DOMAIN w.obj /\ w.obj[i].kind \in Item
  PROVE  Good(r, ItemAttacked(w, i, item))
<1>1. Is(w, i, {"welder"}) => i \in DOMAIN w.obj /\ w.obj[i].kind \in {"welder"}
  BY IsValidObject
<1>2. Is(w, i, {"welder"}) => Good(r, WelderAttacked(w, i))
  BY <1>1, WelderAttackedGood
<1> QED BY <1>2, UsedOnItselfGood DEF ItemAttacked

-----------------------------------------------------------------------------
(* A closet is shut.                                                       *)

\* Taking from a tile and putting in a closet commute.
LEMMA PutTaken ==
  ASSUME NEW w, DOMAIN w = Members, NEW t, NEW c, c # t, t \in DOMAIN w.content, c \in DOMAIN w.content, NEW i
  PROVE  Taken(Put(w, c, i), t, i) = Put(Taken(w, t, i), c, i)
BY DEF Taken, Put, Members

\* Writing a tile's sum and putting in a closet commute.
LEMMA PutWithSum ==
  ASSUME NEW w, DOMAIN w = Members, NEW t, NEW c, c # t, NEW i, NEW sum,
         AtmosFlags(Put(w, c, i), t, sum) = AtmosFlags(w, t, sum)
  PROVE  WithSum(Put(w, c, i), t, sum) = Put(WithSum(w, t, sum), c, i)
BY DEF WithSum, Put, Members

\* What is put into a closet does not matter to the tile it left.
LEMMA PutUpdated ==
  ASSUME NEW A, NEW U, NEW w, NEW t \in Tile, Nearly(A, U, t, w), NEW c, c # t, NEW i \in DOMAIN w.obj
  PROVE  UpdatePassable(Put(w, c, i), t) = Put(UpdatePassable(w, t), c, i)
<1>1. PICK v : v = Put(w, c, i)
  OBVIOUS
<1>2. Formed(w) /\ Settled(A, w) /\ DOMAIN w = Members /\ Objects(w) /\ Contents(w)
  BY DEF Nearly, Formed, Counted
<1>3. Only({"obj", "content"}, w, v) /\ v.content[t] = w.content[t] /\ v.obj = OwnerSet(w, i, c)
  <2>1. Only({"obj", "content"}, w, v) /\ (t \in DOMAIN w.content => v.content[t] = w.content[t])
    BY <1>1, <1>2 DEF Put, Only, Members
  <2>2. v.obj = OwnerSet(w, i, c)
    BY <1>1, <1>2 DEF Put, OwnerSet, Members
  <2>3. t \in DOMAIN w.content
    BY <1>2 DEF Contents
  <2> QED BY <2>1, <2>2, <2>3
<1>4. v.turf = w.turf
  BY <1>3, SameFields
<1>5. \A j \in DOMAIN w.obj : v.obj[j].kind = w.obj[j].kind /\ v.obj[j].pass = w.obj[j].pass
  BY <1>2, <1>3, OwnerSetIs
<1>6. Standing(v, t) = Standing(w, t)
  BY <1>3, <1>4 DEF Standing
<1>7. \A j \in Standing(w, t) : v.obj[j].pass = w.obj[j].pass
  BY <1>2, <1>5, StandingLies
<1>8. PICK sum : sum = Summed(w, t)
  OBVIOUS
<1>9. Summed(v, t) = sum
  BY <1>6, <1>7, <1>8, SummedSame
<1>10. w.turf[t] # None => w.turf[t] \in DOMAIN w.obj
  BY <1>2 DEF Settled, OnTiles, Lies
<1>11. AtmosFlags(v, t, sum) = AtmosFlags(w, t, sum)
  BY <1>3, <1>4, <1>5, <1>10 DEF AtmosFlags
<1>12. WithSum(v, t, sum) = Put(WithSum(w, t, sum), c, i)
  BY <1>1, <1>2, <1>11, PutWithSum
<1> QED BY <1>1, <1>8, <1>9, <1>12 DEF UpdatePassable

\* What was taken into a closet is the closet's, and nothing else is different.
TakenInto(w, i, c, y) ==
  Only({"obj", "content", "turf", "sum", "flags"}, w, y) /\ y.obj = OwnerSet(w, i, c)

\* A closet that takes in an object from its tile leaves the world sound.
LEMMA TakeInSound ==
  ASSUME NEW U, NEW w, Sound(Nil, U, w), NEW c \in DOMAIN w.obj, w.obj[c].kind \in Closet,
         NEW i \in DOMAIN w.obj, w.obj[i].owner = w.obj[c].owner, w.obj[i].kind \in Item \cup {"human"},
         NEW y, y = TakeIn(w, c, i)
  PROVE  Sound(Nil, U, y) /\ TakenInto(w, i, c, y)
<1>1. PICK t : t = w.obj[c].owner
  OBVIOUS
<1>2. Sane(Nil, U, w, w)
  BY SaneStart
<1>3. /\ t \in Tile /\ c \notin Tile /\ c # t /\ Is(w, c, Closet) /\ Is(w, i, Item \cup {"human"})
      /\ i # None /\ i \notin Tile /\ t # None /\ DOMAIN w = Members
  <2>1. w.obj[c].owner \in Tile
    BY <1>2, RootedHome DEF Rooted
  <2> QED BY <1>1, <1>2, <2>1, SaneForms, NoneIsNoTile DEF Is
<1>4. Settled(Nil, w) /\ Formed(w) /\ Contents(w)
  BY DEF Sound, Nearly, Formed
<1>5. Has(w, t, i) /\ i # w.turf[t] /\ Contains(w.content[t], i)
  <2>1. Has(w, t, i)
    BY <1>1, <1>2, <1>3, OwnerHas
  <2>2. i # w.turf[t]
    <3>1. (Item \cup {"human"}) \cap Turf = {}
      BY DEF Item, Gun, Cloth, Turf, Wall
    <3> QED BY <1>3, <1>4, <3>1 DEF Settled, OnTiles, Lies
  <2> QED BY <1>3, <2>1, <2>2 DEF Has
<1>6. t \in DOMAIN w.content /\ c \in DOMAIN w.content
  BY <1>3, <1>4 DEF Contents
<1>7. PICK p, a, b : p = Put(w, c, i) /\ a = Taken(w, t, i) /\ b = RemoveObject(w, t, i)
  OBVIOUS
<1>8. b = UpdatePassable(a, t)
  BY <1>3, <1>5, <1>7 DEF RemoveObject
<1>9. Nearly(Nil \cup {i}, U, t, a) /\ Only({"content"}, w, a)
  BY <1>3, <1>5, <1>7, TakenNearly
<1>10. p.turf = w.turf /\ p.content[t] = w.content[t]
  <2> QED BY <1>3, <1>6, <1>7 DEF Put, Members
<1>11. RemoveObject(p, t, i) = UpdatePassable(Taken(p, t, i), t)
  BY <1>3, <1>5, <1>10 DEF RemoveObject, Has
<1>12. Taken(p, t, i) = Put(a, c, i)
  BY <1>3, <1>6, <1>7, PutTaken
<1>13. a.obj = w.obj
  BY <1>9, SameFields
<1>14. UpdatePassable(Put(a, c, i), t) = Put(b, c, i)
  BY <1>3, <1>8, <1>9, <1>13, PutUpdated
<1>15. y = Put(b, c, i)
  <2>1. Takes(w, c, i) /\ Container(w, c) = c
    BY <1>3 DEF Takes, Container
  <2>2. AddObject(w, c, i) = p
    BY <1>3, <1>7, <2>1 DEF AddObject, AddTo
  <2> QED BY <1>1, <1>11, <1>12, <1>14, <2>1, <2>2 DEF TakeIn, Owner
<1>16. w.obj[i].kind \notin Wall
  BY DEF Item, Gun, Cloth, Wall
<1>17. /\ Sound(Nil \cup {i}, U, b) /\ Only({"content", "turf", "sum", "flags", "own"}, w, b)
       /\ OwnKept(w, t, b)
  BY <1>5, <1>7, <1>16, Removed
<1>18. b.obj = w.obj /\ b.own = w.own
  <2>1. ~Is(w, t, {"human"})
    <3>1. t \notin DOMAIN w.obj
      BY <1>2, <1>3, SaneForms
    <3> QED BY <3>1 DEF Is, KindOf, IsValid
  <2> QED BY <1>17, <2>1, SameFields DEF OwnKept
<1>19. Is(b, c, Closet)
  BY <1>3, <1>18 DEF Is, KindOf, IsValid
<1>20. b.obj[i].kind \in Suits(c) /\ i \in DOMAIN b.obj
  BY <1>3, <1>18 DEF Suits
<1>21. y = AddTo(b, c, i)
  BY <1>3, <1>15 DEF AddTo
<1>22. PICK A : A = Nil \cup {i}
  OBVIOUS
<1>23. Sound(A \ {i}, U, y) /\ Stored(b, i, c, y)
  BY <1>17, <1>19, <1>20, <1>21, <1>22, AddToSound
<1>24. A \ {i} = Nil
  BY <1>22 DEF Nil
<1>25. y.obj = OwnerSet(w, i, c)
  BY <1>18, <1>23 DEF Stored, OwnerSet
<1>26. Only({"obj", "content", "turf", "sum", "flags"}, w, y)
  BY <1>17, <1>18, <1>23 DEF Stored, Only, Members
<1> QED BY <1>23, <1>24, <1>25, <1>26 DEF TakenInto

\* How a closet takes in what lies on its tile; c has the closet as i, the world as w, what
\* lies there as s and what needs no shape yet as u.
CollectOp(c, v, j) == IF IsValid(v, j) THEN TakeIn(v, c.i, j) ELSE v
\* An object is where it was or in the closet.
Boxed(w, v, i) ==
  /\ DOMAIN v.obj = DOMAIN w.obj
  /\ \A j \in DOMAIN w.obj : v.obj[j] = w.obj[j] \/ v.obj[j] = [w.obj[j] EXCEPT !.owner = i]
CollectKnows(c, k, v) ==
  /\ Sound(Nil, c.u, v) /\ Only({"obj", "content", "turf", "sum", "flags"}, c.w, v) /\ Boxed(c.w, v, c.i)
  /\ v.obj[c.i] = c.w.obj[c.i]
  /\ \A m \in k + 1 .. Len(c.s) : v.obj[c.s[m]] = c.w.obj[c.s[m]]

CollectFold == INSTANCE FoldInduction WITH Op <- CollectOp, P <- CollectKnows

Shuts(c) ==
  /\ Sound(Nil, c.u, c.w) /\ c.i \in DOMAIN c.w.obj /\ c.w.obj[c.i].kind \in Closet
  /\ c.s = c.w.content[c.w.obj[c.i].owner]

\* What the loop over a closet's tile starts from.
LEMMA ShutsIs ==
  ASSUME NEW c, Shuts(c)
  PROVE  /\ c.w.obj[c.i].owner \in Tile /\ c.s \in Seq(Nat) /\ c.i \notin Tile
         /\ \A m \in 1 .. Len(c.s) :
              /\ c.s[m] \in DOMAIN c.w.obj /\ c.w.obj[c.s[m]].owner = c.w.obj[c.i].owner
              /\ c.s[m] # Hand
         /\ \A m, n \in 1 .. Len(c.s) : c.s[m] = c.s[n] => m = n
<1>1. PICK w, i, U : w = c.w /\ i = c.i /\ U = c.u
  OBVIOUS
<1>2. /\ Formed(w) /\ Settled(Nil, w) /\ i \in DOMAIN w.obj /\ w.obj[i].kind \in Closet
      /\ c.s = w.content[w.obj[i].owner] /\ Sound(Nil, U, w)
  BY <1>1 DEF Shuts, Sound, Nearly
<1>3. Sane(Nil, U, w, w)
  BY <1>2, SaneStart
<1>4. w.obj[i].owner \in Tile
  BY <1>2, <1>3, RootedHome DEF Rooted
<1>5. i \notin Tile /\ w.obj[i].owner \in DOMAIN w.content
  BY <1>2, <1>3, <1>4, SaneForms DEF Formed, Contents
<1>6. c.s \in Seq(Nat)
  BY <1>2, <1>5 DEF Formed, Contents
<1>7. PICK t : t = w.obj[i].owner
  OBVIOUS
<1>8. /\ \A m \in 1 .. Len(w.content[t]) : Lies(Nil, w, w.content[t][m], t, Suits(t))
      /\ \A m, n \in 1 .. Len(w.content[t]) : w.content[t][m] = w.content[t][n] => m = n
  BY <1>2, <1>5, <1>7 DEF Settled, InContents
<1>9. \A m \in 1 .. Len(c.s) : c.s[m] \in DOMAIN w.obj /\ w.obj[c.s[m]].owner = t
  BY <1>2, <1>7, <1>8 DEF Lies
<1>10. \A m \in 1 .. Len(c.s) : c.s[m] # Hand
  BY <1>3, <1>9, SaneForms
<1> QED BY <1>1, <1>2, <1>4, <1>5, <1>6, <1>7, <1>8, <1>9, <1>10

\* The loop's invariant holds for one object more.
LEMMA CollectStep ==
  ASSUME NEW c, Shuts(c), NEW k \in Nat, k < Len(c.s), NEW v, CollectKnows(c, k, v)
  PROVE  CollectKnows(c, k + 1, CollectOp(c, v, c.s[k + 1]))
<1>1. PICK j, i, w, U : j = c.s[k + 1] /\ i = c.i /\ w = c.w /\ U = c.u
  OBVIOUS
<1>2. Len(c.s) \in Nat /\ k + 1 \in 1 .. Len(c.s) /\ k + 1 \in k + 1 .. Len(c.s)
  BY ShutsIs
<1>3. PICK t : t = w.obj[i].owner
  OBVIOUS
<1>4. /\ j \in DOMAIN w.obj /\ w.obj[j].owner = t /\ j # Hand /\ i \in DOMAIN w.obj /\ w.obj[i].kind \in Closet
      /\ t \in Tile /\ i \notin Tile
  BY <1>1, <1>2, <1>3, ShutsIs DEF Shuts
<1>5. /\ Sound(Nil, U, v) /\ Only({"obj", "content", "turf", "sum", "flags"}, w, v) /\ Boxed(w, v, i)
      /\ v.obj[i] = w.obj[i] /\ v.obj[j] = w.obj[j] /\ DOMAIN v.obj = DOMAIN w.obj
  BY <1>1, <1>2 DEF CollectKnows, Boxed
<1>6. \A m \in (k + 1) + 1 .. Len(c.s) : v.obj[c.s[m]] = w.obj[c.s[m]] /\ c.s[m] # j /\ c.s[m] \in DOMAIN w.obj
  <2> SUFFICES ASSUME NEW m \in (k + 1) + 1 .. Len(c.s)
               PROVE  v.obj[c.s[m]] = w.obj[c.s[m]] /\ c.s[m] # j /\ c.s[m] \in DOMAIN w.obj
    OBVIOUS
  <2>1. m \in k + 1 .. Len(c.s) /\ m \in 1 .. Len(c.s) /\ m # k + 1
    BY <1>2
  <2>2. c.s[m] # j /\ c.s[m] \in DOMAIN c.w.obj
    BY <1>1, <1>2, <2>1, ShutsIs
  <2> QED BY <1>1, <2>1, <2>2 DEF CollectKnows
<1>7. PICK y : y = CollectOp(c, v, j)
  OBVIOUS
<1>8. y = TakeIn(v, i, j)
  BY <1>1, <1>4, <1>5, <1>7 DEF CollectOp, IsValid
<1>9. CASE w.obj[j].kind \notin Item \cup {"human"}
  <2>1. ~Takes(v, i, j)
    <3>1. Is(v, i, Closet) /\ i \notin Tile
      BY <1>4, <1>5, SaneStart, SaneForms DEF Is
    <3>2. ~Is(v, j, Item \cup {"human"})
      BY <1>4, <1>5, <1>9 DEF Is, KindOf, IsValid
    <3> QED BY <3>1, <3>2 DEF Takes, Container
  <2>2. y = v
    BY <1>8, <2>1 DEF TakeIn
  <2> QED BY <1>1, <1>5, <1>6, <1>7, <2>2 DEF CollectKnows
<1>10. CASE w.obj[j].kind \in Item \cup {"human"}
  <2>1. i # j
    BY <1>4, <1>10 DEF Item, Closet, Gun, Cloth
  <2>2. Sound(Nil, U, y) /\ TakenInto(v, j, i, y)
    BY <1>3, <1>4, <1>5, <1>8, <1>10, TakeInSound
  <2>3. Only({"obj", "content", "turf", "sum", "flags"}, w, y)
    BY <1>5, <2>2 DEF TakenInto, Only
  <2>4. y.obj = [v.obj EXCEPT ![j] = [v.obj[j] EXCEPT !.owner = i]]
    BY <2>2 DEF TakenInto, OwnerSet
  <2>5. Boxed(w, y, i)
    BY <1>4, <1>5, <2>4 DEF Boxed
  <2>6. y.obj[i] = w.obj[i]
    BY <1>4, <1>5, <2>1, <2>4
  <2>7. \A m \in (k + 1) + 1 .. Len(c.s) : y.obj[c.s[m]] = w.obj[c.s[m]]
    BY <1>5, <1>6, <2>4
  <2> QED BY <1>1, <1>7, <2>2, <2>3, <2>5, <2>6, <2>7 DEF CollectKnows
<1> QED BY <1>9, <1>10

\* Collect as a fold over the content of the tile.
LEMMA CollectIsFold ==
  ASSUME NEW c, NEW w
  PROVE  Collect(w, c.i) = CollectFold!Folded(c, w, w.content[Owner(w, c.i)])
BY DEF CollectFold!Folded, CollectFold!MaxOf, Collect, ForEach, CollectOp, FoldLeft, MapThenFoldSet, Max

\* Collect keeps the invariant: only into that closet do things go.
LEMMA CollectSound ==
  ASSUME NEW U, NEW w, Sound(Nil, U, w), NEW i \in DOMAIN w.obj, w.obj[i].kind \in Closet, NEW v, v = Collect(w, i)
  PROVE  /\ Sound(Nil, U, v) /\ Only({"obj", "content", "turf", "sum", "flags"}, w, v) /\ Boxed(w, v, i)
         /\ v.obj[i] = w.obj[i]
<1>1. PICK s : s = w.content[Owner(w, i)]
  OBVIOUS
<1>2. PICK c : c = [u |-> U, w |-> w, i |-> i, s |-> s]
  OBVIOUS
<1>3. c.u = U /\ c.w = w /\ c.i = i /\ c.s = s
  BY <1>2
<1>4. Shuts(c)
  BY <1>1, <1>3 DEF Shuts, Owner
<1>5. s \in Seq(Nat)
  BY <1>3, <1>4, ShutsIs
<1>6. PICK n \in Nat : n = Len(s)
  BY <1>5
<1>7. DOMAIN s = 1 .. n
  BY <1>5, <1>6
<1>8. CollectKnows(c, 0, w)
  <2>1. DOMAIN w = Members
    BY SaneStart, SaneForms
  <2> QED BY <1>3, <2>1 DEF CollectKnows, Only, Boxed
<1>9. \A k \in 0 .. n - 1 : \A x : CollectKnows(c, k, x) => CollectKnows(c, k + 1, CollectOp(c, x, s[k + 1]))
  <2> SUFFICES ASSUME NEW k \in 0 .. n - 1, NEW x, CollectKnows(c, k, x)
               PROVE  CollectKnows(c, k + 1, CollectOp(c, x, s[k + 1]))
    OBVIOUS
  <2>1. k \in Nat /\ k < Len(c.s)
    BY <1>3, <1>6
  <2> QED BY <1>3, <1>4, <2>1, CollectStep
<1>10. CollectKnows(c, n, CollectFold!Folded(c, w, s))
  BY <1>6, <1>7, <1>8, <1>9, CollectFold!FoldKeeps
<1>11. v = CollectFold!Folded(c, w, s)
  BY <1>1, <1>3, CollectIsFold
<1> QED BY <1>3, <1>10, <1>11 DEF CollectKnows

-----------------------------------------------------------------------------
(* What a step may do that a part of it may not: shut things in.           *)
Fine(r, v) == Sound(Nil, Nil, v) /\ Strides(r, v)

\* What is good is fine: each object was moved by at most one stride.
LEMMA GoodFine ==
  ASSUME NEW r, NEW w, Good(r, w)
  PROVE  Fine(r, w)
BY GoodStrides DEF Fine

\* What is fine with respect to a world is so with respect to one with the same objects.
LEMMA FineFrom ==
  ASSUME NEW r, NEW w, NEW v, Fine(r, w), v.obj = r.obj
  PROVE  Fine(v, w)
BY StridesLater DEF Fine

\* Closing a closet keeps the invariant.
LEMMA CloseClosetFine ==
  ASSUME NEW r, NEW w, Good(r, w), NEW i \in DOMAIN w.obj, w.obj[i].kind \in Closet
  PROVE  Fine(r, CloseCloset(w, i))
<1>1. PICK x, y, p, open, v : /\ x = Collect(w, i) /\ open = FALSE /\ p = AIR
                              /\ y = [x EXCEPT !.own[i].open = open] /\ v = SetPassable(y, i, "all", p)
  OBVIOUS
<1>2. CloseCloset(w, i) = v
  BY <1>1 DEF CloseCloset
<1>3. Sound(Nil, Nil, w)
  BY DEF Good, Sane
<1>4. /\ Sound(Nil, Nil, x) /\ Only({"obj", "content", "turf", "sum", "flags"}, w, x) /\ Boxed(w, x, i)
      /\ x.obj[i] = w.obj[i]
  BY <1>1, <1>3, CollectSound
<1>5. Good(x, x)
  BY <1>4, SaneStart DEF Good
<1>6. i \in DOMAIN x.obj /\ x.obj[i].kind \in Closet
  BY <1>4 DEF Boxed
<1>7. p = IF open THEN FULL ELSE AIR
  BY <1>1
<1>8. open \in BOOLEAN
  BY <1>1
<1>9. Good(x, v) /\ Twins(x, v)
  BY <1>1, <1>5, <1>6, <1>7, <1>8, ClosetStateGood
<1>10. Sound(Nil, Nil, v) /\ v.tick = w.tick
  <2>1. x.tick = w.tick
    BY <1>4, SameFields
  <2>2. v.tick = x.tick
    BY <1>9 DEF Good, Sane, Since, Remains
  <2> QED BY <1>9, <2>1, <2>2 DEF Good, Sane
<1>11. Strides(r, w) /\ i \notin Tile
  BY GoodStrides, GoodForms
<1>12. \A j \in DOMAIN v.obj : j \in DOMAIN w.obj /\ (v.obj[j].owner = w.obj[j].owner \/ v.obj[j].owner \notin Tile)
  <2> SUFFICES ASSUME NEW j \in DOMAIN v.obj
               PROVE  j \in DOMAIN w.obj /\ (v.obj[j].owner = w.obj[j].owner \/ v.obj[j].owner \notin Tile)
    OBVIOUS
  <2>1. j \in DOMAIN x.obj /\ j \in DOMAIN w.obj /\ v.obj[j].owner = x.obj[j].owner
    BY <1>4, <1>9 DEF Boxed, Twins
  <2>2. w.obj[j] \in Object
    BY <2>1, GoodForms
  <2>3. CASE x.obj[j] = w.obj[j]
    BY <2>1, <2>3
  <2>4. CASE x.obj[j] = [w.obj[j] EXCEPT !.owner = i]
    BY <1>11, <2>1, <2>2, <2>4 DEF Object
  <2> QED BY <1>4, <2>1, <2>3, <2>4 DEF Boxed
<1>13. Strides(r, v)
  BY <1>10, <1>11, <1>12 DEF Strides, Strode
<1> QED BY <1>2, <1>10, <1>13 DEF Fine

\* A lock is in no part of the invariant.
LEMMA LockedGood ==
  ASSUME NEW r, NEW w, Good(r, w), NEW i \in DOMAIN w.obj, w.obj[i].kind \in Closet, NEW locked,
         NEW v, v = [w EXCEPT !.own[i].locked = locked]
  PROVE  Good(r, v)
<1>1. PICK e : e = [w.own[i] EXCEPT !.locked = locked]
  OBVIOUS
<1>2. DOMAIN w.own[i] = {"open", "locked"} /\ w.obj[i].kind \notin Wall \cup Projectile \cup {"human", "opener"}
  BY ClosetOwn
<1>3. DOMAIN e = DOMAIN w.own[i] /\ e.open = w.own[i].open
  BY <1>1, <1>2
<1>4. OwnFits(w, w.obj[i].kind, w.own[i]) /\ DOMAIN w = Members
  BY GoodForms
<1>5. OwnFine(w, i, e)
  BY <1>2, <1>3, <1>4, SimpleOwn
<1>6. Only({"own"}, w, v) /\ v.own = OwnsSet(w, i, e)
  BY <1>1, <1>4 DEF Only, OwnsSet, Members
<1>7. ShapeFits(w.obj[i].kind, w.obj[i].pass, w.obj[i].dir, e)
  <2>1. ShapeFits(w.obj[i].kind, w.obj[i].pass, w.obj[i].dir, w.own[i])
    BY GoodShaped DEF Shaped
  <2> QED BY <1>3, <2>1 DEF ShapeFits, Closet
<1> QED BY <1>5, <1>6, <1>7, OwnStep DEF Good

\* An attack on a closet keeps the invariant.
LEMMA ClosetAttackedFine ==
  ASSUME NEW r, NEW w, Good(r, w), NEW i \in DOMAIN w.obj, w.obj[i].kind \in Closet, NEW item
  PROVE  Fine(r, ClosetAttacked(w, i, item))
<1>1. PICK yes, no : yes = TRUE /\ no = FALSE
  OBVIOUS
<1>2. PICK x, y : x = [w EXCEPT !.own[i].locked = no] /\ y = [w EXCEPT !.own[i].locked = yes]
  OBVIOUS
<1>3. Fine(r, w) /\ Fine(r, CloseCloset(w, i)) /\ Fine(r, OpenCloset(w, i))
  BY CloseClosetFine, OpenClosetGood, GoodFine
<1>4. Fine(r, x) /\ Fine(r, y)
  BY <1>2, LockedGood, GoodFine
<1> QED BY <1>1, <1>2, <1>3, <1>4 DEF ClosetAttacked

\* An attack on anything keeps the invariant.
LEMMA AttackByFine ==
  ASSUME NEW r, NEW w, Good(r, w), NEW i \in DOMAIN w.obj, NEW item, IsUsed(w, item)
  PROVE  Fine(r, AttackBy(w, i, item))
<1>1. PICK k : k = KindOf(w, i)
  OBVIOUS
<1>2. k = w.obj[i].kind /\ i # Hand
  BY <1>1, GoodForms
<1>3. CASE k \in {"door", "glassdoor"}
  <2>1. AttackBy(w, i, item) = DoorAttacked(w, i, item)
    BY <1>1, <1>3 DEF AttackBy, Closet, Wall
  <2> QED BY <1>2, <1>3, <2>1, DoorAttackedGood, GoodFine DEF IsDoor
<1>4. CASE k \in Closet
  <2>1. AttackBy(w, i, item) = ClosetAttacked(w, i, item)
    BY <1>1, <1>4 DEF AttackBy, Closet, Wall
  <2> QED BY <1>2, <1>4, <2>1, ClosetAttackedFine
<1>5. CASE k = "human"
  <2>1. AttackBy(w, i, item) = HumanAttacked(w, i, item)
    BY <1>1, <1>5 DEF AttackBy, Closet, Wall
  <2>2. IsHuman(w, i)
    BY <1>2, <1>5 DEF IsHuman
  <2> QED BY <2>1, <2>2, HumanAttackedGood, GoodFine
<1>6. CASE k = "glass"
  <2>1. AttackBy(w, i, item) = BreakableAttacked(w, i, item)
    BY <1>1, <1>6 DEF AttackBy, Closet, Wall
  <2>2. w.obj[i].kind \in Breakable
    BY <1>2, <1>6 DEF Breakable
  <2> QED BY <2>1, <2>2, BreakableAttackedGood, GoodFine
<1>7. CASE k = "grille"
  <2>1. AttackBy(w, i, item) = GrilleAttacked(w, i, item)
    BY <1>1, <1>7 DEF AttackBy, Closet, Wall
  <2>2. w.obj[i].kind \in Breakable
    BY <1>2, <1>7 DEF Breakable
  <2> QED BY <2>1, <2>2, GrilleAttackedGood, GoodFine
<1>8. CASE k = "girder"
  <2>1. AttackBy(w, i, item) = GirderAttacked(w, i, item)
    BY <1>1, <1>8 DEF AttackBy, Closet, Wall
  <2> QED BY <1>2, <1>8, <2>1, GirderAttackedGood, GoodFine
<1>9. CASE k = "lattice"
  <2>1. AttackBy(w, i, item) = LatticeAttacked(w, i, item)
    BY <1>1, <1>9 DEF AttackBy, Closet, Wall
  <2> QED BY <1>2, <1>9, <2>1, LatticeAttackedGood, GoodFine
<1>10. CASE k \in Wall
  <2>1. AttackBy(w, i, item) = WallAttacked(w, i, item)
    BY <1>1, <1>10 DEF AttackBy, Closet, Wall
  <2> QED BY <1>2, <1>10, <2>1, WallAttackedGood, GoodFine
<1>11. CASE k = "floor"
  <2>1. AttackBy(w, i, item) = FloorAttacked(w, i, item)
    BY <1>1, <1>11 DEF AttackBy, Closet, Wall
  <2> QED BY <1>2, <1>11, <2>1, FloorAttackedGood, GoodFine
<1>12. CASE k = "space"
  <2>1. AttackBy(w, i, item) = SpaceAttacked(w, i, item)
    BY <1>1, <1>12 DEF AttackBy, Closet, Wall
  <2> QED BY <1>2, <1>12, <2>1, SpaceAttackedGood, GoodFine
<1>13. CASE k = "fueltank" /\ Is(w, item, {"welder"})
  <2>1. PICK n, v : n = FUEL /\ v = [w EXCEPT !.own[item].fuel = n]
    OBVIOUS
  <2>2. AttackBy(w, i, item) = v
    BY <1>1, <1>13, <2>1 DEF AttackBy, Closet, Wall
  <2>3. item \in DOMAIN w.obj /\ w.obj[item].kind = "welder"
    BY <1>13, IsValidObject
  <2> QED BY <2>1, <2>2, <2>3, FuelGood, GoodFine
<1>14. CASE /\ k \notin Closet \cup Wall \cup {"door", "glassdoor", "human", "glass", "grille", "girder", "lattice", "floor", "space"}
            /\ ~(k = "fueltank" /\ Is(w, item, {"welder"}))
  <2>1. AttackBy(w, i, item) = ItemAttacked(w, i, item)
    BY <1>1, <1>14 DEF AttackBy, Closet, Wall
  <2>2. i = item => w.obj[i].kind \in Item
    BY <1>2 DEF IsUsed
  <2> QED BY <2>1, <2>2, ItemAttackedGood, GoodFine
<1> QED BY <1>3, <1>4, <1>5, <1>6, <1>7, <1>8, <1>9, <1>10, <1>11, <1>12, <1>13, <1>14

-----------------------------------------------------------------------------
(* Hands.                                                                  *)

\* What is in a slot is an item, the human's own.
LEMMA SlotIs ==
  ASSUME NEW r, NEW w, Good(r, w), NEW h, IsHuman(w, h), NEW s \in Slot, NEW i, i = w.own[h].slot[s], i # None
  PROVE  /\ i \in DOMAIN w.obj /\ w.obj[i].kind \in Item /\ w.obj[i].owner = h
         /\ h \notin Tile /\ IsUsed(w, i) /\ i # Hand /\ Has(w, h, i)
<1>1. Settled(Nil, w) /\ h \in DOMAIN w.obj /\ w.obj[h].kind = "human"
  BY DEF Good, Sane, Sound, Nearly, IsHuman
<1>2. i \in DOMAIN w.obj /\ w.obj[i].kind \in Item /\ w.obj[i].owner = h
  BY <1>1 DEF Settled, InSlots, Lies
<1>3. h \notin Tile /\ i # Hand /\ KindOf(w, h) = "human"
  BY <1>1, <1>2, GoodForms
<1>4. Has(w, h, i)
  BY <1>1, <1>3 DEF Has, Is, Closet, SlotsOf
<1> QED BY <1>2, <1>3, <1>4 DEF IsUsed

\* What is in the hand is an item the human has.
LEMMA InHandIs ==
  ASSUME NEW r, NEW w, Good(r, w), NEW h, IsHuman(w, h), NEW i, i = InHand(w, h), i # None
  PROVE  /\ i \in DOMAIN w.obj /\ w.obj[i].kind \in Item /\ w.obj[i].owner = h
         /\ h \notin Tile /\ IsUsed(w, i) /\ i # Hand /\ Has(w, h, i)
BY SlotIs, HumanIs DEF InHand

\* Dropping from the hand and putting in a container commute.
LEMMA DropPut ==
  ASSUME NEW w, DOMAIN w = Members, NEW h, NEW c, NEW i
  PROVE  DropItem(Put(w, c, i), h) = Put(DropItem(w, h), c, i)
BY DEF DropItem, Put, Members

\* So do dropping and writing a tile's sum.
LEMMA DropFlags ==
  ASSUME NEW w, DOMAIN w = Members, NEW h, NEW t, NEW sum
  PROVE  DropItem(WithSum(w, t, sum), h) = WithSum(DropItem(w, h), t, sum)
<1>1. AtmosFlags(DropItem(w, h), t, sum) = AtmosFlags(w, t, sum)
  BY DEF AtmosFlags, DropItem, Members
<1> QED BY <1>1 DEF DropItem, WithSum, Members

\* And so dropping and adding to a container.
LEMMA DropAdd ==
  ASSUME NEW w, DOMAIN w = Members, NEW h, NEW c, NEW i, NEW x, x = DropItem(w, h)
  PROVE  DropItem(AddTo(w, c, i), h) = AddTo(x, c, i)
<1>1. PICK p, q : p = Put(w, c, i) /\ q = Put(x, c, i)
  OBVIOUS
<1>2. DropItem(p, h) = q /\ DOMAIN p = Members
  <2>1. DOMAIN p = Members
    BY <1>1 DEF Put, Members
  <2> QED BY <1>1, <2>1, DropPut
<1>3. x.sum = w.sum /\ x.obj = w.obj
  BY DEF DropItem, Members
<1>4. CASE c \in Tile
  <2>1. PICK sum : sum = Kept([v \in Way |-> AtMost(w.sum[c][v], w.obj[i].pass[v])])
    OBVIOUS
  <2>2. AddTo(w, c, i) = WithSum(p, c, sum)
    BY <1>1, <1>4, <2>1 DEF AddTo, TileAdd
  <2>3. AddTo(x, c, i) = WithSum(q, c, sum)
    BY <1>1, <1>3, <1>4, <2>1 DEF AddTo, TileAdd
  <2>4. DropItem(WithSum(p, c, sum), h) = WithSum(DropItem(p, h), c, sum)
    BY <1>2, DropFlags
  <2> QED BY <1>2, <2>2, <2>3, <2>4
<1>5. CASE c \notin Tile
  BY <1>1, <1>2, <1>5 DEF AddTo
<1> QED BY <1>4, <1>5

\* The hand is empty.
LEMMA DropItemIs ==
  ASSUME NEW r, NEW w, Good(r, w), NEW h, IsHuman(w, h), NEW i, i = InHand(w, h), i # None, NEW v, v = DropItem(w, h)
  PROVE  SlotsSet(w, h, v, Cleared(w.own[h].slot, i))
<1>1. /\ h \in DOMAIN w.own /\ DOMAIN w = Members /\ DOMAIN w.own[h] = DOMAIN NewHuman
      /\ w.own[h].slot \in [Slot -> Nat] /\ w.own[h].active_hand \in Slot
  BY HumanIs
<1>2. PICK slot, hand : slot = w.own[h].slot /\ hand = w.own[h].active_hand
  OBVIOUS
<1>3. \A s \in Slot : slot[s] = i <=> s = hand
  <2>1. Settled(Nil, w)
    BY DEF Good, Sane, Sound, Nearly
  <2> QED BY <1>1, <1>2, <2>1 DEF Settled, InSlots, IsHuman, InHand
<1>4. [slot EXCEPT ![hand] = None] = Cleared(slot, i)
  BY <1>1, <1>2, <1>3 DEF Cleared
<1>5. Only({"own"}, w, v)
  BY <1>1 DEF Only, DropItem, Members
<1>6. v.own = [w.own EXCEPT ![h] = [w.own[h] EXCEPT !.slot = [slot EXCEPT ![hand] = None]]]
  BY <1>1, <1>2 DEF DropItem, Members
<1> QED BY <1>2, <1>4, <1>5, <1>6 DEF SlotsSet

\* What is put down goes from hand to container: it is nowhere twice in the end.
LEMMA PutDownGood ==
  ASSUME NEW r, NEW w, Good(r, w), NEW h, IsHuman(w, h), NEW i, i = InHand(w, h), i # None,
         NEW c, c \in Tile \/ Is(w, c, Closet), NEW v, v = DropItem(AddObject(w, c, i), h)
  PROVE  Good(r, v)
<1>1. /\ i \in DOMAIN w.obj /\ w.obj[i].kind \in Item /\ w.obj[i].owner = h
      /\ h \notin Tile /\ i # Hand /\ Has(w, h, i)
  BY InHandIs
<1>2. DOMAIN w = Members /\ KindOf(w, i) = w.obj[i].kind /\ Sound(Nil, Nil, w)
  BY <1>1, GoodForms DEF Good, Sane
<1>3. PICK x : x = DropItem(w, h)
  OBVIOUS
<1>4. SlotsSet(w, h, x, Cleared(w.own[h].slot, i))
  BY <1>3, DropItemIs
<1>5. PICK A : A = Nil \cup {i}
  OBVIOUS
<1>6. Sound(A, Nil, x) /\ Since(w, x)
  BY <1>1, <1>2, <1>4, <1>5, ClearedSound
<1>7. Only({"own"}, w, x) /\ x.obj = w.obj
  BY <1>4, SameFields DEF SlotsSet
<1>8. Takes(w, c, i) /\ Container(w, c) = c
  BY <1>1, <1>2 DEF Takes, Container, Is
<1>9. v = AddTo(x, c, i)
  <2>1. AddObject(w, c, i) = AddTo(w, c, i)
    BY <1>8 DEF AddObject
  <2> QED BY <1>2, <1>3, <2>1, DropAdd
<1>10. c \in Tile \/ Is(x, c, Closet)
  BY <1>7 DEF Is, KindOf, IsValid
<1>11. x.obj[i].kind \in Suits(c)
  <2>1. Item \cap Turf = {} /\ Item \subseteq Kind
    BY DEF Item, Gun, Cloth, Turf, Wall, Kind, Movable
  <2> QED BY <1>1, <1>7, <2>1 DEF Suits
<1>12. i \in A /\ i \in DOMAIN x.obj /\ A \ {i} = Nil
  BY <1>1, <1>5, <1>7 DEF Nil
<1>13. Sound(A \ {i}, Nil, v) /\ Stored(x, i, c, v)
  BY <1>6, <1>9, <1>10, <1>11, <1>12, AddToSound
<1>14. Since(x, v)
  <2>1. Formed(x)
    BY <1>6 DEF Sound, Nearly
  <2>2. Only({"obj", "content", "turf", "sum", "flags"}, x, v) /\ v.obj = OwnerSet(x, i, c)
    BY <1>13 DEF Stored, Only
  <2>3. x.obj[i].owner \notin Tile
    BY <1>1, <1>7
  <2> QED BY <1>12, <2>1, <2>2, <2>3, OwnerSince
<1>15. Sane(A, Nil, r, x)
  BY <1>6, SaneStep DEF Good
<1>16. Sound(Nil, Nil, v)
  BY <1>12, <1>13
<1> QED BY <1>14, <1>15, <1>16, SaneStep DEF Good

\* A human is on a tile, in a closet or nowhere.
LEMMA HumanHome ==
  ASSUME NEW r, NEW w, Good(r, w), NEW h, IsHuman(w, h), NEW c, c = w.obj[h].owner
  PROVE  c \in Tile \/ Is(w, c, Closet) \/ c = None
<1>1. Formed(w) /\ Settled(Nil, w) /\ h \in DOMAIN w.obj /\ w.obj[h].kind = "human"
  BY DEF Good, Sane, Sound, Nearly, IsHuman
<1>2. h # None
  BY <1>1, GoodForms
<1>3. c # None => Has(w, c, h)
  BY <1>1, OwnerHas DEF Good
<1>4. CASE c # None /\ c \notin Tile /\ ~Is(w, c, Closet)
  <2>1. Is(w, c, {"human"})
    BY <1>3, <1>4 DEF Has
  <2>2. w.obj[h].kind \in Item
    BY <1>1, <1>2, <1>3, <1>4, <2>1, HasLies
  <2> QED BY <1>1, <2>2 DEF Item, Gun, Cloth
<1> QED BY <1>4

\* Drop keeps the invariant.
LEMMA DropGood ==
  ASSUME NEW r, NEW w, Good(r, w), NEW h, IsHuman(w, h)
  PROVE  Good(r, Drop(w, h))
<1>1. PICK i, c : i = InHand(w, h) /\ c = w.obj[h].owner
  OBVIOUS
<1>2. CASE i # None /\ Takes(w, c, i)
  <2>1. c # None
    <3>1. None \notin DOMAIN w.obj
      BY GoodForms
    <3>2. c = None => Container(w, c) = None
      BY <3>1, NoneIsNoTile DEF Container, Above, Is, KindOf, IsValid, Closet, None, Hand
    <3>3. ~Is(w, None, Closet)
      BY <3>1 DEF Is, KindOf, IsValid, Closet, None, Hand
    <3> QED BY <1>2, <3>2, <3>3, NoneIsNoTile DEF Takes
  <2>2. c \in Tile \/ Is(w, c, Closet)
    BY <1>1, <2>1, HumanHome
  <2>3. Drop(w, h) = DropItem(AddObject(w, c, i), h)
    BY <1>1, <1>2 DEF Drop, Owner
  <2> QED BY <1>1, <1>2, <2>2, <2>3, PutDownGood
<1>3. CASE ~(i # None /\ Takes(w, c, i))
  BY <1>1, <1>3 DEF Drop, Owner
<1> QED BY <1>2, <1>3

\* What is used on something: it is in the active hand.
LEMMA PerformAttackFine ==
  ASSUME NEW r, NEW w, Good(r, w), NEW h, IsHuman(w, h), NEW i \in DOMAIN w.obj, w.obj[i].owner # None,
         NEW item, item = Hand \/ (item = InHand(w, h) /\ item # None)
  PROVE  Fine(r, PerformAttack(w, h, i, item))
<1>1. CASE Is(w, i, {"table"}) /\ item # Hand
  <2>1. PICK c : c = w.obj[i].owner
    OBVIOUS
  <2>2. w.obj[i].kind = "table"
    BY <1>1, IsValidObject
  <2>3. c \in Tile
    <3>1. w.obj[i].kind \notin Item \cup {"human"}
      BY <2>2 DEF Item, Gun, Cloth
    <3> QED BY <2>1, <3>1, StructureHome
  <2>4. PerformAttack(w, h, i, item) = DropItem(AddObject(w, c, item), h)
    BY <1>1, <2>1 DEF PerformAttack, Owner
  <2> QED BY <1>1, <2>3, <2>4, PutDownGood, GoodFine
<1>2. CASE ~(Is(w, i, {"table"}) /\ item # Hand)
  <2>1. IsUsed(w, item)
    BY InHandIs DEF IsUsed
  <2> QED BY <1>2, <2>1, AttackByFine DEF PerformAttack
<1> QED BY <1>1, <1>2
=============================================================================
