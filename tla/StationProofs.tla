--------------------------- MODULE StationProofs ----------------------------
(***************************************************************************)
(* A station stays sound through every tick, message and login, from every *)
(* map and after every game that was played on it (StationIsSafe), and     *)
(* what the runs check of it follows, for every value of the constants.    *)
(*                                                                         *)
(* What is left to show of the actions comes first: shots, hands, clothes  *)
(* and the messages of a player.  Then the start, from the empty map       *)
(* through everything that is read to the first tick, and the theorems.    *)
(***************************************************************************)
EXTENDS StationSteps

-----------------------------------------------------------------------------
(* Shots.                                                                  *)
LEMMA PatternIs ==
  ASSUME NEW target \in Vector, NEW facing
  PROVE  MakeMovementPattern(target, facing) \in Seq(Dir) /\ ShootingDir(target, facing) \in Dir
<1>1. Abs(target.x) \in Nat /\ Abs(target.y) \in Nat
  BY DEF Abs, Vector
<1>2. Sideways(target) \in Dir /\ Lengthways(target) \in Dir
  BY DEF Sideways, Lengthways, Dir
<1>3. ASSUME NEW m \in Nat, NEW n \in Nat, NEW d \in Dir, NEW e \in Dir
      PROVE  MakeMovementLoops(m, n, d, e) \in Seq(Dir)
  BY DEF MakeMovementLoops
<1>4. /\ MakeMovementLoops(Abs(target.x), Abs(target.y), Sideways(target), Lengthways(target)) \in Seq(Dir)
      /\ MakeMovementLoops(Abs(target.y), Abs(target.x), Lengthways(target), Sideways(target)) \in Seq(Dir)
  BY <1>1, <1>2, <1>3
<1> QED BY <1>2, <1>4 DEF MakeMovementPattern, ShootingDir

\* A casing that drops keeps the invariant.
LEMMA DropCasingGood ==
  ASSUME NEW r, NEW w, Good(r, w), NEW t \in Tile
  PROVE  Good(r, DropCasing(w, t))
<1>1. PICK kind, i, v, d : kind = "casing" /\ i = NewId(w) /\ v = Create(w, kind, t) /\ d = w.chance.dir
  OBVIOUS
<1>2. PlainAt(kind, t) /\ kind # "glassdoor"
  BY <1>1, PlainKinds DEF PlainAt
<1>3. Good(r, v) /\ Gained(w, v, i, kind)
  BY <1>1, <1>2, CreateGood
<1>4. i \in DOMAIN v.obj /\ v.obj[i].kind # "glassdoor"
  BY <1>2, <1>3 DEF Gained
<1>5. d \in Dir
  BY <1>1, GoodForms DEF Formed, Queues, Chance
<1> QED BY <1>1, <1>3, <1>4, <1>5, RotateGood DEF DropCasing

\* The shot that is in the air.
Fired(w, kind, t, movement) == [Create(w, kind, t) EXCEPT !.own[NewId(w)].movement = movement]
\* A projectile that is fired keeps the invariant, and flies.
LEMMA FiredGood ==
  ASSUME NEW r, NEW w, Good(r, w), NEW kind \in Projectile, NEW t \in Tile, NEW movement \in Seq(Dir), NEW i, i = NewId(w),
         NEW v, v = Fired(w, kind, t, movement)
  PROVE  Good(r, v) /\ Flies(v, i)
<1>1. PICK x, e : x = Create(w, kind, t) /\ e = [x.own[i] EXCEPT !.movement = movement]
  OBVIOUS
<1>2. Good(r, x) /\ Gained(w, x, i, kind)
  BY <1>1, CreateGood DEF PlainAt
<1>3. i \in DOMAIN x.obj /\ x.obj[i].kind \in Projectile /\ x.own[i] = NewOwn(kind)
  BY <1>2 DEF Gained
<1>4. DOMAIN x.own[i] = {"movement", "step", "harmless"} /\ DOMAIN x = Members
  BY <1>2, <1>3, FlierIs
<1>5. x.own[i].step = 1
  BY <1>3 DEF NewOwn, Projectile, Closet, Breakable, Gun, Wall
<1>6. DOMAIN e = DOMAIN x.own[i] /\ e.movement = movement /\ e.step = 1
  BY <1>1, <1>4, <1>5
<1>7. movement # <<>> => 1 \in 1 .. Len(movement)
  BY EmptySeq
<1>8. OwnChanged(x, i, e, v)
  BY <1>1, <1>4 DEF OwnChanged, OwnsSet, Fired, Only, Members
<1>9. Good(r, v) /\ v.obj = x.obj
  BY <1>2, <1>3, <1>6, <1>7, <1>8, FlightGood
<1> QED BY <1>3, <1>9 DEF Flies

\* The aim, the turn of the shooter, and the first flight.
Aimed(w, gun, o) ==
  Minus([x |-> X(Owner(w, o)), y |-> Y(Owner(w, o))],
        [x |-> X(Owner(w, Owner(w, gun))), y |-> Y(Owner(w, Owner(w, gun)))])
Turning(w, gun, o) ==
  Rotate([w EXCEPT !.own[gun].ammunition = @ - 1], Owner(w, gun),
         ShootingDir(Aimed(w, gun, o), DirOf(w, Owner(w, gun))))
Flown(w, gun, o) ==
  ProcessProjectile(Fired(Turning(w, gun, o), Fires(KindOf(w, gun)), Owner(w, Owner(w, gun)),
                          MakeMovementPattern(Aimed(w, gun, o), DirOf(w, Owner(w, gun)))),
                    NewId(Turning(w, gun, o)))
\* Shoot as a flight and, for a revolver, a casing.
LEMMA ShootIs ==
  ASSUME NEW w, NEW gun, NEW o
  PROVE  Shoot(w, gun, o) =
           IF Owner(w, Owner(w, gun)) \notin Tile \/ w.own[gun].ammunition <= 0 THEN w
           ELSE IF Is(w, gun, {"revolver"}) THEN DropCasing(Flown(w, gun, o), Owner(w, Owner(w, gun)))
           ELSE Flown(w, gun, o)
BY DEF Shoot, Flown, Turning, Aimed, Fired

\* Shoot keeps the invariant.
LEMMA ShootGood ==
  ASSUME NEW r, NEW w, Good(r, w), NEW gun \in DOMAIN w.obj, w.obj[gun].kind \in Gun, NEW h, h = w.obj[gun].owner,
         IsHuman(w, h), NEW o, Targetable(w, o)
  PROVE  Good(r, Shoot(w, gun, o))
<1>1. PICK t, kind : t = w.obj[h].owner /\ kind = Fires(KindOf(w, gun))
  OBVIOUS
<1>2. CASE t \notin Tile \/ w.own[gun].ammunition <= 0
  BY <1>1, <1>2 DEF Shoot, Owner
<1>3. CASE ~(t \notin Tile \/ w.own[gun].ammunition <= 0)
  <2>1. PICK target, facing : /\ target = Minus([x |-> X(w.obj[o].owner), y |-> Y(w.obj[o].owner)], [x |-> X(t), y |-> Y(t)])
                              /\ facing = w.obj[h].dir
    OBVIOUS
  <2>2. target \in Vector
    <3>1. w.obj[o].owner \in Tile
      BY DEF Targetable, Owner
    <3>2. X(w.obj[o].owner) \in Int /\ Y(w.obj[o].owner) \in Int /\ X(t) \in Int /\ Y(t) \in Int
      BY <1>3, <3>1, TileAt, MapAssumption
    <3>3. [x |-> X(w.obj[o].owner), y |-> Y(w.obj[o].owner)] \in Vector /\ [x |-> X(t), y |-> Y(t)] \in Vector
      BY <3>2 DEF Vector
    <3> QED BY <2>1, <3>3, VectorTypes
  <2>3. PICK movement, d : movement = MakeMovementPattern(target, facing) /\ d = ShootingDir(target, facing)
    OBVIOUS
  <2>4. movement \in Seq(Dir) /\ d \in Dir
    BY <2>2, <2>3, PatternIs
  <2>5. PICK e, x : /\ e = [w.own[gun] EXCEPT !.ammunition = w.own[gun].ammunition - 1]
                    /\ x = [w EXCEPT !.own[gun].ammunition = w.own[gun].ammunition - 1]
    OBVIOUS
  <2>6. DOMAIN w = Members /\ DOMAIN w.own = DOMAIN w.obj
    BY GoodForms
  <2>7. OwnChanged(w, gun, e, x)
    BY <2>5, <2>6 DEF OwnChanged, OwnsSet, Only, Members
  <2>8. Good(r, x) /\ x.obj = w.obj
    <3>1. DOMAIN e = DOMAIN w.own[gun]
      BY <2>5
    <3>2. w.obj[gun].kind \notin Wall \cup Projectile \cup Closet \cup {"human", "opener", "door", "glassdoor", "grille"}
      BY DEF Gun, Wall, Projectile, Closet
    <3> QED BY <2>7, <3>1, <3>2, SimpleGood
  <2>9. h \in DOMAIN x.obj /\ x.obj[h].kind # "glassdoor"
    BY <2>8 DEF IsHuman
  <2>10. PICK turned : turned = Rotate(x, h, d)
    OBVIOUS
  <2>11. Good(r, turned)
    BY <2>4, <2>8, <2>9, <2>10, RotateGood
  <2>12. PICK y, i, z : y = Fired(turned, kind, t, movement) /\ i = NewId(turned) /\ z = ProcessProjectile(y, i)
    OBVIOUS
  <2>13. kind \in Projectile
    BY <1>1 DEF Fires, Projectile
  <2>14. Good(r, y) /\ Flies(y, i)
    BY <1>3, <2>4, <2>11, <2>12, <2>13, FiredGood
  <2>15. Good(r, z)
    BY <2>12, <2>14, ProcessProjectileGood
  <2>16. Good(r, DropCasing(z, t))
    BY <1>3, <2>15, DropCasingGood
  <2>17. Flown(w, gun, o) = z
    BY <1>1, <2>1, <2>3, <2>5, <2>10, <2>12 DEF Flown, Turning, Aimed, Owner, DirOf
  <2>18. Shoot(w, gun, o) = IF Is(w, gun, {"revolver"}) THEN DropCasing(z, t) ELSE z
    BY <1>1, <1>3, <2>17, ShootIs DEF Owner
  <2> QED BY <2>15, <2>16, <2>18
<1> QED BY <1>2, <1>3

\* What is in one slot is put into another one, which is empty.
LEMMA SlotMoved ==
  ASSUME NEW r, NEW w, Good(r, w), NEW h, IsHuman(w, h), NEW a \in Slot, NEW b \in Slot,
         NEW old, old = w.own[h].slot, old[a] = None, old[b] # None,
         NEW v, SlotsSet(w, h, v, [old EXCEPT ![a] = old[b], ![b] = None])
  PROVE  Good(r, v)
<1>1. Formed(w) /\ Settled(Nil, w) /\ Sound(Nil, Nil, w)
  BY DEF Good, Sane, Sound, Nearly
<1>2. PICK slot : slot = [old EXCEPT ![a] = old[b], ![b] = None]
  OBVIOUS
<1>3. old \in [Slot -> Nat] /\ DOMAIN w.own = DOMAIN w.obj
  BY <1>1, HumanOwn
<1>4. slot \in [Slot -> Nat] /\ slot[a] = old[b] /\ slot[b] = None /\ \A s \in Slot : s # a /\ s # b => slot[s] = old[s]
  BY <1>2, <1>3 DEF None
<1>5. SlotsSet(w, h, v, slot)
  BY <1>2
<1>6. /\ v.obj = w.obj /\ v.turf = w.turf /\ v.content = w.content
      /\ DOMAIN v.own = DOMAIN w.own /\ \A j \in DOMAIN w.own : j # h => v.own[j] = w.own[j]
      /\ v.own[h].slot = slot
  BY <1>1, <1>5, SlotsSetIs
<1>7. OnTiles(Nil, v) /\ InContents(Nil, v)
  BY <1>1, <1>6 DEF Settled, OnTiles, InContents, Lies
<1>8. InSlots(Nil, v)
  <2>1. ASSUME NEW g \in DOMAIN w.obj, w.obj[g].kind = "human", g # h
        PROVE  v.own[g].slot = w.own[g].slot
    BY <1>3, <1>6, <2>1
  <2>2. \A s \in Slot : slot[s] # None => Lies(Nil, w, slot[s], h, Item)
    BY <1>1, <1>4 DEF Settled, InSlots, IsHuman
  <2>3. \A s, u \in Slot : old[s] = old[u] /\ old[s] # None => s = u
    BY <1>1 DEF Settled, InSlots, IsHuman
  <2>4. \A s, u \in Slot : slot[s] = slot[u] /\ slot[s] # None => s = u
    BY <1>4, <2>3
  <2>5. \A j, c : Lies(Nil, v, j, c, Item) <=> Lies(Nil, w, j, c, Item)
    BY <1>6 DEF Lies
  <2>6. ASSUME NEW g \in DOMAIN v.obj, v.obj[g].kind = "human"
        PROVE  /\ \A s \in Slot : v.own[g].slot[s] # None => Lies(Nil, v, v.own[g].slot[s], g, Item)
               /\ \A s, u \in Slot : v.own[g].slot[s] = v.own[g].slot[u] /\ v.own[g].slot[s] # None => s = u
    <3>1. CASE g = h
      BY <1>6, <2>2, <2>4, <2>5, <3>1
    <3>2. CASE g # h
      BY <1>1, <1>6, <2>1, <2>5, <2>6, <3>2 DEF Settled, InSlots
    <3> QED BY <3>1, <3>2
  <2> QED BY <2>6 DEF InSlots
<1>9. ASSUME NEW j \in DOMAIN w.obj, NEW c, Has(w, c, j) PROVE Has(v, c, j)
  <2>1. \A class : Is(v, c, class) <=> Is(w, c, class)
    BY <1>6 DEF Is, KindOf, IsValid
  <2>2. CASE Is(w, c, {"human"}) /\ c \notin Tile /\ SlotsOf(w, c, j) # {}
    <3>1. SlotsOf(v, c, j) # {}
      <4>1. CASE c = h
        <5>1. j # None
          BY <1>1, ValidIsNat DEF Formed
        <5>2. PICK s \in Slot : old[s] = j
          BY <2>2, <4>1 DEF SlotsOf
        <5>3. s # a
          BY <5>1, <5>2
        <5>4. slot[IF s = b THEN a ELSE s] = j
          BY <1>4, <5>2, <5>3
        <5> QED BY <1>6, <4>1, <5>4 DEF SlotsOf
      <4>2. CASE c # h
        <5>1. c \in DOMAIN w.own
          BY <1>3, <2>2 DEF Is, KindOf, IsValid
        <5> QED BY <1>6, <2>2, <4>2, <5>1 DEF SlotsOf
      <4> QED BY <4>1, <4>2
    <3>2. ~Is(w, c, Closet)
      BY <2>2 DEF Is, Closet
    <3> QED BY <2>1, <2>2, <3>1, <3>2 DEF Has
  <2>3. CASE ~(Is(w, c, {"human"}) /\ c \notin Tile /\ SlotsOf(w, c, j) # {})
    BY <1>6, <1>9, <2>1, <2>3 DEF Has
  <2> QED BY <2>2, <2>3
<1>10. Homed(Nil, v)
  BY <1>1, <1>6, <1>9 DEF Settled, Homed
<1>11. Sound(Nil, Nil, v) /\ Since(w, v)
  <2>1. Settled(Nil, v)
    BY <1>7, <1>8, <1>10 DEF Settled
  <2> QED BY <1>1, <1>4, <1>5, <2>1, SlotsChanged
<1> QED BY <1>11, SaneStep DEF Good

\* What writing a human's slots changes.
LEMMA MovedIs ==
  ASSUME NEW w, DOMAIN w = Members, NEW h, NEW new, NEW v, v = [w EXCEPT !.own[h].slot = new]
  PROVE  SlotsSet(w, h, v, new)
BY DEF SlotsSet, Only, Members

\* Moving an item between hand and slot keeps the invariant.
LEMMA ApplyActiveHandOnSlotGood ==
  ASSUME NEW r, NEW w, Good(r, w), NEW h, IsHuman(w, h), NEW slot \in Slot
  PROVE  Good(r, ApplyActiveHandOnSlot(w, h, slot))
<1>1. DOMAIN w = Members /\ w.own[h].active_hand \in Slot
  BY HumanIs
<1>2. PICK old, hand, i, j : old = w.own[h].slot /\ hand = w.own[h].active_hand /\ i = InHand(w, h) /\ j = old[slot]
  OBVIOUS
<1>3. i = old[hand]
  BY <1>2 DEF InHand
<1>4. CASE i # None /\ j = None /\ IsTypeMatch(slot, KindOf(w, i))
  <2>1. PICK v : v = [w EXCEPT !.own[h].slot = [old EXCEPT ![slot] = old[hand], ![hand] = None]]
    OBVIOUS
  <2>2. ApplyActiveHandOnSlot(w, h, slot) = v
    BY <1>1, <1>2, <1>3, <1>4, <2>1 DEF ApplyActiveHandOnSlot, Members
  <2>3. SlotsSet(w, h, v, [old EXCEPT ![slot] = old[hand], ![hand] = None])
    BY <1>1, <2>1, MovedIs
  <2>4. Good(r, v)
    BY <1>1, <1>2, <1>3, <1>4, <2>3, SlotMoved
  <2> QED BY <2>2, <2>4
<1>5. CASE i = None /\ j # None
  <2>1. PICK v : v = [w EXCEPT !.own[h].slot = [old EXCEPT ![hand] = old[slot], ![slot] = None]]
    OBVIOUS
  <2>2. ApplyActiveHandOnSlot(w, h, slot) = v
    BY <1>1, <1>2, <1>3, <1>5, <2>1 DEF ApplyActiveHandOnSlot, Members
  <2>3. SlotsSet(w, h, v, [old EXCEPT ![hand] = old[slot], ![slot] = None])
    BY <1>1, <2>1, MovedIs
  <2>4. Good(r, v)
    BY <1>1, <1>2, <1>3, <1>5, <2>3, SlotMoved
  <2> QED BY <2>2, <2>4
<1>6. CASE i # None /\ j # None
  <2>1. ApplyActiveHandOnSlot(w, h, slot) = ItemAttacked(w, j, i)
    BY <1>2, <1>6 DEF ApplyActiveHandOnSlot
  <2>2. j \in DOMAIN w.obj /\ w.obj[j].kind \in Item
    BY <1>2, <1>6, SlotIs
  <2> QED BY <2>1, <2>2, ItemAttackedGood
<1>7. CASE (i = None /\ j = None) \/ (i # None /\ j = None /\ ~IsTypeMatch(slot, KindOf(w, i)))
  BY <1>2, <1>7 DEF ApplyActiveHandOnSlot
<1> QED BY <1>4, <1>5, <1>6, <1>7

\* Swapping hands keeps the invariant.
LEMMA SwapHandsGood ==
  ASSUME NEW r, NEW w, Good(r, w), NEW h, IsHuman(w, h)
  PROVE  Good(r, SwapHands(w, h))
<1>1. /\ h \in DOMAIN w.own /\ DOMAIN w = Members /\ DOMAIN w.own[h] = DOMAIN NewHuman
  BY HumanIs
<1>2. PICK o, hand, v : o = w.own[h] /\ v = SwapHands(w, h)
                     /\ hand = IF o.active_hand = "right_hand" THEN "left_hand" ELSE "right_hand"
  OBVIOUS
<1>3. PICK e : e = [o EXCEPT !.active_hand = hand]
  OBVIOUS
<1>4. DOMAIN e = DOMAIN o
  BY <1>3
<1>5. "active_hand" \in DOMAIN o
  BY <1>1, <1>2 DEF NewHuman
<1>6. e.slot = o.slot /\ e.active_hand = hand /\ e.pulled = o.pulled /\ e.dead = o.dead /\ e.lying = o.lying
  BY <1>3, <1>5
<1>7. Only({"own"}, w, v) /\ v.own = OwnsSet(w, h, e)
  BY <1>1, <1>2, <1>3 DEF SwapHands, Only, OwnsSet, Members
<1>8. hand \in {"right_hand", "left_hand"}
  BY <1>2
<1>9. Sane(Nil, Nil, r, w)
  BY DEF Good
<1>10. Sane(Nil, Nil, r, v)
  BY <1>2, <1>4, <1>6, <1>7, <1>8, <1>9, HumanStep
<1> QED BY <1>2, <1>10 DEF Good

\* Lying down and standing up change the shape with the state.
LEMMA LayGood ==
  ASSUME NEW r, NEW w, Good(r, w), NEW h, IsHuman(w, h)
  PROVE  Good(r, Lay(w, h))
<1>1. PICK yes, no : yes = TRUE /\ no = FALSE
  OBVIOUS
<1>2. CASE w.own[h].lying
  <2>1. Lay(w, h) = SetLaying(w, h, no)
    BY <1>1, <1>2 DEF Lay
  <2> QED BY <1>1, <2>1, SetLayingGood
<1>3. CASE ~w.own[h].lying
  <2>1. PICK n : n = w.own[h].lay_timer + LAY_TIME
    OBVIOUS
  <2>2. PICK x : x = [w EXCEPT !.own[h].lay_timer = n]
    OBVIOUS
  <2>3. Good(r, x) /\ IsHuman(x, h)
    BY <2>2, LayTimerGood
  <2>4. DOMAIN w = Members /\ h \in DOMAIN w.own /\ DOMAIN w.own[h] = DOMAIN NewHuman
    BY HumanIs
  <2>5. Lay(w, h) = SetLaying(x, h, yes)
    BY <1>1, <1>3, <2>1, <2>2, <2>4 DEF Lay, Members, NewHuman
  <2> QED BY <1>1, <2>3, <2>5, SetLayingGood
<1> QED BY <1>2, <1>3

\* A click on the interface keeps the invariant.
LEMMA HandleClickGood ==
  ASSUME NEW r, NEW w, Good(r, w), NEW h, IsHuman(w, h), NEW name
  PROVE  Good(r, HandleClick(w, h, name))
<1>1. Good(r, StopPull(w, h))
  BY StopPullSane DEF Good, IsHuman
<1> QED BY <1>1, ApplyActiveHandOnSlotGood, DropGood, SwapHandsGood, LayGood DEF HandleClick

-----------------------------------------------------------------------------
(* Something is picked up.                                                 *)

\* The owner of what is on its way does not matter.
LEMMA OwnerSound ==
  ASSUME NEW A, NEW U, NEW w, Sound(A, U, w), NEW i \in DOMAIN w.obj, i \in A, w.obj[i].kind \in Item, NEW c \in Nat,
         NEW v, Only({"obj"}, w, v), v.obj = OwnerSet(w, i, c)
  PROVE  Sound(A, U, v)
<1>1. Formed(w) /\ Settled(A, w) /\ DOMAIN w = Members /\ Objects(w)
  BY DEF Sound, Nearly, Formed, Counted
<1>2. /\ v.own = w.own /\ v.turf = w.turf /\ v.sum = w.sum /\ v.flags = w.flags /\ v.tick = w.tick
      /\ v.last = w.last /\ v.list = w.list /\ v.to_add = w.to_add /\ v.under_force = w.under_force
      /\ v.chance = w.chance /\ v.mind = w.mind /\ v.music = w.music /\ DOMAIN v = Members /\ v.content = w.content
  BY SameFields
<1>3. /\ DOMAIN v.obj = DOMAIN w.obj /\ \A j \in DOMAIN w.obj : j # i => v.obj[j] = w.obj[j]
      /\ v.obj[i].owner = c
      /\ \A j \in DOMAIN w.obj :
           /\ v.obj[j].kind = w.obj[j].kind /\ v.obj[j].dir = w.obj[j].dir
           /\ v.obj[j].last_move = w.obj[j].last_move
           /\ v.obj[j].motion = w.obj[j].motion /\ v.obj[j].pass = w.obj[j].pass
           /\ v.obj[j].anchored = w.obj[j].anchored
  BY <1>1, OwnerSetIs
<1>4. v.obj[i] \in Object
  <2>1. w.obj[i] \in Object
    BY <1>1 DEF Objects
  <2>2. v.obj[i] = [w.obj[i] EXCEPT !.owner = c]
    BY DEF OwnerSet
  <2> QED BY <2>1, <2>2 DEF Object
<1>5. Kin(w, v) /\ SameSlots(w, v)
  BY <1>2, <1>3 DEF Kin, SameSlots
<1>6. Formed(v)
  <2>1. Counted(v)
    BY <1>1, <1>2 DEF Formed, Counted
  <2>2. Objects(v)
    <3>1. v.obj = [j \in DOMAIN v.obj |-> v.obj[j]]
      BY <1>1 DEF Objects, OwnerSet
    <3>2. ASSUME NEW j \in DOMAIN w.obj
          PROVE  /\ v.obj[j] \in Object /\ v.obj[j].last_move <= v.tick
                 /\ v.obj[j].kind = "glassdoor" => v.obj[j].anchored
      BY <1>1, <1>2, <1>3, <1>4 DEF Objects
    <3> QED BY <1>1, <1>2, <1>3, <3>1, <3>2 DEF Objects
  <2>3. Owned(v)
    <3>1. Owned(w) /\ w.last \in Nat /\ w.last <= v.last
      BY <1>1, <1>2 DEF Formed, Counted
    <3>2. v.own = [j \in DOMAIN w.obj |-> v.own[j]] /\ OwnFits(w, w.obj[i].kind, v.own[i])
      BY <1>2, <3>1 DEF Owned
    <3> QED BY <1>2, <1>5, <3>1, <3>2, OwnedSame
  <2>4. Contents(v)
    BY <1>1, <1>2, <1>5, ContentsSame DEF Formed
  <2>5. Grid(v) /\ Queues(v)
    BY <1>1, <1>2 DEF Formed, Grid, Queues
  <2> QED BY <2>1, <2>2, <2>3, <2>4, <2>5 DEF Formed
<1>7. Settled(A, v)
  <2>1. \A j, b, class : Lies(A, w, j, b, class) => Lies(A, v, j, b, class)
    BY <1>3 DEF Lies
  <2>2. OnTiles(A, v) /\ InContents(A, v)
    BY <1>1, <1>2, <2>1 DEF Settled, OnTiles, InContents
  <2>3. InSlots(A, v)
    BY <1>1, <1>2, <1>3, <2>1 DEF Settled, InSlots
  <2>4. Homed(A, v)
    <3>0. \A b, class : Is(w, b, class) <=> Is(v, b, class)
      BY <1>5 DEF Is, KindOf, IsValid, Kin
    <3>1. \A j, b : Has(w, b, j) => Has(v, b, j)
      BY <1>2, <3>0 DEF Has, SlotsOf
    <3> QED BY <1>1, <1>3, <3>1 DEF Settled, Homed
  <2> QED BY <2>2, <2>3, <2>4 DEF Settled
<1>8. Forces(v)
  BY <1>2, <1>3, ForcesSame DEF Sound, Nearly
<1>9. Sums(None, v)
  <2> SUFFICES ASSUME NEW u \in Tile PROVE SumAt(v, u)
    BY DEF Sums
  <2>1. SumAt(w, u)
    BY NoneIsNoTile DEF Nearly, Sums, Sound
  <2>3. \A j \in Standing(w, u) : v.obj[j].pass = w.obj[j].pass /\ v.obj[j].kind = w.obj[j].kind
    <3>1. \A j \in Standing(w, u) : j \in DOMAIN w.obj
      BY <1>1, StandingLies DEF Formed
    <3> QED BY <1>3, <3>1
  <2>4. v.sum = w.sum /\ v.flags = w.flags /\ v.turf = w.turf /\ v.content = w.content
    BY <1>2
  <2> QED BY <2>1, <2>3, <2>4, SumAtSame
<1>10. Shapes(U, v)
  <2>1. \A j \in DOMAIN w.obj : Shaped(w, j) => Shaped(v, j)
    BY <1>2, <1>3 DEF Shaped
  <2> QED BY <1>3, <2>1 DEF Sound, Nearly, Shapes
<1>11. Minds(v)
  BY <1>2, <1>3, MindsSame DEF Sound, Nearly
<1>12. Walls(U, v)
  <2> SUFFICES ASSUME NEW j \in DOMAIN v.obj, j \notin U, v.obj[j].kind \in Wall, NEW d \in Dir,
                      IsInside(v.obj[j].owner, d), Neighbour(v.obj[j].owner, d) \notin U
               PROVE  Knows(v, j, d)
    BY DEF Walls
  <2>1. w.obj[i].kind \notin Wall
    BY DEF Item, Wall, Gun, Cloth
  <2>2. j # i /\ j \in DOMAIN w.obj /\ v.obj[j] = w.obj[j] /\ Knows(w, j, d)
    BY <1>3, <2>1 DEF Sound, Nearly, Walls
  <2>3. \A b : KindOf(v, b) = KindOf(w, b)
    BY <1>5 DEF KindOf, IsValid, Kin
  <2>4. WallAt(v, j, d) = WallAt(w, j, d)
    BY <1>2, <2>2, <2>3 DEF WallAt, Owner, Is
  <2> QED BY <1>2, <2>2, <2>4 DEF Knows
<1> QED BY <1>6, <1>7, <1>8, <1>9, <1>10, <1>11, <1>12 DEF Sound, Nearly

\* In a slot, and the human's own.
Hold(w, h, s, i) == [w EXCEPT !.own[h].slot[s] = i, !.obj[i].owner = h]
Held(w, h, s, i, v) ==
  /\ Only({"own", "obj"}, w, v) /\ v.obj = OwnerSet(w, i, h)
  /\ v.own = [w.own EXCEPT ![h] = [w.own[h] EXCEPT !.slot = [w.own[h].slot EXCEPT ![s] = i]]]

\* What taking into a slot changes.
LEMMA HoldIs ==
  ASSUME NEW w, Formed(w), NEW h, IsHuman(w, h), NEW s \in Slot, NEW i \in DOMAIN w.obj, NEW v, v = Hold(w, h, s, i)
  PROVE  Held(w, h, s, i, v)
<1>1. DOMAIN w = Members
  BY DEF Formed, Counted
<1>2. PICK x : x = [w EXCEPT !.own[h].slot[s] = i]
  OBVIOUS
<1>3. v = [x EXCEPT !.obj[i].owner = h]
  BY <1>2 DEF Hold
<1>4. x.obj = w.obj /\ Only({"own"}, w, x)
      /\ x.own = [w.own EXCEPT ![h] = [w.own[h] EXCEPT !.slot = [w.own[h].slot EXCEPT ![s] = i]]]
  BY <1>1, <1>2 DEF Only, Members
<1>5. Only({"obj"}, x, v) /\ v.obj = OwnerSet(x, i, h) /\ v.own = x.own
  BY <1>3, <1>4 DEF Only, OwnerSet, Members
<1>6. Only({"own", "obj"}, w, v)
  BY <1>4, <1>5 DEF Only
<1> QED BY <1>4, <1>5, <1>6 DEF Held, OwnerSet

\* An unowned item in a free slot is settled.
LEMMA HoldSound ==
  ASSUME NEW A, NEW U, NEW w, Sound(A, U, w), NEW h, IsHuman(w, h), NEW s \in Slot, w.own[h].slot[s] = None,
         NEW i \in DOMAIN w.obj, i \in A, w.obj[i].kind \in Item, NEW v, v = Hold(w, h, s, i)
  PROVE  Sound(A \ {i}, U, v) /\ Held(w, h, s, i, v)
<1>1. Formed(w) /\ Settled(A, w) /\ DOMAIN w = Members /\ Objects(w)
  BY DEF Sound, Nearly, Formed, Counted
<1>2. h \in Nat /\ i # None /\ h \notin Tile
  BY <1>1, ValidIsNat DEF Formed, IsHuman
<1>3. Held(w, h, s, i, v)
  BY <1>1, HoldIs
<1>4. PICK x : x = [w EXCEPT !.obj = OwnerSet(w, i, h)]
  OBVIOUS
<1>5. Only({"obj"}, w, x) /\ x.obj = OwnerSet(w, i, h)
  BY <1>1, <1>4 DEF Only, Members
<1>6. Sound(A, U, x)
  BY <1>2, <1>5, OwnerSound
<1>7. x.own = w.own
  BY <1>5, SameFields
<1>8. PICK old, slot : old = w.own[h].slot /\ slot = [old EXCEPT ![s] = i]
  OBVIOUS
<1>9. SlotsSet(x, h, v, slot)
  <2>1. Only({"own"}, x, v)
    BY <1>3, <1>5 DEF Held, Only, Members
  <2>2. v.own = [w.own EXCEPT ![h] = [w.own[h] EXCEPT !.slot = slot]]
    BY <1>3, <1>8 DEF Held
  <2> QED BY <1>7, <2>1, <2>2 DEF SlotsSet
<1>10. /\ DOMAIN x.obj = DOMAIN w.obj /\ \A j \in DOMAIN w.obj : j # i => x.obj[j] = w.obj[j]
       /\ x.obj[i].owner = h /\ \A j \in DOMAIN w.obj : x.obj[j].kind = w.obj[j].kind
  BY <1>1, <1>5, OwnerSetIs
<1>11. IsHuman(x, h) /\ Formed(x) /\ Settled(A, x)
  BY <1>6, <1>10 DEF IsHuman, Sound, Nearly
<1>12. /\ v.obj = x.obj /\ v.turf = x.turf /\ v.content = x.content
       /\ DOMAIN v.own = DOMAIN x.own /\ \A j \in DOMAIN x.own : j # h => v.own[j] = x.own[j]
       /\ v.own[h].slot = slot
  BY <1>9, <1>11, SlotsSetIs
<1>13. old \in [Slot -> Nat] /\ DOMAIN x.own = DOMAIN x.obj
  BY <1>7, <1>8, <1>11, HumanOwn
<1>14. i \in Nat
  BY <1>1, ValidIsNat DEF Formed
<1>15. slot \in [Slot -> Nat] /\ slot[s] = i /\ \A u \in Slot : u # s => slot[u] = old[u]
  BY <1>8, <1>13, <1>14
<1>16. PICK B : B = A \ {i}
  OBVIOUS
<1>17. \A j, c, class : Lies(A, x, j, c, class) => j # i /\ Lies(B, v, j, c, class)
  BY <1>12, <1>16 DEF Lies
<1>18. OnTiles(B, v) /\ InContents(B, v)
  BY <1>11, <1>12, <1>17 DEF Settled, OnTiles, InContents
<1>19. InSlots(B, v)
  <2>1. ASSUME NEW g \in DOMAIN v.obj, v.obj[g].kind = "human"
        PROVE  /\ \A u \in Slot : v.own[g].slot[u] # None => Lies(B, v, v.own[g].slot[u], g, Item)
               /\ \A t, u \in Slot : v.own[g].slot[t] = v.own[g].slot[u] /\ v.own[g].slot[t] # None => t = u
    <3>1. /\ \A u \in Slot : x.own[g].slot[u] # None => Lies(A, x, x.own[g].slot[u], g, Item)
          /\ \A t, u \in Slot : x.own[g].slot[t] = x.own[g].slot[u] /\ x.own[g].slot[t] # None => t = u
      BY <1>11, <1>12, <2>1 DEF Settled, InSlots
    <3>2. CASE g = h
      <4>1. Lies(B, v, i, h, Item)
        BY <1>10, <1>12, <1>16 DEF Lies
      <4>2. \A u \in Slot : u # s /\ slot[u] # None => slot[u] # i /\ Lies(B, v, slot[u], h, Item)
        BY <1>7, <1>8, <1>15, <1>17, <3>1, <3>2
      <4>3. \A t, u \in Slot : slot[t] = slot[u] /\ slot[t] # None => t = u
        BY <1>7, <1>8, <1>15, <3>1, <3>2, <4>2
      <4> QED BY <1>12, <1>15, <3>2, <4>1, <4>2, <4>3
    <3>3. CASE g # h
      <4>1. v.own[g].slot = x.own[g].slot
        BY <1>12, <1>13, <2>1, <3>3
      <4> QED BY <1>17, <3>1, <4>1
    <3> QED BY <3>2, <3>3
  <2> QED BY <2>1 DEF InSlots
<1>20. ASSUME NEW j \in DOMAIN x.obj, NEW c, Has(x, c, j) PROVE Has(v, c, j)
  <2>1. \A class : Is(v, c, class) <=> Is(x, c, class)
    BY <1>12 DEF Is, KindOf, IsValid
  <2>2. CASE Is(x, c, {"human"}) /\ c \notin Tile /\ SlotsOf(x, c, j) # {}
    <3>1. SlotsOf(v, c, j) # {}
      <4>1. CASE c = h
        <5>1. j # None
          BY <1>11, ValidIsNat DEF Formed
        <5>2. PICK u \in Slot : old[u] = j
          BY <1>7, <1>8, <2>2, <4>1 DEF SlotsOf
        <5>3. u # s
          BY <1>8, <5>1, <5>2
        <5> QED BY <1>12, <1>15, <4>1, <5>2, <5>3 DEF SlotsOf
      <4>2. CASE c # h
        <5>1. c \in DOMAIN x.own
          BY <1>13, <2>2 DEF Is, KindOf, IsValid
        <5> QED BY <1>12, <2>2, <4>2, <5>1 DEF SlotsOf
      <4> QED BY <4>1, <4>2
    <3>2. ~Is(x, c, Closet)
      BY <2>2 DEF Is, Closet
    <3> QED BY <2>1, <2>2, <3>1, <3>2 DEF Has
  <2>3. CASE ~(Is(x, c, {"human"}) /\ c \notin Tile /\ SlotsOf(x, c, j) # {})
    BY <1>12, <1>20, <2>1, <2>3 DEF Has
  <2> QED BY <2>2, <2>3
<1>21. Homed(B, v)
  <2>1. Has(v, h, i)
    <3>1. Is(v, h, {"human"}) /\ ~Is(v, h, Closet)
      <4>1. h # Hand
        BY <1>2 DEF Hand
      <4> QED BY <1>11, <1>12, <4>1 DEF IsHuman, Is, KindOf, IsValid, Closet
    <3>2. SlotsOf(v, h, i) # {}
      BY <1>12, <1>15 DEF SlotsOf
    <3> QED BY <1>2, <3>1, <3>2 DEF Has
  <2>2. v.obj[i].owner = h /\ v.obj[i].kind \notin Rooted
    <3>1. Item \cap Rooted = {}
      BY DEF Item, Gun, Cloth, Rooted, Turf, Wall, Closet, Projectile
    <3> QED BY <1>10, <1>12, <3>1
  <2>3. ASSUME NEW j \in DOMAIN v.obj, j \notin B
        PROVE  (v.obj[j].owner # None => Has(v, v.obj[j].owner, j)) /\ (v.obj[j].kind \in Rooted => v.obj[j].owner \in Tile)
    <3>1. CASE j = i
      BY <2>1, <2>2, <3>1
    <3>2. CASE j # i
      BY <1>11, <1>12, <1>16, <1>20, <2>3, <3>2 DEF Settled, Homed
    <3> QED BY <3>1, <3>2
  <2> QED BY <2>3 DEF Homed
<1>22. Sound(B, U, v)
  <2>1. Settled(B, v)
    BY <1>18, <1>19, <1>21 DEF Settled
  <2> QED BY <1>6, <1>9, <1>11, <1>15, <2>1, SlotsChanged
<1> QED BY <1>3, <1>16, <1>22

\* Taking from a content and holding commute.
LEMMA HoldTaken ==
  ASSUME NEW w, DOMAIN w = Members, NEW h, NEW s, NEW i, NEW c
  PROVE  Taken(Hold(w, h, s, i), c, i) = Hold(Taken(w, c, i), h, s, i)
BY DEF Taken, Hold, Members

\* So do writing a tile's sum and holding.
LEMMA HoldWithSum ==
  ASSUME NEW w, DOMAIN w = Members, NEW h, NEW s, NEW i, NEW t, NEW sum,
         AtmosFlags(Hold(w, h, s, i), t, sum) = AtmosFlags(w, t, sum)
  PROVE  WithSum(Hold(w, h, s, i), t, sum) = Hold(WithSum(w, t, sum), h, s, i)
<1>1. PICK flags : flags = AtmosFlags(w, t, sum)
  OBVIOUS
<1> QED BY <1>1 DEF WithSum, Hold, Members

\* And so renewing the sums and holding.
LEMMA HoldUpdated ==
  ASSUME NEW A, NEW U, NEW w, NEW t \in Tile, Nearly(A, U, t, w), NEW h, IsHuman(w, h), NEW s \in Slot, NEW i \in DOMAIN w.obj
  PROVE  UpdatePassable(Hold(w, h, s, i), t) = Hold(UpdatePassable(w, t), h, s, i)
<1>1. PICK v : v = Hold(w, h, s, i)
  OBVIOUS
<1>2. Formed(w) /\ Settled(A, w) /\ DOMAIN w = Members /\ Objects(w) /\ Contents(w)
  BY DEF Nearly, Formed, Counted
<1>3. Only({"own", "obj"}, w, v) /\ v.obj = OwnerSet(w, i, h)
  <2>1. Held(w, h, s, i, v)
    BY <1>1, <1>2, HoldIs
  <2> QED BY <2>1 DEF Held
<1>4. v.turf = w.turf /\ v.content = w.content
  BY <1>3, SameFields
<1>5. \A j \in DOMAIN w.obj : v.obj[j].kind = w.obj[j].kind /\ v.obj[j].pass = w.obj[j].pass
  BY <1>2, <1>3, OwnerSetIs
<1>6. Standing(v, t) = Standing(w, t)
  BY <1>4 DEF Standing
<1>7. \A j \in Standing(w, t) : v.obj[j].pass = w.obj[j].pass
  BY <1>2, <1>5, StandingLies
<1>8. PICK sum : sum = Summed(w, t)
  OBVIOUS
<1>9. Summed(v, t) = sum
  BY <1>6, <1>7, <1>8, SummedSame
<1>10. w.turf[t] # None => w.turf[t] \in DOMAIN w.obj
  BY <1>2 DEF Settled, OnTiles, Lies
<1>11. AtmosFlags(v, t, sum) = AtmosFlags(w, t, sum)
  BY <1>4, <1>5, <1>10 DEF AtmosFlags
<1>12. WithSum(v, t, sum) = Hold(WithSum(w, t, sum), h, s, i)
  BY <1>1, <1>2, <1>11, HoldWithSum
<1> QED BY <1>1, <1>8, <1>9, <1>12 DEF UpdatePassable

\* From a tile or a closet.
LEMMA HoldRemoved ==
  ASSUME NEW w, Sound(Nil, Nil, w), NEW h, IsHuman(w, h), NEW s \in Slot, NEW i \in DOMAIN w.obj, w.obj[i].kind \in Item,
         NEW c, c = w.obj[i].owner, c \in Tile \/ Is(w, c, Closet), NEW held, held = Hold(w, h, s, i)
  PROVE  Has(held, c, i) /\ RemoveObject(held, c, i) = Hold(RemoveObject(w, c, i), h, s, i)
<1>1. Formed(w) /\ Settled(Nil, w) /\ DOMAIN w = Members /\ Objects(w)
  BY DEF Sound, Nearly, Formed, Counted
<1>2. Held(w, h, s, i, held)
  BY <1>1, HoldIs
<1>3. held.turf = w.turf /\ held.content = w.content
  BY <1>2, SameFields DEF Held
<1>4. \A class : Is(held, c, class) <=> Is(w, c, class)
  <2>1. DOMAIN held.obj = DOMAIN w.obj /\ \A j \in DOMAIN w.obj : held.obj[j].kind = w.obj[j].kind
    BY <1>1, <1>2, OwnerSetIs DEF Held
  <2> QED BY <2>1 DEF Is, KindOf, IsValid
<1>5. Sane(Nil, Nil, w, w)
  BY SaneStart
<1>6. Has(w, c, i) /\ c # None
  <2>1. c # None
    <3>1. None \notin DOMAIN w.obj
      BY <1>5, SaneForms
    <3> QED BY <3>1, NoneIsNoTile DEF Is, KindOf, IsValid, Closet, None, Hand
  <2> QED BY <1>5, <2>1, OwnerHas
<1>7. CASE c \in Tile
  <2>1. i # w.turf[c]
    <3>1. Item \cap Turf = {}
      BY DEF Item, Gun, Cloth, Turf, Wall
    <3>2. i # None
      BY <1>5, SaneForms
    <3> QED BY <1>1, <1>7, <3>1, <3>2 DEF Settled, OnTiles, Lies
  <2>2. PICK a, b : a = Taken(w, c, i) /\ b = UpdatePassable(a, c)
    OBVIOUS
  <2>3. RemoveObject(w, c, i) = b
    BY <1>6, <1>7, <2>1, <2>2 DEF RemoveObject
  <2>4. Has(held, c, i)
    BY <1>3, <1>6, <1>7 DEF Has
  <2>5. RemoveObject(held, c, i) = UpdatePassable(Taken(held, c, i), c)
    BY <1>3, <1>7, <2>1, <2>4 DEF RemoveObject
  <2>6. Taken(held, c, i) = Hold(a, h, s, i)
    BY <1>1, <2>2, HoldTaken
  <2>7. Contains(w.content[c], i)
    BY <1>6, <1>7, <2>1 DEF Has
  <2>8. Nearly(Nil \cup {i}, Nil, c, a) /\ Only({"content"}, w, a)
    BY <1>5, <1>7, <2>2, <2>7, TakenNearly
  <2>9. a.obj = w.obj
    BY <2>8, SameFields
  <2>10. UpdatePassable(Hold(a, h, s, i), c) = Hold(b, h, s, i)
    BY <1>7, <2>2, <2>8, <2>9, HoldUpdated DEF IsHuman
  <2> QED BY <2>3, <2>4, <2>5, <2>6, <2>10
<1>8. CASE c \notin Tile
  <2>1. Is(w, c, Closet) /\ Is(held, c, Closet)
    BY <1>4, <1>8
  <2>2. Has(held, c, i)
    BY <1>3, <1>6, <1>8, <2>1 DEF Has
  <2>3. RemoveObject(w, c, i) = Taken(w, c, i) /\ RemoveObject(held, c, i) = Taken(held, c, i)
    BY <1>6, <1>8, <2>1, <2>2 DEF RemoveObject
  <2>4. Taken(held, c, i) = Hold(Taken(w, c, i), h, s, i)
    BY <1>1, HoldTaken
  <2> QED BY <2>2, <2>3, <2>4
<1> QED BY <1>7, <1>8

\* The owner is written twice with the same value.
LEMMA HoldAgain ==
  ASSUME NEW w, DOMAIN w = Members, NEW h, NEW s, NEW i
  PROVE  [Hold(w, h, s, i) EXCEPT !.obj[i].owner = h] = Hold(w, h, s, i)
BY DEF Hold, Members

\* What is no longer on a tile did not move on one.
LEMMA BoxedStrides ==
  ASSUME NEW r, NEW w, Objects(w), Strides(r, w), NEW v, NEW i, Boxed(w, v, i), i \notin Tile, v.tick = w.tick
  PROVE  Strides(r, v)
<1> SUFFICES ASSUME NEW j \in (DOMAIN r.obj) \cap DOMAIN v.obj, r.obj[j].kind \notin Projectile PROVE Strode(r, v, j)
  BY DEF Strides
<1>1. j \in DOMAIN w.obj /\ Strode(r, w, j)
  BY DEF Strides, Boxed
<1>2. CASE v.obj[j] = w.obj[j]
  BY <1>1, <1>2 DEF Strode
<1>3. CASE v.obj[j] = [w.obj[j] EXCEPT !.owner = i]
  <2>1. w.obj[j] \in Object
    BY <1>1 DEF Objects
  <2>2. v.obj[j].owner = i
    BY <1>3, <2>1 DEF Object
  <2> QED BY <1>1, <2>2 DEF Strode
<1> QED BY <1>1, <1>2, <1>3 DEF Boxed

\* PickUp keeps the invariant.
LEMMA PickUpFine ==
  ASSUME NEW r, NEW w, Good(r, w), NEW h, IsHuman(w, h), InHand(w, h) = None,
         NEW i \in DOMAIN w.obj, w.obj[i].kind \in Item, w.obj[i].owner \in Tile \/ Is(w, w.obj[i].owner, Closet)
  PROVE  Fine(r, PickUp(w, h, i))
<1>1. PICK c, s, held, b : c = w.obj[i].owner /\ s = w.own[h].active_hand /\ held = Hold(w, h, s, i)
                           /\ b = RemoveObject(w, c, i)
  OBVIOUS
<1>2. s \in Slot /\ w.own[h].slot[s] = None /\ DOMAIN w = Members /\ h \in DOMAIN w.own
  BY <1>1, HumanIs DEF InHand
<1>3. Sound(Nil, Nil, w) /\ Formed(w)
  BY DEF Good, Sane, Sound, Nearly
<1>4. Has(held, c, i) /\ RemoveObject(held, c, i) = Hold(b, h, s, i)
  BY <1>1, <1>2, <1>3, HoldRemoved
<1>5. Has(w, c, i) /\ c # None /\ c \notin {h}
  <2>1. c # None
    <3>1. None \notin DOMAIN w.obj
      BY GoodForms
    <3> QED BY <1>1, <3>1, NoneIsNoTile DEF Is, KindOf, IsValid, Closet, None, Hand
  <2>2. c # h
    <3>1. h \notin Tile
      BY <1>3, ValidIsNat DEF Formed, IsHuman
    <3> QED BY <1>1, <3>1 DEF IsHuman, Is, KindOf, IsValid, Closet
  <2> QED BY <1>1, <2>1, <2>2, OwnerHas DEF Good
<1>6. PICK A : A = Nil \cup {i}
  OBVIOUS
<1>7. /\ Sound(A, Nil, b) /\ Since(w, b)
      /\ Only({"content", "turf", "sum", "flags", "own"}, w, b) /\ OwnKept(w, c, b)
  <2>1. w.obj[i].kind \notin Wall
    BY DEF Item, Gun, Cloth, Wall
  <2> QED BY <1>1, <1>3, <1>5, <1>6, <2>1, Removed
<1>8. b.obj = w.obj /\ b.own = w.own /\ b.tick = w.tick /\ DOMAIN b = Members
  <2>1. ~Is(w, c, {"human"})
    <3>1. c \in Tile => c \notin DOMAIN w.obj
      BY <1>3, ValidIsNat DEF Formed
    <3> QED BY <1>1, <3>1 DEF Is, KindOf, IsValid, Closet
  <2> QED BY <1>7, <2>1, SameFields DEF OwnKept
<1>9. PICK v : v = Hold(b, h, s, i)
  OBVIOUS
<1>10. PickUp(w, h, i) = v
  <2>1. PickUp(w, h, i) = [RemoveObject(held, c, i) EXCEPT !.obj[i].owner = h]
    BY <1>1, <1>4 DEF PickUp, Owner, Hold
  <2>2. [Hold(b, h, s, i) EXCEPT !.obj[i].owner = h] = v
    BY <1>8, <1>9, HoldAgain
  <2> QED BY <1>4, <2>1, <2>2
<1>11. IsHuman(b, h) /\ i \in A /\ b.own[h].slot[s] = None
  BY <1>2, <1>6, <1>8 DEF IsHuman
<1>12. Sound(A \ {i}, Nil, v) /\ Held(b, h, s, i, v)
  BY <1>2, <1>7, <1>8, <1>9, <1>11, HoldSound
<1>13. A \ {i} = Nil
  BY <1>6 DEF Nil
<1>14. Boxed(w, v, h) /\ v.tick = w.tick
  <2>1. v.obj = OwnerSet(w, i, h) /\ v.tick = w.tick
    BY <1>8, <1>12, SameFields DEF Held, OwnerSet
  <2>2. DOMAIN v.obj = DOMAIN w.obj /\ v.obj[i] = [w.obj[i] EXCEPT !.owner = h] /\ \A j \in DOMAIN w.obj : j # i => v.obj[j] = w.obj[j]
    BY <2>1 DEF OwnerSet
  <2> QED BY <2>1, <2>2 DEF Boxed
<1>15. Strides(r, v)
  <2>1. Strides(r, w)
    BY GoodStrides
  <2>2. h \notin Tile
    BY <1>3, ValidIsNat DEF Formed, IsHuman
  <2>3. Objects(w)
    BY <1>3 DEF Formed
  <2> QED BY <1>14, <2>1, <2>2, <2>3, BoxedStrides
<1>16. Sound(Nil, Nil, v)
  BY <1>12, <1>13
<1> QED BY <1>10, <1>15, <1>16 DEF Fine

-----------------------------------------------------------------------------
(* Messages.                                                               *)

\* A human may take hold of anything that moves, and lets go of what it pulled.
LEMMA PulledSound ==
  ASSUME NEW w, Sound(Nil, Nil, w), NEW h, IsHuman(w, h), NEW e, DOMAIN e = DOMAIN w.own[h],
         e.slot = w.own[h].slot, e.active_hand = w.own[h].active_hand, e.dead = w.own[h].dead, e.lying = w.own[h].lying,
         Refers(w, e.pulled, Movable \ Projectile), NEW v, OwnChanged(w, h, e, v)
  PROVE  Sound(Nil, Nil, v) /\ v.obj = w.obj /\ v.tick = w.tick
<1>1. Formed(w) /\ Settled(Nil, w)
  BY DEF Sound, Nearly
<1>2. Only({"own"}, w, v) /\ v.own = OwnsSet(w, h, e)
  BY DEF OwnChanged
<1>3. /\ v.obj = w.obj /\ v.turf = w.turf /\ v.sum = w.sum /\ v.flags = w.flags /\ v.tick = w.tick
      /\ v.last = w.last /\ v.list = w.list /\ v.to_add = w.to_add /\ v.under_force = w.under_force
      /\ v.chance = w.chance /\ v.mind = w.mind /\ v.music = w.music /\ DOMAIN v = Members /\ v.content = w.content
  BY <1>2, SameFields
<1>4. DOMAIN w.own = DOMAIN w.obj /\ h \in DOMAIN w.own
  BY <1>1, HumanOwn DEF IsHuman
<1>5. v.own[h] = e /\ \A j \in DOMAIN w.own : j # h => v.own[j] = w.own[j]
  BY <1>2, <1>4 DEF OwnsSet
<1>6. Kin(w, v) /\ Twins(w, v) /\ SameSlots(w, v)
  BY <1>3, <1>4, <1>5 DEF Kin, Twins, SameSlots
<1>7. OwnFits(w, "human", v.own[h])
  <2>1. OwnFits(w, "human", w.own[h])
    BY <1>1 DEF Formed, Owned, IsHuman
  <2> QED BY <1>5, <2>1 DEF OwnFits, Projectile, Wall
<1>8. Formed(v)
  <2>1. Counted(v) /\ Objects(v) /\ Grid(v) /\ Queues(v)
    BY <1>1, <1>3 DEF Formed, Counted, Objects, Grid, Queues
  <2>2. Owned(v)
    <3>1. Owned(w) /\ w.last \in Nat /\ w.last <= v.last /\ v.last \in Nat
      BY <1>1, <1>3 DEF Formed, Counted
    <3>2. v.own = [j \in DOMAIN w.obj |-> v.own[j]]
      BY <1>2, <3>1 DEF OwnsSet, Owned
    <3>3. \A j \in DOMAIN w.obj : j # h => v.own[j] = w.own[j]
      BY <1>4, <1>5
    <3>4. h \in DOMAIN w.obj => OwnFits(w, w.obj[h].kind, v.own[h])
      BY <1>7 DEF IsHuman
    <3> QED BY <1>6, <3>1, <3>2, <3>3, <3>4, OwnedSame
  <2>3. Contents(v)
    BY <1>1, <1>3, <1>6, ContentsSame DEF Formed
  <2> QED BY <2>1, <2>2, <2>3 DEF Formed
<1>9. Settled(Nil, v)
  BY <1>1, <1>3, <1>6, SettledSame
<1>10. Sums(None, v)
  <2> SUFFICES ASSUME NEW u \in Tile PROVE SumAt(v, u)
    BY DEF Sums
  <2>1. SumAt(w, u)
    BY NoneIsNoTile DEF Nearly, Sums, Sound
  <2>2. v.sum = w.sum /\ v.flags = w.flags /\ v.turf = w.turf /\ v.obj = w.obj /\ v.content = w.content
    BY <1>3
  <2> QED BY <2>1, <2>2, SumAtSame
<1>11. Forces(v)
  BY <1>3 DEF Sound, Nearly, Forces
<1>12. Shapes(Nil, v)
  <2>1. \A j \in DOMAIN w.obj : j # h /\ Shaped(w, j) => Shaped(v, j)
    BY <1>3, <1>4, <1>5 DEF Shaped
  <2>2. Shaped(w, h) => Shaped(v, h)
    BY <1>3, <1>5 DEF Shaped, IsHuman, ShapeFits, Closet
  <2> QED BY <1>3, <2>1, <2>2 DEF Sound, Nearly, Shapes
<1>13. Minds(v)
  <2>1. \A j \in DOMAIN w.obj : v.own[j] = w.own[j] \/ v.own[j].dead = w.own[j].dead
    BY <1>4, <1>5
  <2> QED BY <1>3, <2>1, MindsSame DEF Sound, Nearly
<1>14. Walls(Nil, v)
  <2>1. \A j \in DOMAIN w.obj : w.obj[j].kind \in Wall => v.own[j].walls = w.own[j].walls
    BY <1>4, <1>5 DEF IsHuman, Wall
  <2> QED BY <1>3, <1>6, <2>1, WallsSame DEF Sound, Nearly
<1> QED BY <1>3, <1>8, <1>9, <1>10, <1>11, <1>12, <1>13, <1>14 DEF Sound, Nearly

\* Strides depend on objects and tick only.
LEMMA StridesOf ==
  ASSUME NEW r, NEW w, Strides(r, w), NEW v, v.obj = w.obj, v.tick = w.tick
  PROVE  Strides(r, v)
BY DEF Strides, Strode

\* Beginning and ending a pull keep the invariant.
LEMMA PullActionFine ==
  ASSUME NEW r, NEW w, Good(r, w), NEW h, IsHuman(w, h), NEW i
  PROVE  Fine(r, PullAction(w, h, i))
<1>1. CASE Is(w, i, Movable \ Projectile) /\ CanTouch(w, h, i)
  <2>1. PICK v, e : v = [w EXCEPT !.own[h].pulled = i] /\ e = [w.own[h] EXCEPT !.pulled = i]
    OBVIOUS
  <2>2. /\ h \in DOMAIN w.own /\ DOMAIN w = Members /\ DOMAIN w.own[h] = DOMAIN NewHuman
    BY HumanIs
  <2>3. "pulled" \in DOMAIN NewHuman
    BY DEF NewHuman
  <2>4. /\ DOMAIN e = DOMAIN w.own[h] /\ e.slot = w.own[h].slot /\ e.active_hand = w.own[h].active_hand
        /\ e.dead = w.own[h].dead /\ e.lying = w.own[h].lying /\ e.pulled = i
    BY <2>1, <2>2, <2>3
  <2>5. OwnChanged(w, h, e, v)
    BY <2>1, <2>2 DEF OwnChanged, Only, OwnsSet, Members
  <2>6. i \in DOMAIN w.obj /\ w.obj[i].kind \in Movable \ Projectile
    <3>1. "hand" \notin Movable \ Projectile /\ "none" \notin Movable \ Projectile
      BY DEF Movable, Mob, Projectile, Item, Gun, Cloth, Closet, Structure, Breakable
    <3> QED BY <1>1, <3>1, IsValidObject
  <2>7. Refers(w, e.pulled, Movable \ Projectile)
    <3>1. i \in 0 .. w.last
      BY <2>6, GoodForms
    <3> QED BY <2>4, <2>6, <3>1 DEF Refers
  <2>8. Sound(Nil, Nil, w) /\ Strides(r, w)
    BY GoodStrides
  <2>9. Sound(Nil, Nil, v) /\ v.obj = w.obj /\ v.tick = w.tick
    BY <2>4, <2>5, <2>7, <2>8, PulledSound
  <2>10. Fine(r, v)
    BY <2>8, <2>9, StridesOf DEF Fine
  <2> QED BY <1>1, <2>1, <2>10 DEF PullAction
<1>2. CASE ~(Is(w, i, Movable \ Projectile) /\ CanTouch(w, h, i))
  BY <1>2, GoodFine DEF PullAction
<1> QED BY <1>1, <1>2

\* Rotating by hand keeps the invariant.
LEMMA RotationActionGood ==
  ASSUME NEW r, NEW w, Good(r, w), NEW i
  PROVE  Good(r, RotationAction(w, i))
<1>1. CASE Is(w, i, Movable \ Projectile) /\ ~w.obj[i].anchored
  <2>1. i \in DOMAIN w.obj
    <3>1. "hand" \notin Movable \ Projectile /\ "none" \notin Movable \ Projectile
      BY DEF Movable, Mob, Projectile, Item, Gun, Cloth, Closet, Structure, Breakable
    <3> QED BY <1>1, <3>1, IsValidObject
  <2>2. w.obj[i].kind # "glassdoor"
    BY <1>1, <2>1, GoodForms
  <2>3. PICK d \in Dir : d = Turned(DirOf(w, i))
    BY DEF Turned, Dir
  <2> QED BY <1>1, <2>1, <2>2, <2>3, RotateGood DEF RotationAction
<1>2. CASE ~(Is(w, i, Movable \ Projectile) /\ ~w.obj[i].anchored)
  BY <1>2 DEF RotationAction
<1> QED BY <1>1, <1>2

\* What is within reach is on a tile or in the closet one is in.
LEMMA TouchIs ==
  ASSUME NEW r, NEW w, Good(r, w), NEW h, IsHuman(w, h), NEW i, CanTouch(w, h, i)
  PROVE  i \in DOMAIN w.obj /\ (w.obj[i].owner \in Tile \/ Is(w, w.obj[i].owner, Closet))
<1>1. PICK c : c = w.obj[h].owner
  OBVIOUS
<1>2. CASE c \in Tile
  BY <1>1, <1>2 DEF CanTouch, TileTouches, Owner, IsValid
<1>3. CASE c \notin Tile
  <2>1. Is(w, c, Closet) /\ Contains(w.content[c], i)
    BY <1>1, <1>3 DEF CanTouch, Owner
  <2>2. Formed(w) /\ Settled(Nil, w)
    BY DEF Good, Sane, Sound, Nearly
  <2>3. c \in DOMAIN w.content /\ w.content[c] \in Seq(Nat)
    <3>1. c \in DOMAIN w.obj /\ w.obj[c].kind \in Closet
      <4>1. "hand" \notin Closet /\ "none" \notin Closet
        BY DEF Closet
      <4> QED BY <2>1, <4>1, IsValidObject
    <3> QED BY <2>2, <3>1 DEF Formed, Contents
  <2>4. PICK n \in 1 .. Len(w.content[c]) : w.content[c][n] = i
    <3>1. PICK q \in Seq(Nat) : q = w.content[c]
      BY <2>3
    <3>2. i \in ToSet(q) /\ DOMAIN q = 1 .. Len(q)
      BY <2>1, <3>1, ContainsIs
    <3> QED BY <3>1, <3>2 DEF ToSet
  <2>5. Lies(Nil, w, i, c, Suits(c))
    BY <2>2, <2>3, <2>4 DEF Settled, InContents
  <2> QED BY <2>1, <2>5 DEF Lies
<1> QED BY <1>2, <1>3

\* A left click keeps the invariant.
LEMMA LeftClickFine ==
  ASSUME NEW r, NEW w, Good(r, w), NEW h, IsHuman(w, h), NEW i \in DOMAIN w.obj
  PROVE  Fine(r, LeftClick(w, h, i))
<1>1. PICK item : item = InHand(w, h)
  OBVIOUS
<1>2. CASE w.obj[i].owner = None
  BY <1>2, GoodFine DEF LeftClick, Owner
<1>3. CASE w.obj[i].owner # None /\ ~CanTouch(w, h, i)
  <2>1. CASE Is(w, item, Gun) /\ Targetable(w, i)
    <3>1. item \in DOMAIN w.obj /\ w.obj[item].kind \in Gun
      <4>1. "hand" \notin Gun /\ "none" \notin Gun
        BY DEF Gun
      <4> QED BY <2>1, <4>1, IsValidObject
    <3>2. item # None
      BY <3>1, GoodForms
    <3>3. w.obj[item].owner = h
      BY <1>1, <3>2, InHandIs
    <3>4. Good(r, Shoot(w, item, i))
      BY <2>1, <3>1, <3>3, ShootGood
    <3>5. LeftClick(w, h, i) = Shoot(w, item, i)
      BY <1>1, <1>3, <2>1 DEF LeftClick, Owner
    <3> QED BY <3>4, <3>5, GoodFine
  <2>2. CASE ~(Is(w, item, Gun) /\ Targetable(w, i))
    <3>1. LeftClick(w, h, i) = w
      BY <1>1, <1>3, <2>2 DEF LeftClick, Owner
    <3> QED BY <3>1, GoodFine
  <2> QED BY <2>1, <2>2
<1>4. CASE w.obj[i].owner # None /\ CanTouch(w, h, i) /\ item = None /\ Is(w, i, Item)
  <2>1. w.obj[i].kind \in Item
    <3>1. "hand" \notin Item /\ "none" \notin Item
      BY DEF Item, Gun, Cloth
    <3> QED BY <1>4, <3>1, IsValidObject
  <2>2. w.obj[i].owner \in Tile \/ Is(w, w.obj[i].owner, Closet)
    BY <1>4, TouchIs
  <2>3. LeftClick(w, h, i) = PickUp(w, h, i)
    BY <1>1, <1>4 DEF LeftClick, Owner
  <2> QED BY <1>1, <1>4, <2>1, <2>2, <2>3, PickUpFine
<1>5. CASE w.obj[i].owner # None /\ CanTouch(w, h, i) /\ ~(item = None /\ Is(w, i, Item))
  <2>1. PICK used : used = IF item = None THEN Hand ELSE item
    OBVIOUS
  <2>2. used = Hand \/ (used = InHand(w, h) /\ used # None)
    BY <1>1, <2>1
  <2>3. LeftClick(w, h, i) = PerformAttack(w, h, i, used)
    BY <1>1, <1>5, <2>1 DEF LeftClick, Owner
  <2> QED BY <1>5, <2>2, <2>3, PerformAttackFine
<1> QED BY <1>2, <1>3, <1>4, <1>5

\* Any click keeps the invariant.
LEMMA ClickFine ==
  ASSUME NEW r, NEW w, Good(r, w), NEW h, IsHuman(w, h), NEW i, NEW action
  PROVE  Fine(r, Click(w, h, i, action))
<1>1. PICK late, e : late = [w EXCEPT !.own[h].attack_cooldown = w.tick] /\ e = [w.own[h] EXCEPT !.attack_cooldown = w.tick]
  OBVIOUS
<1>2. /\ h \in DOMAIN w.own /\ DOMAIN w = Members /\ DOMAIN w.own[h] = DOMAIN NewHuman
  BY HumanIs
<1>3. SameBody(w.own[h], e)
  BY <1>1, <1>2 DEF SameBody, NewHuman
<1>4. OwnChanged(w, h, e, late)
  BY <1>1, <1>2 DEF OwnChanged, Only, OwnsSet, Members
<1>5. Good(r, late) /\ IsHuman(late, h) /\ late.obj = w.obj
  BY <1>3, <1>4, BodyGood
<1>6. Fine(r, late) /\ Fine(r, w)
  BY <1>5, GoodFine
<1>7. IsValid(w, i) => Fine(r, LeftClick(late, h, i))
  BY <1>5, LeftClickFine DEF IsValid
<1>8. Fine(r, RotationAction(late, i))
  BY <1>5, RotationActionGood, GoodFine
<1>9. Fine(r, PullAction(late, h, i))
  BY <1>5, PullActionFine
<1> QED BY <1>1, <1>6, <1>7, <1>8, <1>9 DEF Click

\* Any message of a human keeps the invariant.
LEMMA HumanMessageFine ==
  ASSUME NEW r, NEW w, Good(r, w), NEW h, IsHuman(w, h), NEW m
  PROVE  Fine(r, HumanMessage(w, h, m))
<1>1. Fine(r, Click(w, h, m.object, m.action))
  <2>1. PICK i, action : i = m.object /\ action = m.action
    OBVIOUS
  <2> QED BY <2>1, ClickFine
<1>2. Fine(r, ApplyForce(w, h, StepForce(m.key)))
  <2>1. PICK f \in Vector : f = StepForce(m.key)
    BY VectorTypes
  <2>2. h \in DOMAIN w.obj /\ w.obj[h].kind \in Movable
    BY DEF IsHuman, Movable, Mob
  <2> QED BY <2>1, <2>2, ApplyForceGood, GoodFine
<1>3. Fine(r, HandleClick(w, h, m.key))
  <2>1. PICK name : name = m.key
    OBVIOUS
  <2> QED BY <2>1, HandleClickGood, GoodFine
<1> QED BY <1>1, <1>2, <1>3 DEF HumanMessage

-----------------------------------------------------------------------------
(* A new human gets dressed.                                               *)

\* Taking from nowhere into a slot is no move.
LEMMA HoldSince ==
  ASSUME NEW A, NEW U, NEW w, Sound(A, U, w), NEW h, IsHuman(w, h), NEW s \in Slot, w.own[h].slot[s] = None,
         NEW i \in DOMAIN w.obj, i \in A, w.obj[i].kind \in Item, w.obj[i].owner \notin Tile, NEW v, v = Hold(w, h, s, i)
  PROVE  Since(w, v)
<1>1. Formed(w) /\ Objects(w) /\ Counted(w) /\ Queues(w)
  BY DEF Sound, Nearly, Formed
<1>2. Held(w, h, s, i, v)
  BY <1>1, HoldIs
<1>3. /\ v.list = w.list /\ v.tick = w.tick /\ v.last = w.last
      /\ v.to_add = w.to_add /\ v.under_force = w.under_force /\ v.obj = OwnerSet(w, i, h)
  BY <1>2, SameFields DEF Held
<1>4. DOMAIN w.own = DOMAIN w.obj /\ DOMAIN w.own[h] = DOMAIN NewHuman
  BY <1>1, HumanOwn
<1>5. \A j \in DOMAIN w.own : v.own[j].pulled = w.own[j].pulled
  BY <1>2 DEF Held
<1>6. Since(w, w)
  BY <1>1, SinceSelf
<1>7. Remains(w, v)
  BY <1>1, <1>3, <1>4, <1>5, <1>6, OwnerSetIs DEF Since, Remains, Waiting
<1>8. ASSUME NEW j \in DOMAIN w.obj PROVE Moves(w, v, j)
  <2>1. CASE j = i
    BY <1>1, <1>3, <1>6, <2>1, OwnerSetIs DEF Since, Moves
  <2>2. CASE j # i
    BY <1>1, <1>3, <1>6, <2>2, OwnerSetIs DEF Since, Moves
  <2> QED BY <2>1, <2>2
<1> QED BY <1>7, <1>8 DEF Since

\* Create without an owner keeps the invariant.
LEMMA CreateNowhere ==
  ASSUME NEW r, NEW w, Good(r, w), NEW kind, Plain(kind), NEW i, i = NewId(w), NEW v, v = Create(w, kind, None)
  PROVE  Good(r, v) /\ Gained(w, v, i, kind) /\ v.obj[i].owner = None /\ i \in DOMAIN v.obj
<1>1. PICK nowhere : nowhere = None
  OBVIOUS
<1>2. Good(r, v) /\ Gained(w, v, i, kind)
  <2>1. PlainAt(kind, nowhere)
    BY DEF PlainAt
  <2> QED BY <1>1, <2>1, CreateGood
<1>3. PICK N, x : N = {} /\ x = Allocate(w, kind)
  OBVIOUS
<1>4. Sane(N, N, r, w)
  BY <1>3 DEF Good, Nil
<1>5. kind \in Kind /\ kind \notin Wall \cup {"glass", "glassdoor"} \cup Closet
  BY DEF Plain, Rooted, Turf, Wall
<1>6. OneMore(w, x, i, kind) /\ Sane({i}, N, r, x)
  BY <1>3, <1>4, <1>5, AllocateSane
<1>7. i \in DOMAIN x.obj /\ x.obj[i] = New(kind) /\ DOMAIN x.obj = (DOMAIN w.obj) \cup {i}
  BY <1>6 DEF OneMore
<1>8. x.obj[i].owner = None /\ x.obj[i].kind = kind
  BY <1>7 DEF New
<1>9. KindOf(x, i) = kind /\ DOMAIN x = Members /\ x.obj[i] \in Object
  <2>1. PICK A : A = {i}
    OBVIOUS
  <2>2. Sane(A, N, r, x)
    BY <1>6, <2>1
  <2> QED BY <1>7, <1>8, <2>2, SaneForms
<1>10. Placed(x, i, None) = x
  <2>1. None \notin DOMAIN w.obj /\ i # None
    BY <1>4, GoodForms, NewId_Fresh DEF NewId
  <2> QED BY <1>7, <2>1, NoneIsNoTile DEF Placed, IsValid
<1>11. v = AfterWorldCreation(x, i)
  BY <1>3, <1>10 DEF Create, NewId
<1>12. v = x \/ \E freq : v = SetFreq(x, i, freq)
  BY <1>5, <1>9, <1>11 DEF AfterWorldCreation
<1>13. CASE v = x
  BY <1>2, <1>7, <1>8, <1>13
<1>14. ASSUME NEW freq, v = SetFreq(x, i, freq)
       PROVE  v.obj[i].owner = None /\ i \in DOMAIN v.obj
  BY <1>7, <1>8, <1>9, <1>14 DEF SetFreq, Members, Object
<1> QED BY <1>2, <1>12, <1>13, <1>14

\* Nothing but the slot is different for those who are there already.
Equipped(w, h, s, v) ==
  /\ IsHuman(v, h) /\ v.mind = w.mind /\ v.own[h].dead = w.own[h].dead
  /\ \A j \in DOMAIN w.obj : j \in DOMAIN v.obj /\ v.obj[j] = w.obj[j]
  /\ \A u \in Slot : u # s => v.own[h].slot[u] = w.own[h].slot[u]
  /\ \A j \in DOMAIN w.obj : j # h => v.own[j] = w.own[j]
  /\ v.lobby = w.lobby

\* A new item in a free slot keeps the invariant.
LEMMA EquipGood ==
  ASSUME NEW r, NEW w, Good(r, w), NEW h, IsHuman(w, h), NEW s \in Slot, w.own[h].slot[s] = None,
         NEW kind \in Item, NEW v, v = Equip(w, h, s, kind)
  PROVE  Good(r, v) /\ Equipped(w, h, s, v)
<1>1. PICK i, x : i = NewId(w) /\ x = Create(w, kind, None)
  OBVIOUS
<1>2. Plain(kind)
  BY DEF Plain, Kind, Movable, Item, Gun, Cloth, Rooted, Turf, Wall, Closet, Projectile
<1>3. Good(r, x) /\ Gained(w, x, i, kind) /\ x.obj[i].owner = None /\ i \in DOMAIN x.obj
  BY <1>1, <1>2, CreateNowhere
<1>4. Sane(Nil, Nil, r, x)
  BY <1>3 DEF Good
<1>5. PICK A : A = Nil \cup {i}
  OBVIOUS
<1>6. Sane(A, Nil, r, x)
  BY <1>3, <1>4, <1>5, Unplaced
<1>7. /\ \A j \in DOMAIN w.obj : j \in DOMAIN x.obj /\ x.obj[j] = w.obj[j] /\ x.own[j] = w.own[j]
      /\ x.obj[i].kind = kind /\ x.mind = w.mind /\ x.lobby = w.lobby
  BY <1>3, SameFields DEF Gained
<1>8. IsHuman(x, h) /\ x.own[h] = w.own[h]
  BY <1>7 DEF IsHuman
<1>9. v = Hold(x, h, s, i)
  BY <1>1 DEF Equip, Hold
<1>10. Sound(A, Nil, x) /\ Formed(x) /\ i \in A
  BY <1>5, <1>6 DEF Sane, Sound, Nearly
<1>11. Sound(A \ {i}, Nil, v) /\ Held(x, h, s, i, v)
  BY <1>3, <1>7, <1>8, <1>9, <1>10, HoldSound
<1>12. Since(x, v)
  <2>1. x.obj[i].owner \notin Tile
    BY <1>3, NoneIsNoTile
  <2> QED BY <1>3, <1>7, <1>8, <1>9, <1>10, <2>1, HoldSince
<1>13. A \ {i} = Nil
  BY <1>5 DEF Nil
<1>14. Good(r, v)
  <2>1. Sound(Nil, Nil, v)
    BY <1>11, <1>13
  <2> QED BY <1>4, <1>12, <2>1, SaneStep DEF Good
<1>15. v.mind = x.mind /\ v.lobby = x.lobby /\ v.obj = OwnerSet(x, i, h)
       /\ v.own = [x.own EXCEPT ![h] = [x.own[h] EXCEPT !.slot = [x.own[h].slot EXCEPT ![s] = i]]]
  BY <1>11, SameFields DEF Held
<1>16. i \notin DOMAIN w.obj
  BY <1>1, NewId_Fresh DEF Good, NewId
<1>17. DOMAIN v.obj = DOMAIN x.obj /\ \A j \in DOMAIN x.obj : j # i => v.obj[j] = x.obj[j]
  BY <1>15 DEF OwnerSet
<1>18. /\ h \in DOMAIN x.own /\ DOMAIN x.own[h] = DOMAIN NewHuman /\ x.own[h].slot \in [Slot -> Nat]
       /\ DOMAIN x.own = DOMAIN x.obj
  BY <1>8, <1>10, HumanOwn DEF IsHuman
<1>19. v.own[h].dead = x.own[h].dead /\ v.own[h].slot = [x.own[h].slot EXCEPT ![s] = i] /\ \A j \in DOMAIN w.obj : j # h => v.own[j] = w.own[j]
  BY <1>7, <1>15, <1>18 DEF NewHuman
<1>20. IsHuman(v, h)
  <2>1. h \in DOMAIN w.obj /\ h # i
    BY <1>16 DEF IsHuman
  <2> QED BY <1>8, <1>17, <2>1 DEF IsHuman
<1> QED BY <1>7, <1>8, <1>14, <1>15, <1>16, <1>17, <1>18, <1>19, <1>20 DEF Equipped

\* An outfit has one item for each of its slots.
LEMMA OutfitIs ==
  ASSUME NEW job \in DOMAIN Outfit, NEW s, s = Outfit[job]
  PROVE  \E n \in Nat :
           /\ DOMAIN s = 1 .. n
           /\ \A m \in 1 .. n : s[m][1] \in Slot /\ s[m][2] \in Item
           /\ \A k, m \in 1 .. n : s[k][1] = s[m][1] => k = m
<1>1. {"uniform", "feet", "head", "suit", "right_hand"} \subseteq Slot
  BY DEF Slot, HUMAN_SLOTS
<1>2. {"uniform", "boots", "helmet", "armor", "brutepack", "revolver"} \subseteq Item
  BY DEF Item, Gun, Cloth
<1>3. CASE job = "security"
  <2>1. s = <<<<"uniform", "uniform">>, <<"feet", "boots">>, <<"head", "helmet">>, <<"suit", "armor">>>>
    BY <1>3 DEF Outfit
  <2>2. DOMAIN s = 1 .. 4
    BY <2>1
  <2>3. \A m \in 1 .. 4 : m = 1 \/ m = 2 \/ m = 3 \/ m = 4
    OBVIOUS
  <2> QED BY <1>1, <1>2, <2>1, <2>2, <2>3
<1>4. CASE job = "doctor"
  <2>1. s = <<<<"uniform", "uniform">>, <<"feet", "boots">>, <<"right_hand", "brutepack">>>>
    BY <1>4 DEF Outfit
  <2>2. DOMAIN s = 1 .. 3
    BY <2>1
  <2>3. \A m \in 1 .. 3 : m = 1 \/ m = 2 \/ m = 3
    OBVIOUS
  <2> QED BY <1>1, <1>2, <2>1, <2>2, <2>3
<1>5. CASE job \in {"assistant", "clown"}
  <2>1. s = <<<<"uniform", "uniform">>, <<"feet", "boots">>>>
    BY <1>5 DEF Outfit
  <2>2. DOMAIN s = 1 .. 2
    BY <2>1
  <2>3. \A m \in 1 .. 2 : m = 1 \/ m = 2
    OBVIOUS
  <2> QED BY <1>1, <1>2, <2>1, <2>2, <2>3
<1>6. CASE job = "barman"
  <2>1. s = <<<<"uniform", "uniform">>, <<"feet", "boots">>, <<"head", "helmet">>, <<"suit", "armor">>,
             <<"right_hand", "revolver">>>>
    BY <1>6 DEF Outfit
  <2>2. DOMAIN s = 1 .. 5
    BY <2>1
  <2>3. \A m \in 1 .. 5 : m = 1 \/ m = 2 \/ m = 3 \/ m = 4 \/ m = 5
    OBVIOUS
  <2> QED BY <1>1, <1>2, <2>1, <2>2, <2>3
<1>7. DOMAIN Outfit = {"security", "doctor", "assistant", "clown", "barman"}
  BY DEF Outfit
<1> QED BY <1>3, <1>4, <1>5, <1>6, <1>7

\* How a human gets dressed; c has the human as h, the world as w, what it puts on as s and
\* the world before as r.
EquipOp(c, v, e) == Equip(v, c.h, e[1], e[2])
Naked(w, v, h) ==
  /\ IsHuman(v, h) /\ v.obj[h].owner = None /\ ~v.own[h].dead /\ Unminded(v, h)
  /\ v.mind = w.mind /\ v.lobby = w.lobby
  /\ \A j \in DOMAIN w.obj : j \in DOMAIN v.obj /\ v.obj[j] = w.obj[j] /\ v.own[j] = w.own[j] /\ j # h
DressKnows(c, k, v) ==
  /\ Good(c.r, v) /\ Naked(c.w, v, c.h)
  /\ \A m \in k + 1 .. c.n : v.own[c.h].slot[c.s[m][1]] = None
DressFold == INSTANCE FoldInduction WITH Op <- EquipOp, P <- DressKnows

Dresses(c) ==
  /\ c.n \in Nat
  /\ \A m \in 1 .. c.n : c.s[m][1] \in Slot /\ c.s[m][2] \in Item
  /\ \A k, m \in 1 .. c.n : c.s[k][1] = c.s[m][1] => k = m

\* The loop's invariant holds for one item more.
LEMMA DressStep ==
  ASSUME NEW c, Dresses(c), NEW k \in Nat, k < c.n, NEW v, DressKnows(c, k, v)
  PROVE  DressKnows(c, k + 1, EquipOp(c, v, c.s[k + 1]))
<1>1. PICK h, s, kind, x : h = c.h /\ s = c.s[k + 1][1] /\ kind = c.s[k + 1][2] /\ x = Equip(v, h, s, kind)
  OBVIOUS
<1>2. k + 1 \in 1 .. c.n /\ c.n \in Nat
  BY DEF Dresses
<1>3. s \in Slot /\ kind \in Item
  BY <1>1, <1>2 DEF Dresses
<1>4. Good(c.r, v) /\ Naked(c.w, v, h) /\ IsHuman(v, h) /\ v.own[h].slot[s] = None
  BY <1>1, <1>2 DEF DressKnows, Naked
<1>5. Good(c.r, x) /\ Equipped(v, h, s, x)
  BY <1>1, <1>3, <1>4, EquipGood
<1>6. Naked(c.w, x, h)
  BY <1>4, <1>5 DEF Naked, Equipped, IsHuman, Unminded
<1>7. ASSUME NEW m \in k + 2 .. c.n
      PROVE  x.own[h].slot[c.s[m][1]] = None
  <2>1. m \in 1 .. c.n /\ m # k + 1 /\ m \in k + 1 .. c.n
    BY <1>2
  <2>2. c.s[m][1] # s /\ c.s[m][1] \in Slot
    BY <1>1, <1>2, <2>1 DEF Dresses
  <2>3. v.own[h].slot[c.s[m][1]] = None
    BY <1>1, <2>1 DEF DressKnows
  <2> QED BY <1>5, <2>2, <2>3 DEF Equipped
<1>8. EquipOp(c, v, c.s[k + 1]) = x
  BY <1>1 DEF EquipOp
<1>9. PICK q : q = k + 1
  OBVIOUS
<1>10. \A m \in q + 1 .. c.n : x.own[c.h].slot[c.s[m][1]] = None
  <2>1. q + 1 = k + 2
    BY <1>9
  <2> QED BY <1>1, <1>7, <2>1
<1>11. DressKnows(c, q, x)
  BY <1>1, <1>5, <1>6, <1>10 DEF DressKnows
<1> QED BY <1>8, <1>9, <1>11

\* Dressing as a fold over the outfit.
LEMMA DressedIsFold ==
  ASSUME NEW c, NEW w, c.h = NewId(w)
  PROVE  Dressed(w) = DressFold!Folded(c, Create(w, "human", None), Outfit[w.chance.job])
BY DEF DressFold!Folded, DressFold!MaxOf, Dressed, EquipOp, FoldLeft, MapThenFoldSet, Max

\* A dressed human keeps the invariant, and is alive and nobody's.
LEMMA DressedGood ==
  ASSUME NEW r, NEW w, Good(r, w), NEW h, h = NewId(w), NEW v, v = Dressed(w)
  PROVE  Good(r, v) /\ Naked(w, v, h)
<1>1. PICK human, x, s, job : human = "human" /\ x = Create(w, human, None) /\ s = Outfit[job] /\ job = w.chance.job
  OBVIOUS
<1>2. Plain(human)
  BY <1>1 DEF Plain, Kind, Movable, Mob, Rooted, Turf, Wall, Closet, Projectile
<1>3. Good(r, x) /\ Gained(w, x, h, human) /\ x.obj[h].owner = None /\ h \in DOMAIN x.obj
  BY <1>1, <1>2, CreateNowhere
<1>4. job \in DOMAIN Outfit
  <2>1. w.chance \in Chance
    BY DEF Good, Sane, Sound, Nearly, Formed, Queues
  <2> QED BY <1>1, <2>1 DEF Chance
<1>5. PICK n \in Nat :
           /\ DOMAIN s = 1 .. n
           /\ \A m \in 1 .. n : s[m][1] \in Slot /\ s[m][2] \in Item
           /\ \A k, m \in 1 .. n : s[k][1] = s[m][1] => k = m
  BY <1>1, <1>4, OutfitIs
<1>6. PICK c : c = [r |-> r, w |-> w, h |-> h, s |-> s, n |-> n]
  OBVIOUS
<1>7. c.r = r /\ c.w = w /\ c.h = h /\ c.s = s /\ c.n = n
  BY <1>6
<1>8. Dresses(c)
  BY <1>5, <1>7 DEF Dresses
<1>9. h \notin DOMAIN w.obj /\ \A p \in Player : w.mind[p] # h
  BY NewId_Fresh DEF Good, NewId
<1>10. DressKnows(c, 0, x)
  <2>1. /\ x.mind = w.mind /\ x.lobby = w.lobby /\ x.obj[h].kind = "human" /\ x.own[h] = NewOwn(human)
        /\ \A j \in DOMAIN w.obj : j \in DOMAIN x.obj /\ x.obj[j] = w.obj[j] /\ x.own[j] = w.own[j] /\ j # h
    BY <1>1, <1>3, <1>9, SameFields DEF Gained
  <2>2. NewOwn(human) = NewHuman
    BY <1>1 DEF NewOwn, Closet, Breakable, Projectile, Gun, Wall
  <2>3. ~x.own[h].dead /\ \A u \in Slot : x.own[h].slot[u] = None
    <3>1. x.own[h] = NewHuman
      BY <2>1, <2>2
    <3>2. ~NewHuman.dead
      BY DEF NewHuman
    <3>3. \A u \in Slot : NewHuman.slot[u] = None
      BY DEF NewHuman, Kept
    <3> QED BY <3>1, <3>2, <3>3
  <2>4. Naked(w, x, h)
    BY <1>3, <1>9, <2>1, <2>3 DEF Naked, IsHuman, Unminded
  <2>5. \A m \in 0 + 1 .. n : x.own[h].slot[s[m][1]] = None
    BY <1>5, <2>3
  <2> QED BY <1>3, <1>7, <2>4, <2>5 DEF DressKnows
<1>11. \A k \in 0 .. n - 1 : \A y : DressKnows(c, k, y) => DressKnows(c, k + 1, EquipOp(c, y, s[k + 1]))
  <2> SUFFICES ASSUME NEW k \in 0 .. n - 1, NEW y, DressKnows(c, k, y)
               PROVE  DressKnows(c, k + 1, EquipOp(c, y, s[k + 1]))
    OBVIOUS
  <2>1. k \in Nat /\ k < c.n
    BY <1>7
  <2> QED BY <1>7, <1>8, <2>1, DressStep
<1>12. DressKnows(c, n, DressFold!Folded(c, x, s))
  BY <1>5, <1>10, <1>11, DressFold!FoldKeeps
<1>13. v = DressFold!Folded(c, x, s)
  BY <1>1, <1>7, DressedIsFold
<1> QED BY <1>7, <1>12, <1>13 DEF DressKnows

\* The middle of the map is a tile.
LEMMA MiddleIsTile == At(Width \div 2, Height \div 2) \in Tile
<1>1. PICK x, y : x = Width \div 2 /\ y = Height \div 2
  OBVIOUS
<1>2. Width \in Nat \ {0} /\ Height \in Nat \ {0}
  BY MapAssumption
<1>3. x \in 0 .. Width - 1 /\ y \in 0 .. Height - 1
  BY <1>1, <1>2
<1>4. 1 + x + Width * y \in 1 .. Width * Height
  <2>1. Width * y \in Nat /\ Width * Height = Width * y + Width * (Height - y)
    BY <1>2, <1>3
  <2>2. Width * (Height - y) >= Width
    BY <1>2, <1>3
  <2> QED BY <1>2, <1>3, <2>1, <2>2
<1> QED BY <1>1, <1>4 DEF At, Tile

\* A login that becomes a human keeps the invariant.
LEMMA LoginClickGood ==
  ASSUME NEW r, NEW w, Good(r, w), NEW l \in DOMAIN w.obj, w.obj[l].kind = "loginmob"
  PROVE  Good(r, LoginClick(w, l))
<1>1. PICK h, x, t : h = NewId(w) /\ x = Dressed(w) /\ t = At(Width \div 2, Height \div 2)
  OBVIOUS
<1>2. Good(r, x) /\ Naked(w, x, h)
  BY <1>1, DressedGood
<1>3. t \in Tile
  BY <1>1, MiddleIsTile
<1>4. PICK y : y = AddTo(x, t, h)
  OBVIOUS
<1>5. AddObject(x, t, h) = y
  BY <1>3, <1>4 DEF AddObject, Takes, Container
<1>6. h \in DOMAIN x.obj /\ x.obj[h].kind = "human" /\ x.obj[h].owner = None
  BY <1>2 DEF Naked, IsHuman
<1>7. x.obj[h].kind \in Suits(t)
  BY <1>3, <1>6 DEF Suits, Kind, Movable, Mob, Turf, Wall
<1>8. PICK A, N : A = {h} /\ N = {}
  OBVIOUS
<1>9. Sane(A, N, r, x)
  <2>1. Sane(Nil, N, r, x)
    BY <1>2, <1>8 DEF Good, Nil
  <2>2. Sane(Nil \cup {h}, N, r, x)
    BY <1>6, <2>1, Unplaced
  <2>3. Nil \cup {h} = A
    BY <1>8 DEF Nil
  <2> QED BY <2>2, <2>3
<1>10. Sane({}, N, r, y) /\ Stored(x, h, t, y)
  BY <1>3, <1>4, <1>6, <1>7, <1>8, <1>9, AddedSane
<1>11. Good(r, y)
  BY <1>8, <1>10 DEF Good, Nil
<1>12. y.own = x.own /\ y.mind = x.mind /\ y.obj = OwnerSet(x, h, t)
  BY <1>10, SameFields DEF Stored
<1>13. /\ h \in DOMAIN y.obj /\ y.obj[h].kind = "human" /\ ~y.own[h].dead /\ Unminded(y, h)
       /\ l \in DOMAIN y.obj /\ y.obj[l].kind = "loginmob"
  <2>1. Objects(x)
    BY <1>2, GoodForms DEF Formed
  <2>2. DOMAIN y.obj = DOMAIN x.obj /\ \A j \in DOMAIN x.obj : y.obj[j].kind = x.obj[j].kind
    BY <1>6, <1>12, <2>1, OwnerSetIs
  <2> QED BY <1>2, <1>6, <1>12, <2>2 DEF Naked, Unminded
<1>14. PICK z : z = MoveMindTo(y, l, h)
  OBVIOUS
<1>15. Good(r, z) /\ z.obj = y.obj /\ Unminded(z, l)
  <2>1. y.obj[h].kind \in Mob
    BY <1>13 DEF Mob
  <2> QED BY <1>11, <1>13, <1>14, <2>1, MoveMindGood
<1>16. Good(r, DeleteMob(z, l))
  <2>1. z.obj[l].kind \in {"ghost", "loginmob"} /\ l \in DOMAIN z.obj
    BY <1>13, <1>15
  <2> QED BY <1>15, <2>1, DeleteMobGood
<1> QED BY <1>1, <1>5, <1>14, <1>16 DEF LoginClick

\* Any message of a mob keeps the invariant.
LEMMA MobMessageFine ==
  ASSUME NEW r, NEW w, Good(r, w), NEW i \in DOMAIN w.obj, w.obj[i].kind \in Mob, NEW m
  PROVE  Fine(r, MobMessage(w, i, m))
<1>1. KindOf(w, i) = w.obj[i].kind
  BY GoodForms
<1>2. CASE w.obj[i].kind = "human"
  <2>1. Fine(r, HumanMessage(w, i, m))
    BY <1>2, HumanMessageFine DEF IsHuman
  <2> QED BY <1>1, <1>2, <2>1 DEF MobMessage, Is
<1>3. CASE w.obj[i].kind = "loginmob"
  <2>1. Fine(r, LoginClick(w, i)) /\ Fine(r, w)
    BY <1>3, LoginClickGood, GoodFine
  <2> QED BY <1>1, <1>3, <2>1 DEF MobMessage, Is
<1>4. CASE w.obj[i].kind = "ghost"
  <2>1. Fine(r, w)
    BY GoodFine
  <2>2. m.key \in Dir => Fine(r, TryMove(w, i, m.key).w)
    <3>1. ASSUME NEW d \in Dir PROVE Fine(r, TryMove(w, i, d).w)
      <4>1. PICK a : a = TryMove(w, i, d)
        OBVIOUS
      <4>2. w.obj[i].kind \in Movable
        BY <1>4 DEF Movable, Mob
      <4> QED BY <4>1, <4>2, TryMoveGood, GoodFine
    <3> QED BY <3>1
  <2> QED BY <1>1, <1>4, <2>1, <2>2 DEF MobMessage, Is
<1> QED BY <1>2, <1>3, <1>4 DEF Mob

\* Any message of a player keeps the invariant.
LEMMA PlayerMessageFine ==
  ASSUME NEW r, NEW w, Good(r, w), NEW p \in Player, NEW m
  PROVE  Fine(r, PlayerMessage(w, p, m))
<1>1. PICK i : i = w.mind[p]
  OBVIOUS
<1>2. CASE IsValid(w, i)
  <2>1. i \in DOMAIN w.obj /\ i # None
    BY <1>2, GoodForms DEF IsValid
  <2>2. w.obj[i].kind \in Mob
    <3>1. Minds(w)
      BY DEF Good, Sane, Sound, Nearly
    <3> QED BY <1>1, <2>1, <3>1 DEF Minds
  <2> QED BY <1>1, <1>2, <2>1, <2>2, MobMessageFine DEF PlayerMessage
<1>3. CASE ~IsValid(w, i)
  <2>1. PICK why : why = "Game object is not valid"
    OBVIOUS
  <2>2. Good(r, Fail(w, why))
    BY FailSane DEF Good
  <2> QED BY <1>1, <1>3, <2>1, <2>2, GoodFine DEF PlayerMessage
<1> QED BY <1>2, <1>3

-----------------------------------------------------------------------------
(* The steps of the world.                                                 *)

\* Nothing is taken to another place.
Rests(w, v) ==
  /\ v.tick = w.tick
  /\ \A j \in DOMAIN v.obj : j \in DOMAIN w.obj \/ j > w.last
  /\ \A j \in DOMAIN w.obj : j \in DOMAIN v.obj => v.obj[j].owner = w.obj[j].owner

\* Taking apart moves nothing that remains.
LEMMA TakeApartRests ==
  ASSUME NEW r, NEW w, Good(r, w), NEW i \in DOMAIN w.obj, w.obj[i].kind \in Breakable,
         NEW v, v = TakeApart(w, i)
  PROVE  \A j \in DOMAIN w.obj : j \in DOMAIN v.obj => v.obj[j].owner = w.obj[j].owner
<1>1. PICK x : x = IF HasBars(w, i) THEN LoseBars(w, i) ELSE w
  OBVIOUS
<1>2. KindOf(w, i) = w.obj[i].kind
  BY GoodForms
<1>3. Good(r, x) /\ Twins(w, x)
  <2>1. CASE HasBars(w, i)
    <3>1. w.obj[i].kind = "grille"
      BY <1>2, <2>1 DEF HasBars, Is
    <3> QED BY <1>1, <2>1, <3>1, LoseBarsGood
  <2>2. CASE ~HasBars(w, i)
    BY <1>1, <2>2 DEF Twins
  <2> QED BY <2>1, <2>2
<1>4. PICK k : k = Piece(w, i)
  OBVIOUS
<1>5. PlainAt(k, Owner(w, i))
  BY <1>4 DEF Piece, PlainAt, Plain, Rooted, Projectile, Kind, Turf, Wall, Closet, Movable, Item
<1>6. PICK y : y = Create(x, k, Owner(w, i))
  OBVIOUS
<1>7. Good(r, y) /\ Gained(x, y, NewId(x), k)
  BY <1>3, <1>5, <1>6, CreateGood
<1>8. i \in DOMAIN x.obj /\ x.obj[i].kind \in Breakable
  BY <1>3 DEF Twins
<1>9. i \in DOMAIN y.obj /\ y.obj[i].kind \in Breakable
  BY <1>7, <1>8 DEF Gained
<1>10. v = y \/ v = DeleteObject(y, i)
  BY <1>1, <1>4, <1>6 DEF TakeApart, Fall
<1>11. Mortal(y.obj[i].kind) /\ y.obj[i].kind \notin Mob
  BY <1>9 DEF Mortal, Breakable, Wall, Closet, Mob
<1>12. i # None
  BY GoodForms
<1>13. Unminded(y, i)
  BY <1>7, <1>11, <1>12, UnmindedGood
<1>14. v = y \/ Deleted(y, i, v)
  BY <1>7, <1>9, <1>10, <1>11, <1>13, DeleteGood
<1>15. \A j \in DOMAIN w.obj : j \in DOMAIN y.obj /\ y.obj[j].owner = w.obj[j].owner
  BY <1>3, <1>7 DEF Twins, Gained
<1> QED BY <1>14, <1>15 DEF Deleted

\* A force that is applied moves nothing.
LEMMA ApplyForceRests ==
  ASSUME NEW r, NEW w, Good(r, w), NEW i \in DOMAIN w.obj, w.obj[i].kind \in Movable, NEW f \in Vector,
         NEW v, v = ApplyForce(w, i, f)
  PROVE  Rests(w, v)
<1>1. Good(w, w)
  BY SaneStart DEF Good, Sane
<1>2. Good(w, v)
  BY <1>1, ApplyForceGood
<1>3. v.tick = w.tick /\ \A j \in DOMAIN v.obj : j \in DOMAIN w.obj \/ j > w.last
  BY <1>2 DEF Good, Sane, Since, Remains
<1>4. KindOf(w, i) = w.obj[i].kind /\ DOMAIN w = Members /\ w.obj[i] \in Object
  BY GoodForms
<1>5. CASE Is(w, i, {"glass"}) /\ AtLeast(f.x, f.y) > BORDERLINE
  <2>1. w.obj[i].kind \in Breakable
    BY <1>4, <1>5 DEF Is, Breakable
  <2>2. PICK x, n : n = 7 /\ x = [w EXCEPT !.own[i].hit_points = n]
    OBVIOUS
  <2>3. Good(r, x) /\ x.obj = w.obj
    BY <2>1, <2>2, HitPointsGood
  <2>4. v = TakeApart(x, i)
    BY <1>5, <2>2 DEF ApplyForce, Break
  <2> QED BY <1>3, <2>1, <2>3, <2>4, TakeApartRests DEF Rests
<1>6. CASE ~(Is(w, i, {"glass"}) /\ AtLeast(f.x, f.y) > BORDERLINE)
  <2>1. CASE IsZero(f)
    <3>1. v = w
      BY <1>6, <2>1 DEF ApplyForce
    <3> QED BY <3>1 DEF Rests
  <2>2. CASE ~IsZero(f)
    <3>1. PICK q, m : q = Queued(w, i, f) /\ m = Pushed(w.obj[i].motion, f)
      OBVIOUS
    <3>2. q.obj = w.obj /\ DOMAIN q = Members
      BY <1>4, <3>1 DEF Queued, Members
    <3>3. v = [q EXCEPT !.obj[i].motion = m]
      BY <1>4, <1>6, <2>2, <3>1, <3>2 DEF ApplyForce, Members, Object
    <3>4. \A j \in DOMAIN w.obj : v.obj[j].owner = w.obj[j].owner
      BY <1>4, <3>2, <3>3 DEF Members, Object
    <3> QED BY <1>3, <3>4 DEF Rests
  <2> QED BY <2>1, <2>2
<1> QED BY <1>5, <1>6

\* A gust moves nothing: it applies forces.
LEMMA GustRests ==
  ASSUME NEW r, NEW w, Good(r, w), NEW g, IsGust(g), NEW v, v = Gust(w, g)
  PROVE  Rests(w, v)
<1>1. PICK i, f, e, inside : i = Topmost(w, g.tile) /\ f = StepForce(g.way) /\ e = Times(g.strength, f)
                             /\ inside = (g.how = "inside")
  OBVIOUS
<1>2. f \in Vector /\ e \in Vector
  BY <1>1, VectorTypes DEF IsGust
<1>3. PICK hit : hit = InTheWay(w, g.tile, inside, VDirToDir(e), AIR)
  OBVIOUS
<1>4. Rests(w, w)
  BY DEF Rests
<1>5. PICK x, y : x = ApplyForce(w, i, f) /\ y = ApplyForce(w, hit, e)
  OBVIOUS
<1>6. (Is(w, i, Movable) => Rests(w, x)) /\ (Is(w, hit, Movable) => Rests(w, y))
  BY <1>2, <1>5, IsMovable, ApplyForceRests
<1>7. BumpByGas(w, g.tile, e, inside) = IF Is(w, hit, Movable) THEN y ELSE w
  BY <1>3, <1>5 DEF BumpByGas
<1>8. CASE g.how = "flow"
  BY <1>1, <1>4, <1>5, <1>6, <1>8 DEF Gust
<1>9. CASE g.how # "flow"
  <2>1. v = BumpByGas(w, g.tile, e, inside) \/ v = w
    BY <1>1, <1>9 DEF Gust
  <2> QED BY <1>4, <1>6, <1>7, <2>1
<1> QED BY <1>8, <1>9

\* Strides stay single through what moves nothing.
LEMMA StridesRest ==
  ASSUME NEW r, NEW w, Strides(r, w), r.last <= w.last, Formed(r), Formed(w), NEW v, Rests(w, v)
  PROVE  Strides(r, v)
<1> SUFFICES ASSUME NEW j \in (DOMAIN r.obj) \cap DOMAIN v.obj, r.obj[j].kind \notin Projectile PROVE Strode(r, v, j)
  BY DEF Strides
<1>1. j \in DOMAIN w.obj
  <2>1. j \in Nat /\ j <= r.last /\ r.last \in Nat /\ w.last \in Nat
    BY MapAssumption DEF Formed, Objects, Counted
  <2>2. ~(j > w.last)
    BY <2>1
  <2> QED BY <2>2 DEF Rests
<1>2. Strode(r, w, j) /\ v.obj[j].owner = w.obj[j].owner /\ v.tick = w.tick
  BY <1>1 DEF Strides, Rests
<1> QED BY <1>2 DEF Strode

\* A tick with or without a gust.
LEMMA BlownStep ==
  ASSUME NEW w, Sound(Nil, Nil, w), NEW g, IsGust(g), NEW v, v = Ticked(w) \/ v = Gust(Ticked(w), g)
  PROVE  Sound(Nil, Nil, v) /\ Strides(w, v)
<1>1. PICK x : x = Ticked(w)
  OBVIOUS
<1>2. Sound(Nil, Nil, x) /\ Strides(w, x) /\ w.last <= x.last
  BY <1>1, TickedGood
<1>3. Good(x, x)
  BY <1>2, SaneStart DEF Good
<1>4. CASE v = Gust(x, g)
  <2>1. Good(x, v)
    BY <1>3, <1>4, GustGood
  <2>2. Rests(x, v)
    BY <1>3, <1>4, GustRests
  <2>3. Formed(w) /\ Formed(x)
    BY <1>2 DEF Sound, Nearly
  <2> QED BY <1>2, <2>1, <2>2, <2>3, StridesRest, GoodStrides
<1>5. CASE v = x
  BY <1>2, <1>5
<1> QED BY <1>1, <1>4, <1>5

\* The next chances are in no part of the invariant.
LEMMA ChanceSet ==
  ASSUME NEW w, Sound(Nil, Nil, w), NEW c \in Chance, NEW v, v = [w EXCEPT !.chance = c]
  PROVE  Sound(Nil, Nil, v) /\ v.obj = w.obj /\ v.tick = w.tick
<1>1. DOMAIN w = Members /\ w.tick \in Nat /\ Queues(w) /\ Forces(w)
  BY DEF Sound, Nearly, Formed, Counted
<1>2. Only({"chance"}, w, v) /\ v.chance = c
  BY <1>1 DEF Only, Members
<1>3. /\ v.obj = w.obj /\ v.to_add = w.to_add /\ v.under_force = w.under_force
      /\ v.tick = w.tick /\ v.last = w.last /\ v.list = w.list
  BY <1>2, SameFields
<1>4. Queues(v) /\ Forces(v)
  BY <1>1, <1>2, <1>3 DEF Queues, Forces
<1>5. Only({"list", "to_add", "under_force", "chance", "failed", "lobby", "env", "tick"}, w, v)
  BY <1>2 DEF Only
<1>6. v.tick \in Nat /\ w.tick <= v.tick
  BY <1>1, <1>3
<1> QED BY <1>3, <1>4, <1>5, <1>6, ScalarSound

\* A message as a step of the loop.
LEMMA ActedStep ==
  ASSUME NEW w, Sound(Nil, Nil, w), NEW p \in Player, NEW m, NEW c \in Chance, NEW v, v = Acted(w, p, m, c)
  PROVE  Sound(Nil, Nil, v) /\ Strides(w, v)
<1>1. PICK x : x = [w EXCEPT !.chance = c]
  OBVIOUS
<1>2. Sound(Nil, Nil, x) /\ x.obj = w.obj
  BY <1>1, ChanceSet
<1>3. Good(x, x)
  BY <1>2, SaneStart DEF Good
<1>4. PICK y : y = PlayerMessage(x, p, m)
  OBVIOUS
<1>5. Sound(Nil, Nil, y) /\ Strides(x, y)
  BY <1>3, <1>4, PlayerMessageFine DEF Fine
<1>6. PICK n : n = NoChance
  OBVIOUS
<1>7. n \in Chance
  BY <1>6 DEF NoChance, Chance, Dir, Outfit
<1>8. v = [y EXCEPT !.chance = n]
  BY <1>1, <1>4, <1>6 DEF Acted
<1>9. Sound(Nil, Nil, v) /\ v.obj = y.obj /\ v.tick = y.tick
  BY <1>5, <1>7, <1>8, ChanceSet
<1>10. Strides(x, v)
  BY <1>5, <1>9, StridesOf
<1> QED BY <1>2, <1>9, <1>10, StridesLater

-----------------------------------------------------------------------------
(* The start: a map that is read, thing by thing.                          *)

\* What has no right shape before its AfterWorldCreation.
Unfinished == Wall \cup {"glass", "glassdoor"}
Raw(w) == Tile \cup {i \in DOMAIN w.obj : w.obj[i].kind \in Unfinished}

\* The world before anything is on it, with the flags that empty tiles have later.
Bare(env) == [Void(env) EXCEPT !.flags = [t \in Tile |-> {"no_objects"}]]

\* The world before anything is loaded.
LEMMA VoidIs ==
  ASSUME NEW env, NEW w, w = Void(env)
  PROVE  /\ w.obj = <<>> /\ w.own = <<>> /\ w.content = [t \in Tile |-> <<>>] /\ w.turf = [t \in Tile |-> None]
         /\ w.sum = [t \in Tile |-> [v \in Way |-> FULL]] /\ w.flags = [t \in Tile |-> {}]
         /\ w.tick = 0 /\ w.last = Width * Height /\ w.list = <<>> /\ w.to_add = <<>> /\ w.under_force = <<>>
         /\ w.chance = NoChance /\ w.mind = [p \in Player |-> None] /\ w.music = [p \in Player |-> Unheard]
         /\ DOMAIN w = Members /\ w = [m \in Members |-> w[m]]
BY KeptIs DEF Void, Members

\* The same world with the flags of empty tiles.
LEMMA BareIs ==
  ASSUME NEW env, NEW w, w = Bare(env)
  PROVE  /\ w.obj = <<>> /\ w.own = <<>> /\ w.content = [t \in Tile |-> <<>>] /\ w.turf = [t \in Tile |-> None]
         /\ w.sum = [t \in Tile |-> [v \in Way |-> FULL]] /\ w.flags = [t \in Tile |-> {"no_objects"}]
         /\ w.tick = 0 /\ w.last = Width * Height /\ w.list = <<>> /\ w.to_add = <<>> /\ w.under_force = <<>>
         /\ w.chance = NoChance /\ w.mind = [p \in Player |-> None] /\ w.music = [p \in Player |-> Unheard]
         /\ DOMAIN w = Members /\ Only({"flags"}, Void(env), w)
<1>1. PICK v : v = Void(env)
  OBVIOUS
<1>2. DOMAIN v = Members /\ v = [m \in Members |-> v[m]]
  BY <1>1, VoidIs
<1>3. w = [v EXCEPT !.flags = [t \in Tile |-> {"no_objects"}]]
  BY <1>1 DEF Bare
<1>4. Only({"flags"}, v, w) /\ w.flags = [t \in Tile |-> {"no_objects"}]
  BY <1>2, <1>3 DEF Only, Members
<1> QED BY <1>1, <1>4, VoidIs, SameFields

\* It is sound: nothing is in it.
LEMMA BareSound ==
  ASSUME NEW env, NEW w, w = Bare(env)
  PROVE  Sound(Nil, Raw(w), w)
<1>1. /\ w.obj = <<>> /\ w.own = <<>> /\ w.content = [t \in Tile |-> <<>>] /\ w.turf = [t \in Tile |-> None]
      /\ w.sum = [t \in Tile |-> [v \in Way |-> FULL]] /\ w.flags = [t \in Tile |-> {"no_objects"}]
      /\ w.tick = 0 /\ w.last = Width * Height /\ w.list = <<>> /\ w.to_add = <<>> /\ w.under_force = <<>>
      /\ w.chance = NoChance /\ w.mind = [p \in Player |-> None] /\ w.music = [p \in Player |-> Unheard]
      /\ DOMAIN w = Members
  BY BareIs
<1>2. DOMAIN w.obj = {} /\ w.obj = [i \in DOMAIN w.obj |-> w.obj[i]] /\ w.own = [i \in DOMAIN w.obj |-> w.own[i]]
  BY <1>1
<1>3. Width * Height \in Nat
  BY MapAssumption
<1>4. Counted(w)
  BY <1>1, <1>3 DEF Counted
<1>5. Objects(w) /\ Owned(w)
  BY <1>2 DEF Objects, Owned
<1>6. Contents(w)
  BY <1>1, <1>2 DEF Contents
<1>7. Grid(w)
  BY <1>1, LevelIsInt DEF Grid, None
<1>8. w.chance \in Chance
  BY <1>1 DEF Chance, NoChance, Dir, Outfit
<1>9. Queues(w)
  BY <1>1, <1>8 DEF Queues
<1>10. Settled(Nil, w)
  BY <1>1, <1>2 DEF Settled, OnTiles, InContents, InSlots, Homed
<1>11. Forces(w)
  BY <1>1, <1>2 DEF Forces
<1>12. Sums(None, w)
  <2> SUFFICES ASSUME NEW t \in Tile PROVE SumAt(w, t)
    BY DEF Sums
  <2>1. Standing(w, t) = {}
    BY <1>1 DEF Standing, ToSet
  <2>2. \A v \in Way : {FULL} \cup {w.obj[i].pass[v] : i \in Standing(w, t)} = {FULL}
    BY <2>1
  <2>3. Least({FULL}) = FULL
    BY LeastIs, LevelIsInt
  <2>4. Summed(w, t) = [v \in Way |-> FULL]
    BY <2>2, <2>3, KeptIs DEF Summed
  <2>5. PICK s : s = w.sum[t]
    OBVIOUS
  <2>6. s = [v \in Way |-> FULL] /\ w.turf[t] = None /\ w.content[t] = <<>>
    BY <1>1, <2>5
  <2>7. CanPass(FULL, AIR)
    BY DEF CanPass, FULL, AIR
  <2>8. AtmosFlags(w, t, s) = {"no_objects"}
    BY <2>6, <2>7 DEF AtmosFlags
  <2> QED BY <1>1, <2>4, <2>5, <2>6, <2>8 DEF SumAt
<1>13. Shapes(Raw(w), w) /\ Walls(Raw(w), w)
  BY <1>2 DEF Shapes, Walls
<1>14. Minds(w)
  BY <1>1 DEF Minds, None, Unheard, LOBBY_MUSIC
<1> QED BY <1>4, <1>5, <1>6, <1>7, <1>9, <1>10, <1>11, <1>12, <1>13, <1>14 DEF Sound, Nearly, Formed

\* A new object is there and has its direction.
Headed(w, kind, d) == [Allocate(w, kind) EXCEPT !.obj[NewId(w)].dir = d]

Facing(w, y, i, kind, d) ==
  /\ Only({"obj", "own", "content", "last"}, w, y)
  /\ DOMAIN y.obj = (DOMAIN w.obj) \cup {i} /\ i \notin DOMAIN w.obj /\ i \notin Tile /\ i # None /\ i # Hand
  /\ \A j \in DOMAIN w.obj : y.obj[j] = w.obj[j] /\ y.own[j] = w.own[j]
  /\ y.obj[i] = [New(kind) EXCEPT !.dir = d] /\ y.own[i] = NewOwn(kind)

\* What is not begun yet stays so while a map is loaded.
LEMMA RawGrows ==
  ASSUME NEW w, NEW y, NEW i, NEW kind, NEW d, Facing(w, y, i, kind, d), kind \in Kind
  PROVE  Raw(w) \subseteq Raw(y) /\ (kind \in Unfinished => i \in Raw(y))
<1>1. y.obj[i].kind = kind
  <2>1. New(kind) = [k \in DOMAIN New(kind) |-> New(kind)[k]]
    BY DEF New
  <2>2. New(kind).kind = kind
    BY NewIs
  <2> QED BY <2>1, <2>2 DEF Facing
<1> QED BY <1>1 DEF Facing, Raw

\* A new object that faces a direction keeps the invariant but for itself.
LEMMA AimedSane ==
  ASSUME NEW N, N = {}, NEW U, NEW r, NEW w, Sane(N, U, r, w), U = Raw(w), NEW kind \in Kind, NEW d \in Dir,
         NEW i, i = NewId(w), NEW y, y = Headed(w, kind, d)
  PROVE  Sane({i}, Raw(y), r, y) /\ Facing(w, y, i, kind, d) /\ y.obj[i].owner = None /\ y.obj[i].kind = kind
<1>1. PICK x : x = Allocate(w, kind)
  OBVIOUS
<1>2. /\ OneMore(w, x, i, kind) /\ Sane({i}, U \cup {i}, r, x)
      /\ kind \notin Wall \cup {"glass", "glassdoor"} => Sane({i}, U, r, x)
  BY <1>1, AllocateSane
<1>3. PICK A : A = {i}
  OBVIOUS
<1>4. PICK V : V = U \cup (IF kind \in Unfinished THEN {i} ELSE {})
  OBVIOUS
<1>5. Sane(A, V, r, x)
  <2>1. CASE kind \in Unfinished
    BY <1>2, <1>3, <1>4, <2>1
  <2>2. CASE kind \notin Unfinished
    BY <1>2, <1>3, <1>4, <2>2 DEF Unfinished
  <2> QED BY <2>1, <2>2
<1>6. i = w.last + 1 /\ DOMAIN w.own = DOMAIN w.obj
  BY SaneForms DEF NewId
<1>7. i \notin DOMAIN w.obj
  BY <1>6, NewId_Fresh
<1>8. /\ i \in DOMAIN x.obj /\ x.obj[i] = New(kind) /\ x.own[i] = NewOwn(kind) /\ DOMAIN x.obj = (DOMAIN w.obj) \cup {i}
      /\ \A j \in DOMAIN w.obj : x.obj[j] = w.obj[j] /\ x.own[j] = w.own[j]
      /\ Only({"obj", "own", "content", "last"}, w, x)
  BY <1>2, <1>6, <1>7 DEF OneMore
<1>9. /\ x.obj[i] \in Object /\ i \notin Tile /\ i # None /\ i # Hand /\ DOMAIN x = Members
      /\ x.obj[i].kind = "glassdoor" => x.obj[i].anchored
  BY <1>5, <1>8, SaneForms
<1>10. x.obj[i].kind = kind /\ x.obj[i].owner = None /\ IsZero(x.obj[i].motion.force)
  BY <1>8, NewIs
<1>11. PICK o : o = [x.obj[i] EXCEPT !.dir = d]
  OBVIOUS
<1>12. /\ o \in Object /\ o.kind = kind /\ o.owner = None /\ o.pass = x.obj[i].pass /\ o.motion = x.obj[i].motion
       /\ o.last_move = x.obj[i].last_move /\ o.anchored = x.obj[i].anchored
  BY <1>9, <1>10, <1>11 DEF Object
<1>13. y = [x EXCEPT !.obj = ObjsSet(x, i, o)]
  BY <1>1, <1>8, <1>9, <1>11 DEF Headed, ObjsSet, Members
<1>14. Only({"obj"}, x, y) /\ y.obj = ObjsSet(x, i, o)
  BY <1>9, <1>13 DEF Only, Members
<1>15. ObjFine(x, x, i, o)
  BY <1>9, <1>10, <1>12 DEF ObjFine, Forceful
<1>16. i \notin V => ShapeFits(x.obj[i].kind, o.pass, o.dir, x.own[i])
  <2> SUFFICES ASSUME i \notin V PROVE ShapeFits(x.obj[i].kind, o.pass, o.dir, x.own[i])
    OBVIOUS
  <2>1. kind \notin Unfinished
    BY <1>4
  <2>2. Shaped(x, i)
    BY <1>8, <2>1, NewShaped DEF Unfinished
  <2> QED BY <1>10, <1>12, <2>1, <2>2 DEF Shaped, ShapeFits, Unfinished
<1>17. Sane(A, V, r, y)
  BY <1>5, <1>8, <1>14, <1>15, <1>16, ObjStep
<1>18. y.obj[i] = o /\ DOMAIN y.obj = DOMAIN x.obj /\ (\A j \in DOMAIN x.obj : j # i => y.obj[j] = x.obj[j]) /\ y.own = x.own
  BY <1>8, <1>14, SameFields DEF ObjsSet
<1>19. Facing(w, y, i, kind, d)
  <2>1. Only({"obj", "own", "content", "last"}, w, y)
    BY <1>8, <1>14 DEF Only
  <2>2. y.obj[i] = [New(kind) EXCEPT !.dir = d]
    BY <1>8, <1>11, <1>18
  <2> QED BY <1>7, <1>8, <1>9, <1>18, <2>1, <2>2 DEF Facing
<1>20. Raw(w) \subseteq Raw(y) /\ (kind \in Unfinished => i \in Raw(y))
  BY <1>19, RawGrows
<1>21. V \subseteq Raw(y)
  BY <1>4, <1>20
<1>22. Sane(A, Raw(y), r, y)
  BY <1>17, <1>21, LooseSane
<1> QED BY <1>3, <1>12, <1>18, <1>19, <1>22

\* A window and a glass door are as they were made until their AfterWorldCreation.
Unworn(w) ==
  \A j \in DOMAIN w.obj : w.obj[j].kind \in {"glass", "glassdoor"} =>
    w.obj[j].pass = New(w.obj[j].kind).pass /\ w.own[j] = NewOwn(w.obj[j].kind)

\* A new owner begins nothing and alters no pane of glass.
LEMMA OwnerSetAlike ==
  ASSUME NEW w, Formed(w), NEW i \in DOMAIN w.obj, NEW c, NEW v, v.obj = OwnerSet(w, i, c), v.own = w.own
  PROVE  Raw(v) = Raw(w) /\ (Unworn(w) => Unworn(v))
<1>1. w.obj[i] \in Object
  BY DEF Formed, Objects
<1>2. /\ DOMAIN v.obj = DOMAIN w.obj
      /\ \A j \in DOMAIN w.obj : v.obj[j].kind = w.obj[j].kind /\ v.obj[j].pass = w.obj[j].pass
  BY <1>1 DEF OwnerSet, Object
<1> QED BY <1>2 DEF Raw, Unworn

\* A new pane of glass is as it was made.
LEMMA FacingUnworn ==
  ASSUME NEW w, Unworn(w), NEW kind \in Kind, NEW d, NEW i, NEW y, Facing(w, y, i, kind, d)
  PROVE  Unworn(y)
<1>1. New(kind) = [k \in DOMAIN New(kind) |-> New(kind)[k]]
  BY DEF New
<1>2. y.obj[i].kind = kind /\ y.obj[i].pass = New(kind).pass /\ y.own[i] = NewOwn(kind)
  BY <1>1, NewIs DEF Facing
<1> QED BY <1>2 DEF Facing, Unworn

\* One thing that is loaded keeps the invariant but for what is not begun.
LEMMA LoadedSound ==
  ASSUME NEW w, Sound(Nil, Raw(w), w), Unworn(w), NEW kind \in Kind, NEW t \in Tile, NEW d \in Dir,
         kind \in Turf => w.turf[t] = None, NEW thing, thing = <<kind, t, d>>, NEW v, v = Loaded(w, thing)
  PROVE  /\ Sound(Nil, Raw(v), v) /\ Unworn(v)
         /\ \A u \in Tile : v.turf[u] = IF kind \in Turf /\ u = t THEN NewId(w) ELSE w.turf[u]
<1>1. PICK i, y, U, A : i = NewId(w) /\ y = Headed(w, kind, d) /\ U = Raw(w) /\ A = {i}
  OBVIOUS
<1>2. Sane(Nil, U, w, w)
  BY <1>1, SaneStart
<1>3. Sane({i}, Raw(y), w, y) /\ Facing(w, y, i, kind, d) /\ y.obj[i].owner = None /\ y.obj[i].kind = kind
  BY <1>1, <1>2, AimedSane DEF Nil
<1>4. Unworn(y)
  BY <1>3, FacingUnworn
<1>5. v = Placed(y, i, t)
  BY <1>1 DEF Loaded, Headed
<1>6. i \in DOMAIN y.obj /\ i # Hand /\ i # None /\ y.turf = w.turf /\ i \notin Tile
  BY <1>3, SameFields DEF Facing
<1>7. PICK V : V = Raw(y)
  OBVIOUS
<1>8. Sane(A, V, w, y) /\ Tile \subseteq V /\ (kind \in Wall => i \in V)
  BY <1>1, <1>3, <1>6, <1>7 DEF Raw, Unfinished
<1>9. Formed(y) /\ Grid(y)
  BY <1>8 DEF Sane, Sound, Nearly, Formed
<1>10. KindOf(y, i) = kind
  BY <1>3, <1>6 DEF KindOf, IsValid
<1>11. CASE kind \in Turf
  <2>1. v = SetTurf(y, t, i)
    BY <1>5, <1>10, <1>11 DEF Placed, Is
  <2>2. PICK B : B = (A \cup {y.turf[t]}) \ {i}
    OBVIOUS
  <2>3. /\ Sound(B, V, v) /\ Only({"obj", "turf", "sum", "flags"}, y, v)
        /\ v.obj = TurfOwner(y, t, i) /\ v.turf = TurfSet(y, t, i)
    <3>1. Sound(A, V, y)
      BY <1>8 DEF Sane
    <3>2. i \in DOMAIN y.obj /\ i \in A /\ y.obj[i].kind \in Turf /\ y.obj[i].owner \notin Tile
      BY <1>1, <1>3, <1>6, <1>11, NoneIsNoTile
    <3>3. t \in V /\ (Is(y, i, Wall) => i \in V)
      BY <1>8, <1>10 DEF Is
    <3> QED BY <2>1, <2>2, <3>1, <3>2, <3>3, SetTurfSound
  <2>4. B = {None}
    BY <1>1, <1>6, <1>11, <2>2
  <2>5. Sound(Nil, V, v)
    BY <2>3, <2>4, NoneNowhere DEF Nil
  <2>6. v.obj = OwnerSet(y, i, t) /\ v.own = y.own
    BY <1>6, <2>3, SameFields DEF TurfOwner, IsValid
  <2>7. Raw(v) = V /\ Unworn(v)
    BY <1>4, <1>6, <1>7, <1>9, <2>6, OwnerSetAlike
  <2>8. \A u \in Tile : v.turf[u] = IF u = t THEN i ELSE w.turf[u]
    BY <1>6, <1>9, <2>3 DEF TurfSet, Grid
  <2> QED BY <1>1, <1>11, <2>5, <2>7, <2>8
<1>12. CASE kind \notin Turf
  <2>1. Takes(y, t, i) /\ Container(y, t) = t
    BY DEF Takes, Container
  <2>2. v = AddTo(y, t, i)
    BY <1>5, <1>10, <1>12, <2>1 DEF Placed, Is, AddObject
  <2>3. y.obj[i].kind \in Suits(t)
    BY <1>3, <1>12 DEF Suits
  <2>4. Sane(Nil, V, w, v) /\ Stored(y, i, t, v)
    <3>1. Sane({i}, V, w, y)
      BY <1>3, <1>7
    <3> QED BY <1>3, <1>6, <2>2, <2>3, <3>1, AddedSane DEF Nil
  <2>5. v.obj = OwnerSet(y, i, t) /\ v.own = y.own /\ v.turf = y.turf
    BY <2>4, SameFields DEF Stored
  <2>6. Raw(v) = V /\ Unworn(v)
    BY <1>4, <1>6, <1>7, <1>9, <2>5, OwnerSetAlike
  <2> QED BY <1>6, <1>12, <2>4, <2>5, <2>6 DEF Sane
<1> QED BY <1>11, <1>12

\* The flags of a tile are all that a world differs in from another, and of them the same is
\* made by the same thing.
World(w) == w = [m \in Members |-> w[m]]
Flagless(b, a) == Only({"flags"}, b, a) /\ World(a) /\ World(b)
Flagged(a, t, f, x) == x.flags = [a.flags EXCEPT ![t] = f]

\* Loading does not read the flags: creation.
LEMMA AimedAlike ==
  ASSUME NEW a, NEW b, Flagless(b, a), NEW kind, NEW d, NEW x, x = Headed(a, kind, d), NEW y, y = Headed(b, kind, d)
  PROVE  Flagless(y, x) /\ x.flags = a.flags /\ y.flags = b.flags
<1>1. /\ a.obj = b.obj /\ a.own = b.own /\ a.content = b.content /\ a.last = b.last
      /\ DOMAIN a = Members /\ DOMAIN b = Members
  BY SameFields DEF Flagless
<1>2. NewId(a) = NewId(b)
  BY <1>1 DEF NewId
<1>3. PICK i : i = NewId(a)
  OBVIOUS
<1>4. PICK p, q : p = Allocate(a, kind) /\ q = Allocate(b, kind)
  OBVIOUS
<1>5. /\ Only({"obj", "own", "content", "last"}, a, p) /\ Only({"obj", "own", "content", "last"}, b, q)
      /\ p.obj = q.obj /\ p.own = q.own /\ p.content = q.content /\ p.last = q.last /\ World(p) /\ World(q)
  BY <1>1, <1>2, <1>4 DEF Allocate, Only, Members, World, Flagless
<1>6. x = [p EXCEPT !.obj[i].dir = d] /\ y = [q EXCEPT !.obj[i].dir = d]
  BY <1>2, <1>3, <1>4 DEF Headed
<1>9. PICK o : o = [p.obj EXCEPT ![i].dir = d]
  OBVIOUS
<1>10. DOMAIN p = Members /\ DOMAIN q = Members /\ q.obj = p.obj
  BY <1>5 DEF Only
<1>11. x = [p EXCEPT !.obj = o] /\ y = [q EXCEPT !.obj = o]
  BY <1>6, <1>9, <1>10 DEF Members
<1>7. Only({"obj"}, p, x) /\ Only({"obj"}, q, y) /\ x.obj = y.obj /\ World(x) /\ World(y)
  BY <1>5, <1>10, <1>11 DEF Only, Members, World
<1>8. Only({"flags"}, y, x) /\ x.flags = a.flags /\ y.flags = b.flags
  BY <1>5, <1>7 DEF Only, Members, Flagless
<1> QED BY <1>7, <1>8 DEF Flagless

\* Loading does not read the flags: sums.
LEMMA WithSumAlike ==
  ASSUME NEW a, NEW b, Flagless(b, a), NEW t, NEW s, NEW x, x = WithSum(a, t, s), NEW y, y = WithSum(b, t, s),
         NEW f, f = AtmosFlags(b, t, s)
  PROVE  Flagless(y, x) /\ Flagged(a, t, f, x) /\ Flagged(b, t, f, y)
<1>1. a.obj = b.obj /\ a.turf = b.turf /\ a.content = b.content /\ a.sum = b.sum /\ DOMAIN a = Members /\ DOMAIN b = Members
  BY SameFields DEF Flagless
<1>2. AtmosFlags(a, t, s) = AtmosFlags(b, t, s)
  BY <1>1 DEF AtmosFlags
<1>3. /\ Only({"sum", "flags"}, a, x) /\ x.sum = [a.sum EXCEPT ![t] = s]
      /\ x.flags = [a.flags EXCEPT ![t] = AtmosFlags(a, t, s)]
  BY <1>1, WithSumIs
<1>4. /\ Only({"sum", "flags"}, b, y) /\ y.sum = [b.sum EXCEPT ![t] = s]
      /\ y.flags = [b.flags EXCEPT ![t] = AtmosFlags(b, t, s)]
  BY <1>1, WithSumIs
<1>5. World(x) /\ World(y)
  BY DEF WithSum, World, Flagless
<1>6. Only({"flags"}, y, x)
  BY <1>1, <1>3, <1>4 DEF Only, Members, Flagless
<1> QED BY <1>2, <1>3, <1>4, <1>5, <1>6 DEF Flagless, Flagged

\* Loading does not read the flags: contents.
LEMMA PutAlike ==
  ASSUME NEW a, NEW b, Flagless(b, a), NEW c, NEW i, NEW x, x = Put(a, c, i), NEW y, y = Put(b, c, i)
  PROVE  Flagless(y, x) /\ x.flags = a.flags /\ y.flags = b.flags
<1>1. a.obj = b.obj /\ a.content = b.content /\ DOMAIN a = Members /\ DOMAIN b = Members
  BY SameFields DEF Flagless
<1>2. PICK o, e : o = [a.obj EXCEPT ![i].owner = c] /\ e = [a.content EXCEPT ![c] = Append(@, i)]
  OBVIOUS
<1>3. x = [a EXCEPT !.content = e, !.obj = o] /\ y = [b EXCEPT !.content = e, !.obj = o]
  BY <1>1, <1>2 DEF Put, Members
<1> QED BY <1>1, <1>3 DEF Flagless, Only, Members, World

\* Loading does not read the flags: turfs.
LEMMA WithTurfAlike ==
  ASSUME NEW a, NEW b, Flagless(b, a), NEW t, NEW i, NEW x, x = WithTurf(a, t, i), NEW y, y = WithTurf(b, t, i)
  PROVE  Flagless(y, x) /\ x.flags = a.flags /\ y.flags = b.flags
<1>1. IsValid(a, i) = IsValid(b, i) /\ a.obj = b.obj /\ a.turf = b.turf /\ DOMAIN a = Members /\ DOMAIN b = Members
  BY SameFields DEF IsValid, Flagless
<1>2. PICK o, e, f : o = [a.obj EXCEPT ![i].owner = t] /\ e = [a.turf EXCEPT ![t] = i] /\ f = [a.turf EXCEPT ![t] = None]
  OBVIOUS
<1>3. /\ x = IF IsValid(a, i) THEN [a EXCEPT !.turf = e, !.obj = o] ELSE [a EXCEPT !.turf = f]
      /\ y = IF IsValid(a, i) THEN [b EXCEPT !.turf = e, !.obj = o] ELSE [b EXCEPT !.turf = f]
  BY <1>1, <1>2 DEF WithTurf, Members
<1>4. CASE IsValid(a, i)
  <2>1. x = [a EXCEPT !.turf = e, !.obj = o] /\ y = [b EXCEPT !.turf = e, !.obj = o]
    BY <1>3, <1>4
  <2> QED BY <1>1, <2>1 DEF Flagless, Only, Members, World
<1>5. CASE ~IsValid(a, i)
  BY <1>1, <1>3, <1>5 DEF Flagless, Only, Members, World
<1> QED BY <1>4, <1>5

\* One thing that is loaded renews the flags of its tile, whatever they were.
LEMMA LoadedAlike ==
  ASSUME NEW a, NEW b, Flagless(b, a), NEW kind, NEW t \in Tile, NEW d, NEW thing, thing = <<kind, t, d>>,
         NEW x, x = Loaded(a, thing), NEW y, y = Loaded(b, thing)
  PROVE  Flagless(y, x) /\ \E f : Flagged(a, t, f, x) /\ Flagged(b, t, f, y)
<1>1. PICK p, q, i : p = Headed(a, kind, d) /\ q = Headed(b, kind, d) /\ i = NewId(b)
  OBVIOUS
<1>2. Flagless(q, p) /\ p.flags = a.flags /\ q.flags = b.flags
  BY <1>1, AimedAlike
<1>3. p.obj = q.obj /\ p.sum = q.sum
  BY <1>2, SameFields DEF Flagless
<1>4. NewId(a) = i
  BY <1>1, SameFields DEF NewId, Flagless
<1>5. x = Placed(p, i, t) /\ y = Placed(q, i, t)
  BY <1>1, <1>4 DEF Loaded, Headed
<1>6. Is(p, i, Turf) = Is(q, i, Turf)
  BY <1>3 DEF Is, KindOf, IsValid
<1>7. CASE Is(q, i, Turf)
  <2>1. PICK m, n : m = WithTurf(p, t, i) /\ n = WithTurf(q, t, i)
    OBVIOUS
  <2>2. Flagless(n, m) /\ m.flags = p.flags /\ n.flags = q.flags
    BY <1>2, <2>1, WithTurfAlike
  <2>3. x = WithSum(m, t, Summed(m, t)) /\ y = WithSum(n, t, Summed(n, t))
    BY <1>5, <1>6, <1>7, <2>1 DEF Placed, SetTurf, UpdatePassable, WithTurf
  <2>4. Summed(m, t) = Summed(n, t)
    <3>1. m.obj = n.obj /\ m.turf = n.turf /\ m.content = n.content
      BY <2>2, SameFields DEF Flagless
    <3>2. Standing(m, t) = Standing(n, t)
      BY <3>1 DEF Standing
    <3> QED BY <3>1, <3>2, SummedSame
  <2>5. PICK s : s = Summed(n, t)
    OBVIOUS
  <2>6. x = WithSum(m, t, s) /\ y = WithSum(n, t, s)
    BY <2>3, <2>4, <2>5
  <2>8. PICK f : f = AtmosFlags(n, t, s)
    OBVIOUS
  <2>7. Flagless(y, x) /\ Flagged(m, t, f, x) /\ Flagged(n, t, f, y)
    BY <2>2, <2>6, <2>8, WithSumAlike
  <2>9. Flagged(a, t, f, x) /\ Flagged(b, t, f, y)
    BY <1>2, <2>2, <2>7 DEF Flagged
  <2> QED BY <2>7, <2>9
<1>8. CASE ~Is(q, i, Turf)
  <2>1. PICK m, n : m = Put(p, t, i) /\ n = Put(q, t, i)
    OBVIOUS
  <2>2. Flagless(n, m) /\ m.flags = p.flags /\ n.flags = q.flags
    BY <1>2, <2>1, PutAlike
  <2>3. PICK s : s = Kept([v \in Way |-> AtMost(q.sum[t][v], q.obj[i].pass[v])])
    OBVIOUS
  <2>4. x = AddTo(p, t, i) /\ y = AddTo(q, t, i)
    BY <1>5, <1>6, <1>8 DEF Placed, AddObject, Takes, Container
  <2>5. x = WithSum(m, t, s) /\ y = WithSum(n, t, s)
    BY <1>3, <2>1, <2>3, <2>4 DEF AddTo, TileAdd
  <2>8. PICK f : f = AtmosFlags(n, t, s)
    OBVIOUS
  <2>6. Flagless(y, x) /\ Flagged(m, t, f, x) /\ Flagged(n, t, f, y)
    BY <2>2, <2>5, <2>8, WithSumAlike
  <2>9. Flagged(a, t, f, x) /\ Flagged(b, t, f, y)
    BY <1>2, <2>2, <2>6 DEF Flagged
  <2> QED BY <2>6, <2>9
<1> QED BY <1>7, <1>8

TurfOf(c, m, t) == c[m][1] \in Turf /\ c[m][2] = t

\* A map file: one turf on every tile.
Charted(c) ==
  /\ c \in Seq(Kind \X Tile \X Dir)
  /\ \A m, n \in 1 .. Len(c), t \in Tile : TurfOf(c, m, t) /\ TurfOf(c, n, t) => m = n
  /\ \A t \in Tile : \E m \in 1 .. Len(c) : TurfOf(c, m, t)

\* What is read has nothing wrong but the flags of the tiles that have no turf yet.
LoadOp(c, v, x) == Loaded(v, x)
Beside(v, b) ==
  /\ Flagless(b, v) /\ Sound(Nil, Raw(b), b) /\ Unworn(b)
  /\ DOMAIN v.flags = Tile /\ v.flags = [t \in Tile |-> v.flags[t]]
  /\ \A t \in Tile : v.turf[t] # None => v.flags[t] = b.flags[t]
LoadKnows(c, k, v) ==
  /\ \E b : Beside(v, b)
  /\ \A t \in Tile : v.turf[t] # None <=> \E m \in 1 .. k : TurfOf(c, m, t)

LoadFold == INSTANCE FoldInduction WITH Op <- LoadOp, P <- LoadKnows

\* The loop's invariant holds for one thing more.
LEMMA LoadStep ==
  ASSUME NEW c, Charted(c), NEW k \in Nat, k < Len(c), NEW v, LoadKnows(c, k, v)
  PROVE  LoadKnows(c, k + 1, LoadOp(c, v, c[k + 1]))
<1>1. PICK b : Beside(v, b)
  BY DEF LoadKnows
<1>2. PICK q, thing, x, y : q = k + 1 /\ thing = c[q] /\ x = Loaded(v, thing) /\ y = Loaded(b, thing)
  OBVIOUS
<1>3. q \in 1 .. Len(c) /\ thing \in Kind \X Tile \X Dir
  <2>1. Len(c) \in Nat
    BY DEF Charted
  <2>2. q \in 1 .. Len(c)
    BY <1>2, <2>1
  <2> QED BY <1>2, <2>2 DEF Charted
<1>4. PICK kind \in Kind, t \in Tile, d \in Dir : thing = <<kind, t, d>>
  BY <1>3
<1>5. thing[1] = kind /\ thing[2] = t
  BY <1>4
<1>6. v.turf = b.turf
  BY <1>1, SameFields DEF Beside, Flagless
<1>7. kind \in Turf => b.turf[t] = None
  <2> SUFFICES ASSUME kind \in Turf, b.turf[t] # None PROVE FALSE
    OBVIOUS
  <2>1. PICK m \in 1 .. k : TurfOf(c, m, t)
    BY <1>6 DEF LoadKnows
  <2>2. TurfOf(c, q, t)
    BY <1>2, <1>5 DEF TurfOf
  <2>3. m \in 1 .. Len(c) /\ m # q
    BY <1>2, <1>3
  <2> QED BY <1>3, <2>1, <2>2, <2>3 DEF Charted
<1>8. PICK i : i = NewId(b)
  OBVIOUS
<1>9. /\ Sound(Nil, Raw(y), y) /\ Unworn(y)
      /\ \A u \in Tile : y.turf[u] = IF kind \in Turf /\ u = t THEN NewId(b) ELSE b.turf[u]
  BY <1>1, <1>2, <1>4, <1>7, LoadedSound DEF Beside
<1>10. Flagless(y, x) /\ \E f : Flagged(v, t, f, x) /\ Flagged(b, t, f, y)
  <2>1. Flagless(b, v)
    BY <1>1 DEF Beside
  <2> QED BY <1>2, <1>4, <2>1, LoadedAlike
<1>11. PICK f : Flagged(v, t, f, x) /\ Flagged(b, t, f, y)
  BY <1>10
<1>12. x.turf = y.turf
  BY <1>10, SameFields DEF Flagless
<1>13. i # None /\ DOMAIN b.flags = Tile
  <2>1. Formed(b)
    BY <1>1 DEF Beside, Sound, Nearly
  <2> QED BY <1>8, <2>1 DEF NewId, Formed, Counted, Grid, None
<1>14. Beside(x, y)
  <2>1. DOMAIN v.flags = Tile /\ v.flags = [u \in Tile |-> v.flags[u]]
    BY <1>1 DEF Beside
  <2>2. DOMAIN x.flags = Tile /\ x.flags = [u \in Tile |-> x.flags[u]]
    BY <1>11, <2>1 DEF Flagged
  <2>3. ASSUME NEW u \in Tile, x.turf[u] # None PROVE x.flags[u] = y.flags[u]
    <3>1. CASE u = t
      BY <1>11, <1>13, <2>1, <3>1 DEF Flagged
    <3>2. CASE u # t
      <4>1. v.turf[u] # None
        BY <1>6, <1>9, <1>12, <2>3, <3>2
      <4>2. v.flags[u] = b.flags[u]
        BY <1>1, <4>1 DEF Beside
      <4> QED BY <1>11, <1>13, <2>1, <3>2, <4>2 DEF Flagged
    <3> QED BY <3>1, <3>2
  <2> QED BY <1>9, <1>10, <2>2, <2>3 DEF Beside
<1>15. ASSUME NEW u \in Tile PROVE x.turf[u] # None <=> \E m \in 1 .. q : TurfOf(c, m, u)
  <2>1. v.turf[u] # None <=> \E m \in 1 .. k : TurfOf(c, m, u)
    BY DEF LoadKnows
  <2>2. TurfOf(c, q, u) <=> kind \in Turf /\ u = t
    BY <1>2, <1>5 DEF TurfOf
  <2>3. x.turf[u] # None <=> v.turf[u] # None \/ (kind \in Turf /\ u = t)
    BY <1>6, <1>8, <1>9, <1>12, <1>13
  <2>4. (\E m \in 1 .. q : TurfOf(c, m, u)) <=> TurfOf(c, q, u) \/ \E m \in 1 .. k : TurfOf(c, m, u)
    <3>1. \A m : m \in 1 .. q <=> m = q \/ m \in 1 .. k
      BY <1>2
    <3> QED BY <3>1
  <2> QED BY <2>1, <2>2, <2>3, <2>4
<1>16. LoadKnows(c, q, x)
  BY <1>14, <1>15 DEF LoadKnows
<1>17. LoadOp(c, v, c[q]) = x
  BY <1>2 DEF LoadOp
<1> QED BY <1>2, <1>16, <1>17

\* Map as a fold over the things of a layout.
LEMMA MapIsFold ==
  ASSUME NEW l
  PROVE  Map(l) = LoadFold!Folded(l.things, Void(l.env), l.things)
BY DEF LoadFold!Folded, LoadFold!MaxOf, Map, LoadOp, FoldLeft, MapThenFoldSet, Max

\* A loaded map is sound but for what is not begun: each tile got its turf, so its flags.
LEMMA MapSound ==
  ASSUME NEW l, Layout(l), NEW w, w = Map(l)
  PROVE  Sound(Nil, Raw(w), w) /\ Unworn(w)
<1>1. PICK c, n, v : c = l.things /\ n = Len(c) /\ v = Void(l.env)
  OBVIOUS
<1>2. c \in Seq(Kind \X Tile \X Dir)
  BY <1>1 DEF Layout
<1>3. n \in Nat /\ DOMAIN c = 1 .. n
  BY <1>1, <1>2
<1>4. Charted(c)
  <2>1. ASSUME NEW a \in 1 .. n, NEW b \in 1 .. n, NEW t \in Tile, TurfOf(c, a, t), TurfOf(c, b, t) PROVE a = b
    <3>1. {c[a][1], c[b][1]} \subseteq Turf /\ c[a][2] = c[b][2]
      BY <2>1 DEF TurfOf
    <3> QED BY <1>1, <1>3, <3>1 DEF Layout
  <2>2. ASSUME NEW t \in Tile PROVE \E m \in 1 .. n : TurfOf(c, m, t)
    BY <1>1, <1>3 DEF Layout, TurfOf
  <2> QED BY <1>1, <1>2, <2>1, <2>2 DEF Charted
<1>5. LoadKnows(c, 0, v)
  <2>1. PICK env, b : env = l.env /\ b = Bare(env)
    OBVIOUS
  <2>2. v = Void(env)
    BY <1>1, <2>1
  <2>3. b.obj = <<>> /\ Only({"flags"}, v, b)
    <3>1. b.obj = <<>> /\ Only({"flags"}, Void(env), b)
      BY <2>1, BareIs
    <3> QED BY <2>2, <3>1
  <2>4. Sound(Nil, Raw(b), b)
    BY <2>1, BareSound
  <2>5. v.turf = [t \in Tile |-> None] /\ v.flags = [t \in Tile |-> {}] /\ World(v)
    BY <2>2, VoidIs DEF World
  <2>6. World(b)
    BY <2>1, <2>2, <2>5 DEF Bare, World
  <2>7. Flagless(b, v)
    BY <2>3, <2>5, <2>6 DEF Flagless, Only
  <2>8. Unworn(b)
    BY <2>3 DEF Unworn
  <2>9. Beside(v, b)
    BY <2>4, <2>5, <2>7, <2>8 DEF Beside
  <2> QED BY <2>5, <2>9 DEF LoadKnows
<1>6. \A k \in 0 .. n - 1 : \A y : LoadKnows(c, k, y) => LoadKnows(c, k + 1, LoadOp(c, y, c[k + 1]))
  <2> SUFFICES ASSUME NEW k \in 0 .. n - 1, NEW y, LoadKnows(c, k, y)
               PROVE  LoadKnows(c, k + 1, LoadOp(c, y, c[k + 1]))
    OBVIOUS
  <2>1. k \in Nat /\ k < Len(c)
    BY <1>1, <1>3
  <2> QED BY <1>4, <2>1, LoadStep
<1>7. LoadKnows(c, n, LoadFold!Folded(c, v, c))
  BY <1>3, <1>5, <1>6, LoadFold!FoldKeeps
<1>8. w = LoadFold!Folded(c, v, c)
  BY <1>1, MapIsFold
<1>9. PICK b : Beside(w, b)
  BY <1>7, <1>8 DEF LoadKnows
<1>10. \A t \in Tile : w.turf[t] # None
  BY <1>1, <1>4, <1>7, <1>8 DEF LoadKnows, Charted
<1>11. w.flags = b.flags
  <2>1. Grid(b)
    BY <1>9 DEF Beside, Sound, Nearly, Formed
  <2> QED BY <1>9, <1>10, <2>1 DEF Beside, Grid
<1>12. w = b
  BY <1>9, <1>11 DEF Beside, Flagless, World, Only
<1> QED BY <1>9, <1>12 DEF Beside

\* What an AfterWorldCreation puts right, and what it leaves as it is.
Due(w, i) ==
  IF w.obj[i].kind \in Wall THEN {i, w.obj[i].owner}
  ELSE IF w.obj[i].kind \in {"glass", "glassdoor"} THEN {i} ELSE {}
Fresh(w, i) == w.obj[i].pass = New(w.obj[i].kind).pass /\ w.own[i] = NewOwn(w.obj[i].kind)
LeavesRest(w, v, i) ==
  /\ DOMAIN v.obj = DOMAIN w.obj
  /\ \A j \in DOMAIN w.obj :
       /\ v.obj[j].kind = w.obj[j].kind
       /\ w.obj[j].kind \in Wall => v.obj[j].owner = w.obj[j].owner
       /\ j # i /\ w.obj[j].kind \in {"glass", "glassdoor"} =>
            v.obj[j].pass = w.obj[j].pass /\ v.own[j] = w.own[j]

\* A wall that begins looks around it.
LEMMA BegunWall ==
  ASSUME NEW U, NEW V, NEW w, Sane(Nil, U, w, w), NEW i \in DOMAIN w.obj, U \subseteq V \cup Due(w, i),
         w.obj[i].kind \in Wall, NEW v, v = AfterWorldCreation(w, i)
  PROVE  Sane(Nil, V, w, v) /\ LeavesRest(w, v, i)
<1>1. PICK t, W : t = w.obj[i].owner /\ W = V \cup {i, t}
  OBVIOUS
<1>2. U \subseteq W
  BY <1>1 DEF Due
<1>3. Sane(Nil, W, w, w)
  BY <1>2, LooseSane
<1>4. KindOf(w, i) = w.obj[i].kind
  BY SaneForms
<1>5. v = CheckNeighborhood(w, i)
  BY <1>4 DEF AfterWorldCreation, Wall, Projectile
<1>6. Sane({}, V \cup {i, t}, w, w)
  BY <1>1, <1>3 DEF Nil
<1>7. Sane({}, V, w, v) /\ Only({"own"}, w, v)
  BY <1>1, <1>5, <1>6, CheckSane
<1>8. w.obj[i].owner \in Tile
  BY RootedHome DEF Rooted, Turf
<1>9. Watched(w, i)
  BY <1>8, WatchedSane
<1>10. WallsOnly(w, v)
  BY <1>5, <1>9, CheckLearns
<1>11. v.obj = w.obj
  BY <1>7, SameFields
<1>12. \A j \in DOMAIN w.obj : w.obj[j].kind \in {"glass", "glassdoor"} => v.own[j] = w.own[j]
  BY <1>10 DEF WallsOnly, Wall
<1> QED BY <1>7, <1>11, <1>12 DEF LeavesRest, Nil

\* A pane of glass that begins blocks its direction.
LEMMA BegunGlass ==
  ASSUME NEW U, NEW V, NEW w, Sane(Nil, U, w, w), NEW i \in DOMAIN w.obj, U \subseteq V \cup Due(w, i),
         w.obj[i].kind \in {"glass", "glassdoor"}, Fresh(w, i), NEW v, v = AfterWorldCreation(w, i)
  PROVE  Sane(Nil, V, w, v) /\ LeavesRest(w, v, i)
<1>1. PICK d, p, W : d = DirOf(w, i) /\ p = EMPTY /\ W = V \cup {i}
  OBVIOUS
<1>2. U \subseteq W
  BY <1>1 DEF Due, Wall
<1>3. Sane(Nil, W, w, w)
  BY <1>2, LooseSane
<1>4. KindOf(w, i) = w.obj[i].kind /\ w.obj[i] \in Object
  BY SaneForms
<1>5. v = SetPassable(w, i, d, p)
  BY <1>1, <1>4 DEF AfterWorldCreation, Wall, Projectile
<1>6. p \in PassableLevel
  BY <1>1, LevelIsInt
<1>7. Sound(Nil, W, w)
  BY <1>3 DEF Sane
<1>8. /\ Sound(Nil, W \cup {i}, v) /\ Since(w, v) /\ Only({"obj", "sum", "flags"}, w, v) /\ v.obj = PassSet(w, i, d, p)
  BY <1>5, <1>6, <1>7, SetPassableSound
<1>9. W \cup {i} = V \cup {i}
  BY <1>1
<1>10. Sane(Nil, V \cup {i}, w, v)
  BY <1>3, <1>8, <1>9, SaneStep
<1>11. d \in Dir /\ w.obj[i].pass \in [Way -> PassableLevel] /\ d = w.obj[i].dir
  BY <1>1, <1>4 DEF DirOf, Object
<1>12. /\ DOMAIN v.obj = DOMAIN w.obj /\ \A j \in DOMAIN w.obj : j # i => v.obj[j] = w.obj[j]
       /\ v.obj[i] = [w.obj[i] EXCEPT !.pass = [w.obj[i].pass EXCEPT ![d] = p]]
  BY <1>8 DEF PassSet
<1>13. /\ v.obj[i].kind = w.obj[i].kind /\ v.obj[i].owner = w.obj[i].owner /\ v.obj[i].dir = d
       /\ v.obj[i].pass = [w.obj[i].pass EXCEPT ![d] = p]
  BY <1>4, <1>11, <1>12 DEF Object
<1>14. v.own = w.own
  BY <1>8, SameFields
<1>15. Shaped(v, i)
  <2>1. PICK kind \in Kind : kind = w.obj[i].kind
    BY <1>4 DEF Object
  <2>2. w.obj[i].pass["all"] = PassableAll(kind) /\ \A e \in Dir : w.obj[i].pass[e] = FULL
    BY <2>1, NewIs DEF Fresh
  <2>3. kind \in {"glass", "glassdoor"} /\ kind \notin Closet
    BY <2>1 DEF Closet
  <2>4. PassableAll(kind) = FULL
    BY <2>3 DEF PassableAll, Wall, Closet
  <2>5. "all" # d /\ "all" \in Way /\ Dir \subseteq Way
    BY <1>11 DEF Way, Dir
  <2>6. PICK s : s = v.obj[i].pass
    OBVIOUS
  <2>7. s["all"] = FULL /\ s[d] = EMPTY /\ \A e \in Dir : e # d => s[e] = FULL
    BY <1>1, <1>11, <1>13, <2>2, <2>4, <2>5, <2>6
  <2>8. EMPTY # FULL
    BY DEF EMPTY, FULL
  <2>9. kind = "glassdoor" => v.own[i].state = "closed"
    <3>1. v.own[i] = NewOwn(kind)
      BY <1>14, <2>1 DEF Fresh
    <3>2. kind = "glassdoor" => NewOwn(kind) = [state |-> "closed", last_tick |-> 0]
      BY DEF NewOwn, Closet, Breakable, Projectile, Gun, Wall
    <3> QED BY <3>1, <3>2
  <2> QED BY <1>11, <1>13, <2>1, <2>3, <2>6, <2>7, <2>8, <2>9 DEF Shaped, ShapeFits
<1>16. Sane(Nil, V, w, v)
  <2>1. i \in DOMAIN v.obj /\ v.obj[i].kind \notin Wall
    BY <1>12, <1>13 DEF Wall
  <2> QED BY <1>10, <1>15, <2>1, StraightSane
<1> QED BY <1>12, <1>13, <1>14, <1>16 DEF LeavesRest, Wall

\* What else begins keeps the invariant.
LEMMA BegunRest ==
  ASSUME NEW U, NEW V, NEW w, Sane(Nil, U, w, w), NEW i \in DOMAIN w.obj, U \subseteq V \cup Due(w, i),
         w.obj[i].kind \notin Unfinished, NEW v, v = AfterWorldCreation(w, i)
  PROVE  Sound(Nil, V, v) /\ LeavesRest(w, v, i)
<1>1. U \subseteq V
  BY DEF Due, Unfinished
<1>2. Sane(Nil, V, w, w)
  BY <1>1, LooseSane
<1>3. KindOf(w, i) = w.obj[i].kind /\ \A j \in DOMAIN w.obj : w.obj[j] \in Object
  BY SaneForms
<1>4. CASE w.obj[i].kind \in Closet
  <2>1. v = Collect(w, i)
    BY <1>3, <1>4 DEF AfterWorldCreation, Closet, Wall, Projectile
  <2>2. Sound(Nil, V, w)
    BY <1>2 DEF Sane
  <2>3. Sound(Nil, V, v) /\ Only({"obj", "content", "turf", "sum", "flags"}, w, v) /\ Boxed(w, v, i)
    BY <1>4, <2>1, <2>2, CollectSound
  <2>4. v.own = w.own
    BY <2>3, SameFields
  <2>5. /\ DOMAIN v.obj = DOMAIN w.obj
        /\ \A j \in DOMAIN w.obj : v.obj[j].kind = w.obj[j].kind /\ v.obj[j].pass = w.obj[j].pass
    BY <1>3, <2>3 DEF Boxed, Object
  <2>6. ASSUME NEW j \in DOMAIN w.obj, w.obj[j].kind \in Wall PROVE v.obj[j].owner = w.obj[j].owner
    <3>1. i \notin Tile
      BY SaneForms
    <3>2. Sane(Nil, V, v, v)
      BY <2>3, SaneStart
    <3>3. v.obj[j].owner \in Tile
      BY <2>5, <2>6, <3>2, RootedHome DEF Rooted, Turf
    <3> QED BY <1>3, <2>3, <3>1, <3>3 DEF Boxed, Object
  <2> QED BY <2>3, <2>4, <2>5, <2>6 DEF LeavesRest
<1>5. CASE w.obj[i].kind \notin Closet
  <2>1. v = w \/ v = SetFreq(w, i, 1) \/ v = SetFreq(w, i, SLOW_FREQ)
    BY <1>3, <1>5 DEF AfterWorldCreation, Unfinished
  <2>2. 1 \in Nat /\ SLOW_FREQ \in Nat
    BY MovablesAssumption
  <2>3. \E freq \in Nat : v = w \/ v = SetFreq(w, i, freq)
    BY <2>1, <2>2
  <2>4. PICK freq \in Nat : v = w \/ v = SetFreq(w, i, freq)
    BY <2>3
  <2>5. Sane(Nil, V, w, SetFreq(w, i, freq))
    BY <1>2, SetFreqSane
  <2>6. DOMAIN w = Members
    BY SaneForms
  <2>7. PICK x : x = SetFreq(w, i, freq)
    OBVIOUS
  <2>8. x.obj = [w.obj EXCEPT ![i].freq = freq] /\ x.own = w.own
    BY <2>6, <2>7 DEF SetFreq, Members
  <2>9. LeavesRest(w, x, i)
    BY <1>3, <2>8 DEF LeavesRest, Object
  <2>10. LeavesRest(w, w, i)
    BY DEF LeavesRest
  <2> QED BY <1>2, <2>4, <2>5, <2>7, <2>9, <2>10 DEF Sane
<1> QED BY <1>4, <1>5

\* Of a world w and its ids s in a row.
Unmade(c, k) ==
  {x \in Nat : \E m \in k + 1 .. Len(c.s) : c.w.obj[c.s[m]].kind \in Unfinished /\ x \in Due(c.w, c.s[m])}

BeginOp(c, v, i) == AfterWorldCreation(v, i)
BeginKnows(c, k, v) ==
  /\ Sound(Nil, Unmade(c, k), v)
  /\ DOMAIN v.obj = DOMAIN c.w.obj
  /\ \A j \in DOMAIN v.obj :
       v.obj[j].kind = c.w.obj[j].kind /\ (v.obj[j].kind \in Wall => v.obj[j].owner = c.w.obj[j].owner)
  /\ \A m \in k + 1 .. Len(c.s) : v.obj[c.s[m]].kind \in {"glass", "glassdoor"} => Fresh(v, c.s[m])

BeginFold == INSTANCE FoldInduction WITH Op <- BeginOp, P <- BeginKnows

Begins(c) ==
  /\ c.s \in Seq(Nat) /\ \A m \in 1 .. Len(c.s) : c.s[m] \in DOMAIN c.w.obj
  /\ \A m, n \in 1 .. Len(c.s) : c.s[m] = c.s[n] => m = n

\* The loop's invariant holds for one object more.
LEMMA BeginStep ==
  ASSUME NEW c, Begins(c), NEW k \in Nat, k < Len(c.s), NEW v, BeginKnows(c, k, v)
  PROVE  BeginKnows(c, k + 1, BeginOp(c, v, c.s[k + 1]))
<1>1. PICK q, i, x, U, V : q = k + 1 /\ i = c.s[q] /\ x = AfterWorldCreation(v, i) /\ U = Unmade(c, k) /\ V = Unmade(c, q)
  OBVIOUS
<1>2. Len(c.s) \in Nat
  BY DEF Begins
<1>3. q \in 1 .. Len(c.s) /\ q \in k + 1 .. Len(c.s)
  BY <1>1, <1>2
<1>4. i \in DOMAIN v.obj /\ v.obj[i].kind = c.w.obj[i].kind /\ (v.obj[i].kind \in Wall => v.obj[i].owner = c.w.obj[i].owner)
  BY <1>1, <1>3 DEF Begins, BeginKnows
<1>5. Sound(Nil, U, v) /\ Sane(Nil, U, v, v)
  BY <1>1, SaneStart DEF BeginKnows
<1>6. Due(v, i) = Due(c.w, i)
  BY <1>4 DEF Due
<1>7. U \subseteq V \cup Due(v, i)
  <2> SUFFICES ASSUME NEW y \in U, y \notin V PROVE y \in Due(v, i)
    OBVIOUS
  <2>1. PICK m \in k + 1 .. Len(c.s) : c.w.obj[c.s[m]].kind \in Unfinished /\ y \in Due(c.w, c.s[m])
    BY <1>1 DEF Unmade
  <2>2. y \in Nat
    BY <1>1 DEF Unmade
  <2>3. m \notin q + 1 .. Len(c.s)
    BY <1>1, <2>1, <2>2 DEF Unmade
  <2>4. m = q
    BY <1>1, <1>2, <2>1, <2>3
  <2> QED BY <1>1, <1>6, <2>1, <2>4
<1>8. Sound(Nil, V, x) /\ LeavesRest(v, x, i)
  <2>1. CASE v.obj[i].kind \in Wall
    BY <1>1, <1>4, <1>5, <1>7, <2>1, BegunWall DEF Sane
  <2>2. CASE v.obj[i].kind \in {"glass", "glassdoor"}
    <3>1. Fresh(v, i)
      BY <1>1, <1>3, <2>2 DEF BeginKnows
    <3> QED BY <1>1, <1>4, <1>5, <1>7, <2>2, <3>1, BegunGlass DEF Sane
  <2>3. CASE v.obj[i].kind \notin Unfinished
    BY <1>1, <1>4, <1>5, <1>7, <2>3, BegunRest
  <2> QED BY <2>1, <2>2, <2>3 DEF Unfinished
<1>9. DOMAIN x.obj = DOMAIN v.obj /\ DOMAIN v.obj = DOMAIN c.w.obj
  BY <1>8 DEF LeavesRest, BeginKnows
<1>10. \A j \in DOMAIN x.obj :
         x.obj[j].kind = c.w.obj[j].kind /\ (x.obj[j].kind \in Wall => x.obj[j].owner = c.w.obj[j].owner)
  BY <1>8, <1>9 DEF LeavesRest, BeginKnows
<1>11. ASSUME NEW m \in q + 1 .. Len(c.s), x.obj[c.s[m]].kind \in {"glass", "glassdoor"} PROVE Fresh(x, c.s[m])
  <2>1. m \in k + 1 .. Len(c.s) /\ m \in 1 .. Len(c.s) /\ m # q
    BY <1>1, <1>2
  <2>2. c.s[m] \in DOMAIN v.obj /\ c.s[m] # i
    BY <1>1, <1>3, <1>9, <2>1 DEF Begins
  <2>3. v.obj[c.s[m]].kind = x.obj[c.s[m]].kind
    BY <1>8, <2>2 DEF LeavesRest
  <2>4. Fresh(v, c.s[m])
    BY <1>11, <2>1, <2>3 DEF BeginKnows
  <2>5. x.obj[c.s[m]].pass = v.obj[c.s[m]].pass /\ x.own[c.s[m]] = v.own[c.s[m]]
    BY <1>8, <1>11, <2>2, <2>3 DEF LeavesRest
  <2> QED BY <2>3, <2>4, <2>5 DEF Fresh
<1>12. BeginKnows(c, q, x)
  BY <1>1, <1>8, <1>9, <1>10, <1>11 DEF BeginKnows
<1>13. BeginOp(c, v, c.s[q]) = x
  BY <1>1 DEF BeginOp
<1> QED BY <1>1, <1>12, <1>13

\* The start of the objects as a fold over their ids.
LEMMA BegunIsFold ==
  ASSUME NEW w, NEW c, NEW s, s = SortedIds(w, DOMAIN w.obj)
  PROVE  Begun(w) = BeginFold!Folded(c, w, s)
BY DEF BeginFold!Folded, BeginFold!MaxOf, Begun, BeginOp, FoldLeft, MapThenFoldSet, Max

\* When all have begun the world is sound.
LEMMA BegunSound ==
  ASSUME NEW w, Sound(Nil, Raw(w), w), Unworn(w), NEW v, v = Begun(w)
  PROVE  Sound(Nil, Nil, v)
<1>1. PICK D, s, n, c : D = DOMAIN w.obj /\ s = SortedIds(w, D) /\ n = Len(s) /\ c = [w |-> w, s |-> s]
  OBVIOUS
<1>2. c.w = w /\ c.s = s
  BY <1>1
<1>3. Sane(Nil, Raw(w), w, w)
  BY SaneStart
<1>4. D \subseteq 1 .. w.last /\ w.last \in Nat
  BY <1>1, <1>3, SaneForms
<1>5. s \in Seq(1 .. w.last) /\ ToSet(s) = D /\ \A m, p \in 1 .. Len(s) : s[m] = s[p] => m = p
  BY <1>1, <1>4, SortedIs
<1>6. s \in Seq(Nat) /\ n \in Nat /\ DOMAIN s = 1 .. n
  <2>1. PICK S, T : S = 1 .. w.last /\ T = Nat
    OBVIOUS
  <2>2. S \subseteq T /\ s \in Seq(S)
    BY <1>5, <2>1
  <2>3. s \in Seq(T)
    BY <2>2
  <2> QED BY <1>1, <2>1, <2>3
<1>7. \A m \in 1 .. n : s[m] \in D
  BY <1>5, <1>6 DEF ToSet
<1>8. Begins(c)
  BY <1>1, <1>2, <1>5, <1>6, <1>7 DEF Begins
<1>9. \A j \in D : \E m \in 1 .. n : j = s[m]
  BY <1>5, <1>6 DEF ToSet
<1>10. BeginKnows(c, 0, w)
  <2>1. PICK U : U = Unmade(c, 0)
    OBVIOUS
  <2>2. Sound(Nil, U, w)
    <3>1. Nearly(Nil, Raw(w), None, w)
      BY DEF Sound
    <3>2. Shapes(U, w)
      <4> SUFFICES ASSUME NEW j \in D, j \notin U PROVE Shaped(w, j)
        BY <1>1 DEF Shapes
      <4>1. j \in Nat /\ j \notin Tile
        BY <1>1, <1>3, SaneForms
      <4>2. w.obj[j].kind \notin Unfinished
        <5> SUFFICES ASSUME w.obj[j].kind \in Unfinished PROVE j \in U
          OBVIOUS
        <5>1. PICK m \in 1 .. n : j = s[m]
          BY <1>9
        <5>2. j \in Due(w, j)
          BY DEF Due, Unfinished
        <5>3. m \in 0 + 1 .. Len(s)
          BY <1>1
        <5> QED BY <1>2, <2>1, <4>1, <5>1, <5>2, <5>3 DEF Unmade
      <4>3. j \notin Raw(w)
        BY <4>1, <4>2 DEF Raw
      <4> QED BY <1>1, <3>1, <4>3 DEF Nearly, Shapes
    <3>3. Walls(U, w)
      <4> SUFFICES ASSUME NEW j \in D, j \notin U, w.obj[j].kind \in Wall PROVE FALSE
        BY <1>1 DEF Walls
      <4>1. PICK m \in 1 .. n : j = s[m]
        BY <1>9
      <4>2. j \in Due(w, j) /\ w.obj[j].kind \in Unfinished
        BY DEF Due, Unfinished
      <4>3. m \in 0 + 1 .. Len(s)
        BY <1>1
      <4>4. j \in Nat
        BY <1>1, <1>3, SaneForms
      <4> QED BY <1>2, <2>1, <4>1, <4>2, <4>3, <4>4 DEF Unmade
    <3> QED BY <3>1, <3>2, <3>3 DEF Sound, Nearly
  <2>3. \A m \in 0 + 1 .. Len(s) : w.obj[s[m]].kind \in {"glass", "glassdoor"} => Fresh(w, s[m])
    BY <1>1, <1>7 DEF Unworn, Fresh
  <2> QED BY <1>2, <2>1, <2>2, <2>3 DEF BeginKnows
<1>11. \A k \in 0 .. n - 1 : \A y : BeginKnows(c, k, y) => BeginKnows(c, k + 1, BeginOp(c, y, s[k + 1]))
  <2> SUFFICES ASSUME NEW k \in 0 .. n - 1, NEW y, BeginKnows(c, k, y)
               PROVE  BeginKnows(c, k + 1, BeginOp(c, y, s[k + 1]))
    OBVIOUS
  <2>1. k \in Nat /\ k < Len(c.s)
    BY <1>1, <1>2, <1>6
  <2> QED BY <1>2, <1>8, <2>1, BeginStep
<1>12. BeginKnows(c, n, BeginFold!Folded(c, w, s))
  BY <1>6, <1>10, <1>11, BeginFold!FoldKeeps
<1>13. v = BeginFold!Folded(c, w, s)
  BY <1>1, BegunIsFold
<1>14. Unmade(c, n) = Nil
  <2>1. n + 1 .. n = {}
    BY <1>6
  <2> QED BY <1>1, <1>2, <2>1 DEF Unmade, Nil
<1> QED BY <1>12, <1>13, <1>14 DEF BeginKnows

\* The world after its creation is sound.
LEMMA CreatedSound ==
  ASSUME NEW w, Sound(Nil, Raw(w), w), Unworn(w), NEW v, v = Created(w)
  PROVE  Sound(Nil, Nil, v)
<1>1. PICK x, i : x = Begun(w) /\ i = NewId(x)
  OBVIOUS
<1>2. Sound(Nil, Nil, x)
  BY <1>1, BegunSound
<1>3. Good(x, x)
  BY <1>2, SaneStart DEF Good
<1>4. DOMAIN x = Members
  BY <1>3, GoodForms
<1>5. PICK y : y = [x EXCEPT !.lobby = i]
  OBVIOUS
<1>6. Only({"lobby"}, x, y) /\ Only({"list", "to_add", "under_force", "chance", "failed", "lobby", "env", "tick"}, x, y)
  BY <1>4, <1>5 DEF Only, Members
<1>7. /\ y.tick = x.tick /\ y.last = x.last /\ y.list = x.list /\ y.to_add = x.to_add /\ y.under_force = x.under_force
      /\ y.chance = x.chance /\ y.obj = x.obj
  BY <1>6 DEF Only, Members
<1>8. Sound(Nil, Nil, y)
  <2>1. x.tick \in Nat /\ Queues(x) /\ Forces(x)
    BY <1>2 DEF Sound, Nearly, Formed, Counted
  <2>2. y.tick \in Nat /\ x.tick <= y.tick
    BY <1>7, <2>1
  <2>3. Queues(y) /\ Forces(y)
    BY <1>7, <2>1 DEF Queues, Forces
  <2> QED BY <1>2, <1>6, <2>2, <2>3, ScalarSound
<1>9. Good(y, y)
  BY <1>8, SaneStart DEF Good
<1>10. PICK kind, z, j : kind = "lobby" /\ z = Create(y, kind, None) /\ j = NewId(y)
  OBVIOUS
<1>11. PlainAt(kind, None)
  BY <1>10 DEF PlainAt, Plain, Kind, Movable, Mob, Rooted, Turf, Wall, Closet, Projectile
<1>12. Good(y, z)
  BY <1>9, <1>10, <1>11, CreateGood
<1>13. Good(y, NewClient(z, Creator))
  BY <1>12, StationAssumption, NewClientGood
<1>14. v = NewClient(z, Creator)
  BY <1>1, <1>5, <1>10 DEF Created
<1> QED BY <1>13, <1>14 DEF Good, Sane

PlayOp(c, v, x) == Played(v, x)
PlayKnows(c, k, v) == Sound(Nil, Nil, v)
PlayFold == INSTANCE FoldInduction WITH Op <- PlayOp, P <- PlayKnows

\* A message or a tick of the opening keeps the invariant.
LEMMA PlayedSound ==
  ASSUME NEW l, Layout(l), NEW n \in DOMAIN l.game, NEW w, Sound(Nil, Nil, w), NEW v, v = Played(w, l.game[n])
  PROVE  Sound(Nil, Nil, v)
<1>1. PICK s : s = l.game[n]
  OBVIOUS
<1>2. s.type = "tick" \/ (s.player \in Player /\ (s.type = "join" \/ s.chance \in Chance))
  BY <1>1 DEF Layout
<1>3. CASE s.type = "tick"
  <2>1. PICK x : x = ProcessPhysics(w)
    OBVIOUS
  <2>2. Sound(Nil, Nil, x)
    BY <2>1, PhysicsStep
  <2>3. Sound(Nil, Nil, Ticked(x))
    BY <2>2, TickedGood
  <2> QED BY <1>1, <1>3, <2>1, <2>3 DEF Played
<1>4. CASE s.type # "tick" /\ s.type = "join"
  <2>1. Good(w, w)
    BY SaneStart DEF Good
  <2>2. PICK p \in Player : p = s.player
    BY <1>2, <1>4
  <2>3. Good(w, NewClient(w, p))
    BY <2>1, NewClientGood
  <2>4. v = NewClient(w, p)
    BY <1>1, <1>4, <2>2 DEF Played
  <2> QED BY <2>3, <2>4 DEF Good, Sane
<1>5. CASE s.type # "tick" /\ s.type # "join"
  <2>1. PICK p \in Player, c \in Chance : p = s.player /\ c = s.chance
    BY <1>2, <1>5
  <2>2. v = Acted(w, p, s, c)
    BY <1>1, <1>5, <2>1 DEF Played
  <2> QED BY <2>2, ActedStep
<1> QED BY <1>3, <1>4, <1>5

\* The opening of a layout as a fold over it.
LEMMA StartIsFold ==
  ASSUME NEW l, NEW c
  PROVE  StartOf(l) = PlayFold!Folded(c, Created(Map(l)), l.game)
BY DEF PlayFold!Folded, PlayFold!MaxOf, StartOf, PlayOp, FoldLeft, MapThenFoldSet, Max

\* The world a run starts from is sound.
LEMMA StartSound ==
  ASSUME NEW l, Layout(l), NEW w, w = StartOf(l)
  PROVE  Sound(Nil, Nil, w)
<1>1. PICK m, v, s, n : m = Map(l) /\ v = Created(m) /\ s = l.game /\ n = Len(s)
  OBVIOUS
<1>2. Sound(Nil, Raw(m), m) /\ Unworn(m)
  BY <1>1, MapSound
<1>3. Sound(Nil, Nil, v)
  BY <1>1, <1>2, CreatedSound
<1>4. DOMAIN s = 1 .. n /\ n \in Nat
  <2>1. PICK S : S = ToSet(s)
    OBVIOUS
  <2>2. s \in Seq(S)
    BY <1>1, <2>1 DEF Layout
  <2> QED BY <1>1, <2>2
<1>5. w = PlayFold!Folded(l, v, s)
  BY <1>1, StartIsFold
<1> QED
  <2>1. PlayKnows(l, 0, v)
    BY <1>3 DEF PlayKnows
  <2>2. \A k \in 0 .. n - 1 : \A y : PlayKnows(l, k, y) => PlayKnows(l, k + 1, PlayOp(l, y, s[k + 1]))
    <3> SUFFICES ASSUME NEW k \in 0 .. n - 1, NEW y, PlayKnows(l, k, y)
                 PROVE  PlayKnows(l, k + 1, PlayOp(l, y, s[k + 1]))
      OBVIOUS
    <3>1. PICK q : q = k + 1
      OBVIOUS
    <3>2. q \in DOMAIN l.game
      BY <1>1, <1>4, <3>1
    <3>3. PICK x : x = Played(y, l.game[q])
      OBVIOUS
    <3>4. Sound(Nil, Nil, x)
      BY <3>2, <3>3, PlayedSound DEF PlayKnows
    <3> QED BY <1>1, <3>1, <3>3, <3>4 DEF PlayKnows, PlayOp
  <2>3. PlayKnows(l, n, PlayFold!Folded(l, v, s))
    BY <1>4, <2>1, <2>2, PlayFold!FoldKeeps
  <2> QED BY <1>5, <2>3 DEF PlayKnows

-----------------------------------------------------------------------------
(* The theorems.                                                           *)

\* The inductive invariant.
Safe ==
  /\ Sound(Nil, Nil, world)
  /\ layout \in Layouts /\ phase \in {"idle", "messages"} /\ acts \in 0 .. MaxActs

\* The initial states are safe.
LEMMA StartSafe == Init => Safe
<1> SUFFICES ASSUME Init PROVE Safe
  OBVIOUS
<1>1. Layout(layout)
  BY LayoutsAssumption DEF Init
<1>2. PICK l, w : l = layout /\ w = world
  OBVIOUS
<1>3. Layout(l) /\ w = StartOf(l)
  BY <1>1, <1>2 DEF Init
<1>4. Sound(Nil, Nil, w)
  BY <1>3, StartSound
<1> QED BY <1>2, <1>4, StationAssumption DEF Init, Safe

\* Whatever happens, the world stays sound, and what moves is next to where it was.
LEMMA StepSound == Safe /\ Next => Sound(Nil, Nil, world') /\ Strides(world, world')
<1> SUFFICES ASSUME Safe, Next PROVE Sound(Nil, Nil, world') /\ Strides(world, world')
  OBVIOUS
<1>1. PICK w, v : w = world /\ v = world'
  OBVIOUS
<1>2. Sound(Nil, Nil, w) /\ Good(w, w)
  BY <1>1, SaneStart DEF Safe, Good
<1>3. CASE StartTick
  <2>1. v = Ticked(w) \/ \E g \in layout.gusts : v = Gust(Ticked(w), g)
    BY <1>1, <1>3 DEF StartTick, Blown
  <2>2. CASE v = Ticked(w)
    <3>1. Sound(Nil, Nil, Ticked(w)) /\ Strides(w, Ticked(w))
      BY <1>2, TickedGood
    <3> QED BY <1>1, <2>2, <3>1
  <2>3. ASSUME NEW g \in layout.gusts, v = Gust(Ticked(w), g) PROVE Sound(Nil, Nil, v) /\ Strides(w, v)
    <3>1. IsGust(g)
      BY LayoutsAssumption DEF Safe, Layout, IsGust
    <3> QED BY <1>2, <2>3, <3>1, BlownStep
  <2> QED BY <1>1, <2>1, <2>2, <2>3
<1>4. CASE FinishTick
  <2>1. v = ProcessPhysics(w)
    BY <1>1, <1>4 DEF FinishTick
  <2> QED BY <1>1, <1>2, <2>1, PhysicsStep
<1>5. ASSUME NEW p \in Player, Join(p) PROVE Sound(Nil, Nil, v) /\ Strides(w, v)
  <2>1. v = NewClient(w, p)
    BY <1>1, <1>5 DEF Join
  <2>2. Good(w, v)
    BY <1>2, <2>1, NewClientGood
  <2> QED BY <2>2, GoodStrides
<1>6. ASSUME NEW p \in Known, NEW m \in Keys \cup Clicks, NEW c \in layout.chances, Message(p, m, c)
      PROVE  Sound(Nil, Nil, v) /\ Strides(w, v)
  <2>1. p \in Player
    BY DEF Known
  <2>2. c \in Chance
    BY LayoutsAssumption DEF Safe, Layout
  <2>3. v = Acted(w, p, m, c)
    BY <1>1, <1>6 DEF Message
  <2> QED BY <1>2, <2>1, <2>2, <2>3, ActedStep
<1> QED BY <1>1, <1>3, <1>4, <1>5, <1>6 DEF Next

\* Every step keeps the invariant.
LEMMA StepSafe == Safe /\ [Next]_vars => Safe'
<1> SUFFICES ASSUME Safe, [Next]_vars PROVE Safe'
  OBVIOUS
<1>1. CASE Next
  <2>1. Sound(Nil, Nil, world')
    BY <1>1, StepSound
  <2>2. layout' = layout /\ phase' \in {"idle", "messages"} /\ acts' \in 0 .. MaxActs
    BY <1>1, StationAssumption DEF Safe, Next, StartTick, FinishTick, Join, Message, Act
  <2> QED BY <2>1, <2>2 DEF Safe
<1>2. CASE UNCHANGED vars
  BY <1>2 DEF Safe, vars
<1> QED BY <1>1, <1>2

\* Through every tick, message and login, from every map and after every game that was
\* played on it, the world is sound: nothing is in two places, no sum, no shape, no queue,
\* no mind and no wall is out of date (Tile.cpp, Movable.cpp, Human.cpp, Login.cpp).
THEOREM StationIsSafe == Spec => []Safe
BY StartSafe, StepSafe, PTL DEF Spec

\* In a sound world an owner is there and has what it owns.
LEMMA SafeOwners ==
  ASSUME NEW w, Sound(Nil, Nil, w), NEW i \in DOMAIN w.obj, w.obj[i].owner # None
  PROVE  w.obj[i].owner \in Tile \cup DOMAIN w.obj /\ Has(w, w.obj[i].owner, i)
<1>1. Sane(Nil, Nil, w, w)
  BY SaneStart
<1>2. Has(w, w.obj[i].owner, i)
  BY <1>1, OwnerHas
<1>3. PICK c : c = w.obj[i].owner
  OBVIOUS
<1>4. c \in Tile \/ Is(w, c, Closet) \/ Is(w, c, {"human"})
  BY <1>2, <1>3 DEF Has
<1>5. c \in Tile \cup DOMAIN w.obj
  BY <1>4 DEF Is, KindOf, IsValid, Closet
<1> QED BY <1>2, <1>3, <1>5

\* Safe worlds are well typed.
LEMMA SafeTypes == Safe => StationTypeOK
<1> SUFFICES ASSUME Safe PROVE StationTypeOK
  OBVIOUS
<1>1. PICK w : w = world
  OBVIOUS
<1>2. Sound(Nil, Nil, w) /\ Sane(Nil, Nil, w, w)
  BY <1>1, SaneStart DEF Safe
<1>3. Grid(w) /\ Queues(w) /\ Minds(w)
  BY <1>2 DEF Sound, Nearly, Formed
<1>4. DOMAIN w.own = DOMAIN w.obj /\ w.last \in Nat
  BY <1>2, SaneForms
<1>5. ASSUME NEW i \in DOMAIN w.obj
      PROVE  /\ i \notin Tile /\ i <= w.last
             /\ w.obj[i].kind \in Kind
             /\ w.obj[i].owner \in Tile \cup (DOMAIN w.obj) \cup {None}
             /\ w.obj[i].dir \in Dir
             /\ w.obj[i].pass \in [Way -> PassableLevel]
             /\ w.obj[i].motion \in Motion
             /\ DOMAIN w.own[i] = DOMAIN NewOwn(w.obj[i].kind)
  <2>1. /\ w.obj[i] \in Object /\ OwnFits(w, w.obj[i].kind, w.own[i])
        /\ i \notin Tile /\ i \in 1 .. w.last
    BY <1>2, SaneForms
  <2>2. w.obj[i].owner \in Tile \cup (DOMAIN w.obj) \cup {None}
    BY <1>2, SafeOwners
  <2> QED BY <1>4, <2>1, <2>2 DEF Object, OwnFits
<1>6. w.mind \in [Player -> (DOMAIN w.obj) \cup {None}]
  BY <1>3 DEF Minds
<1>7. ToSet(w.to_add) \cup ToSet(w.under_force) \cup ToSet(w.list) \subseteq 1 .. w.last
  <2>1. PICK S : S = 1 .. w.last
    OBVIOUS
  <2>2. w.list \in Seq(S) /\ w.to_add \in Seq(S) /\ w.under_force \in Seq(S)
    BY <1>3, <2>1 DEF Queues
  <2>3. ASSUME NEW s \in Seq(S) PROVE ToSet(s) \subseteq S
    BY DEF ToSet
  <2>4. ToSet(w.list) \subseteq S /\ ToSet(w.to_add) \subseteq S /\ ToSet(w.under_force) \subseteq S
    BY <2>2, <2>3
  <2> QED BY <2>1, <2>4
<1> QED BY <1>1, <1>3, <1>4, <1>5, <1>6, <1>7 DEF Safe, StationTypeOK, Grid, Minds

\* What a container holds is what it has.
LEMMA HoldsIsHas ==
  ASSUME NEW w, Sound(Nil, Nil, w), NEW c \in Tile \cup DOMAIN w.obj, NEW i
  PROVE  i \in Holds(w, c) <=> i # None /\ Has(w, c, i)
<1>1. Sane(Nil, Nil, w, w) /\ Formed(w) /\ Settled(Nil, w)
  BY SaneStart DEF Sound, Nearly
<1>2. CASE c \in Tile
  <2>1. w.content[c] \in Seq(Nat) /\ c \in DOMAIN w.content
    BY <1>1, <1>2 DEF Formed, Contents
  <2>2. Contains(w.content[c], i) <=> i \in ToSet(w.content[c])
    BY <2>1, ContainsIs
  <2>3. None \notin ToSet(w.content[c])
    <3> SUFFICES ASSUME None \in ToSet(w.content[c]) PROVE FALSE
      OBVIOUS
    <3>1. DOMAIN w.content[c] = 1 .. Len(w.content[c])
      BY <2>1
    <3>2. PICK n \in 1 .. Len(w.content[c]) : w.content[c][n] = None
      BY <3>1 DEF ToSet
    <3>3. None \in DOMAIN w.obj
      BY <1>1, <2>1, <3>2 DEF Settled, InContents, Lies
    <3> QED BY <1>1, <3>3, SaneForms
  <2> QED BY <1>2, <2>2, <2>3 DEF Holds, Standing, Has
<1>3. CASE c \notin Tile
  <2>1. c \in DOMAIN w.obj /\ KindOf(w, c) = w.obj[c].kind
    BY <1>1, <1>3, SaneForms
  <2>2. CASE w.obj[c].kind \in Closet
    <3>1. w.content[c] \in Seq(Nat) /\ c \in DOMAIN w.content
      BY <1>1, <2>1, <2>2 DEF Formed, Contents
    <3>2. Contains(w.content[c], i) <=> i \in ToSet(w.content[c])
      BY <3>1, ContainsIs
    <3>3. None \notin ToSet(w.content[c])
      <4> SUFFICES ASSUME None \in ToSet(w.content[c]) PROVE FALSE
        OBVIOUS
      <4>1. DOMAIN w.content[c] = 1 .. Len(w.content[c])
        BY <3>1
      <4>2. PICK n \in 1 .. Len(w.content[c]) : w.content[c][n] = None
        BY <4>1 DEF ToSet
      <4>3. None \in DOMAIN w.obj
        BY <1>1, <3>1, <4>2 DEF Settled, InContents, Lies
      <4> QED BY <1>1, <4>3, SaneForms
    <3> QED BY <1>3, <2>1, <2>2, <3>2, <3>3 DEF Holds, Has, Is
  <2>3. CASE w.obj[c].kind \notin Closet
    BY <1>3, <2>1, <2>3 DEF Holds, Has, Is, SlotsOf
  <2> QED BY <2>2, <2>3
<1> QED BY <1>2, <1>3

\* A sound world agrees about where things are.
LEMMA SafePlaces == Safe => PlaceAgrees
<1> SUFFICES ASSUME Safe PROVE PlaceAgrees
  OBVIOUS
<1>1. PICK w : w = world
  OBVIOUS
<1>2. Sound(Nil, Nil, w) /\ Sane(Nil, Nil, w, w) /\ Formed(w) /\ Settled(Nil, w)
  BY <1>1, SaneStart DEF Safe, Sound, Nearly
<1>3. ASSUME NEW i \in DOMAIN w.obj, w.obj[i].owner # None PROVE i \in Holds(w, w.obj[i].owner)
  <2>1. PICK c : c = w.obj[i].owner
    OBVIOUS
  <2>2. c \in Tile \cup DOMAIN w.obj /\ Has(w, c, i)
    BY <1>2, <1>3, <2>1, SafeOwners
  <2>3. i # None
    BY <1>2, SaneForms
  <2> QED BY <1>2, <2>1, <2>2, <2>3, HoldsIsHas
<1>4. ASSUME NEW c \in Tile \cup DOMAIN w.obj, NEW i \in Holds(w, c) PROVE IsValid(w, i) /\ w.obj[i].owner = c
  <2>1. i # None /\ Has(w, c, i)
    BY <1>2, HoldsIsHas
  <2> QED BY <1>2, <2>1, HasLies DEF IsValid
<1>5. ASSUME NEW c \in DOMAIN w.content PROVE IsInjective(w.content[c])
  <2>1. w.content[c] \in Seq(Nat)
    BY <1>2 DEF Formed, Contents
  <2>2. DOMAIN w.content[c] = 1 .. Len(w.content[c])
    BY <2>1
  <2> QED BY <1>2, <2>2 DEF Settled, InContents, IsInjective
<1>6. ASSUME NEW h \in DOMAIN w.obj, Is(w, h, {"human"}), NEW i \in Holds(w, h) PROVE Cardinality(SlotsOf(w, h, i)) = 1
  <2>1. KindOf(w, h) = w.obj[h].kind /\ h \notin Tile
    BY <1>2, SaneForms
  <2>2. w.obj[h].kind = "human" /\ w.obj[h].kind \notin Closet
    BY <1>6, <2>1 DEF Is, Closet
  <2>3. i # None /\ Has(w, h, i)
    BY <1>2, HoldsIsHas
  <2>4. PICK s : s \in SlotsOf(w, h, i)
    BY <2>1, <2>2, <2>3 DEF Has, Is
  <2>5. SlotsOf(w, h, i) = {s}
    BY <1>2, <2>2, <2>3, <2>4 DEF SlotsOf, Settled, InSlots
  <2> QED BY <2>5, FS_Singleton
<1> QED BY <1>1, <1>3, <1>4, <1>5, <1>6 DEF PlaceAgrees, Owner

\* An object is in the container it names as its owner, in no other and only once, and
\* everything keeps its type (Tile.cpp:283, HumanInterface.cpp:319).
THEOREM ObjectsAreWellPlaced == Spec => []WellPlaced
<1>1. Safe => WellPlaced
  BY SafeTypes, SafePlaces DEF WellPlaced
<1> QED BY <1>1, StationIsSafe, PTL

\* What a tile lets pass, and what it told the atmosphere, is what stands on it now
\* (Tile.cpp:361).
THEOREM SumsStayCurrent == Spec => []SumsAreCurrent
<1>1. Safe => SumsAreCurrent
  BY NoneIsNoTile DEF Safe, Sound, Nearly, Sums, SumAt, SumsAreCurrent
<1> QED BY <1>1, StationIsSafe, PTL

\* What can pass a door, a closet, a human, a window and a grille follows from their state
\* (Door.cpp, Closet.cpp, Human.cpp, Glass.cpp).
THEOREM ShapesFollowStates == Spec => []ShapeFollowsState
<1>1. Safe => ShapeFollowsState
  <2> SUFFICES ASSUME Safe PROVE ShapeFollowsState
    OBVIOUS
  <2>1. PICK w : w = world
    OBVIOUS
  <2>2. Sound(Nil, Nil, w) /\ Sane(Nil, Nil, w, w)
    BY <2>1, SaneStart DEF Safe
  <2>3. ASSUME NEW i \in DOMAIN w.obj
        PROVE  /\ w.obj[i].kind \in {"door", "glassdoor"} =>
                    w.obj[i].pass[DoorWay(w, i)] = IF w.own[i].state = "open" THEN FULL ELSE EMPTY
               /\ w.obj[i].kind \in Closet => w.obj[i].pass["all"] = IF w.own[i].open THEN FULL ELSE AIR
               /\ w.obj[i].kind = "human" => w.obj[i].pass["all"] = IF w.own[i].lying THEN FULL ELSE BIG_ITEM
               /\ w.obj[i].kind = "glass" => {d \in Way : w.obj[i].pass[d] = EMPTY} = {w.obj[i].dir}
               /\ w.obj[i].kind = "grille" => w.obj[i].pass["all"] = IF w.own[i].cutted THEN FULL ELSE AIR
    <3>1. Shaped(w, i)
      BY <2>2 DEF Sound, Nearly, Shapes, Nil
    <3>2. KindOf(w, i) = w.obj[i].kind /\ w.obj[i] \in Object
      BY <2>2, SaneForms
    <3>3. w.obj[i].dir \in Dir
      BY <3>2 DEF Object
    <3>4. DoorWay(w, i) = IF w.obj[i].kind = "door" THEN "all" ELSE w.obj[i].dir
      BY <3>2 DEF DoorWay, Is, DirOf
    <3>5. w.obj[i].kind = "glass" => {d \in Way : w.obj[i].pass[d] = EMPTY} = {w.obj[i].dir}
      BY <3>1, <3>3 DEF Shaped, ShapeFits, Way
    <3> QED BY <3>1, <3>4, <3>5 DEF Shaped, ShapeFits
  <2> QED BY <2>1, <2>3 DEF ShapeFollowsState
<1> QED BY <1>1, StationIsSafe, PTL

\* Whatever is under a force is in a queue of the physics engine, and in under_force once
\* only (PhysicsEngine.cpp, Movable.cpp:23).
THEOREM ForcesStayQueued == Spec => []ForcesQueued
<1>1. Safe => ForcesQueued
  <2> SUFFICES ASSUME Safe PROVE ForcesQueued
    OBVIOUS
  <2>1. Forces(world) /\ Queues(world)
    BY DEF Safe, Sound, Nearly, Formed
  <2>2. DOMAIN world.under_force = 1 .. Len(world.under_force)
    <3>1. PICK S : S = 1 .. world.last
      OBVIOUS
    <3>2. world.under_force \in Seq(S)
      BY <2>1, <3>1 DEF Queues
    <3> QED BY <3>2
  <2> QED BY <2>1, <2>2 DEF Forces, ForcesQueued, UnderForce, IsInjective
<1> QED BY <1>1, StationIsSafe, PTL

\* A player who is known minds a mob of his own, hears what such a mob hears and is not
\* left in a dead body (Mob.cpp:54, LoginMob.cpp:86, Human.cpp:527).
THEOREM MindsAlwaysAgree == Spec => []MindsAgree
<1>1. Safe => MindsAgree
  <2> SUFFICES ASSUME Safe PROVE MindsAgree
    OBVIOUS
  <2>1. PICK w : w = world
    OBVIOUS
  <2>2. Sane(Nil, Nil, w, w) /\ Minds(w)
    BY <2>1, SaneStart DEF Safe, Sound, Nearly
  <2>3. \A i \in DOMAIN w.obj : KindOf(w, i) = w.obj[i].kind /\ i # None
    BY <2>2, SaneForms
  <2>4. \A p \in Player : w.mind[p] # None => w.mind[p] \in DOMAIN w.obj /\ KindOf(w, w.mind[p]) = w.obj[w.mind[p]].kind
    BY <2>2, <2>3 DEF Minds
  <2>5. ~Is(w, None, {"loginmob"})
    BY <2>3 DEF Is, KindOf, IsValid, None, Hand
  <2>6. ASSUME NEW p \in Player, w.mind[p] # None
        PROVE  /\ Is(w, w.mind[p], Mob) /\ NetIds(w, w.mind[p]) = {p}
               /\ Is(w, w.mind[p], {"human"}) => ~w.own[w.mind[p]].dead
    BY <2>2, <2>4, <2>6 DEF Minds, Is, NetIds
  <2>7. ASSUME NEW p \in Player PROVE w.music[p] = LOBBY_MUSIC <=> Is(w, w.mind[p], {"loginmob"})
    BY <2>2, <2>4, <2>5 DEF Minds, Is
  <2> QED BY <2>1, <2>6, <2>7 DEF MindsAgree, Known
<1> QED BY <1>1, StationIsSafe, PTL

\* A wall knows which of its neighbours are walls, however they were taken down and built
\* (SolidTurf in turfs/Wall.cpp).
THEOREM WallsAlwaysMatch == Spec => []WallsMatch
<1>1. Safe => WallsMatch
  <2> SUFFICES ASSUME Safe PROVE WallsMatch
    OBVIOUS
  <2>1. PICK w : w = world
    OBVIOUS
  <2>2. Sane(Nil, Nil, w, w) /\ Walls(Nil, w)
    BY <2>1, SaneStart DEF Safe, Sound, Nearly
  <2>3. \A i \in DOMAIN w.obj : KindOf(w, i) = w.obj[i].kind
    BY <2>2, SaneForms
  <2>4. ASSUME NEW i \in DOMAIN w.obj, Is(w, i, Wall), NEW d \in Dir, IsInside(w.obj[i].owner, d)
        PROVE  d \in w.own[i].walls <=> WallAt(w, i, d) # None
    BY <2>2, <2>3, <2>4 DEF Walls, Nil, Knows, Is
  <2> QED BY <2>1, <2>4 DEF WallsMatch, IsInside, Owner
<1> QED BY <1>1, StationIsSafe, PTL

\* What is no projectile moves by one tile a tick (Movable.cpp:99).
THEOREM StepsAreSingle == Spec => OneStepPerTick
<1> DEFINE Single ==
      \A i \in (DOMAIN world.obj) \cap DOMAIN world'.obj :
        LET from == Owner(world, i)
            to == Owner(world', i)
        IN  Is(world, i, Movable \ Projectile) /\ from \in Tile /\ to \in Tile /\ from # to =>
              /\ Abs(X(from) - X(to)) + Abs(Y(from) - Y(to)) = 1
              /\ world.obj[i].last_move < world'.tick
<1>1. Safe /\ [Next]_vars => [Single]_vars
  <2> SUFFICES ASSUME Safe, Next PROVE Single
    OBVIOUS
  <2>1. Strides(world, world')
    BY StepSound
  <2>2. PICK w, v : w = world /\ v = world'
    OBVIOUS
  <2>3. Sane(Nil, Nil, w, w)
    BY <2>2, SaneStart DEF Safe
  <2>4. \A i \in DOMAIN w.obj : KindOf(w, i) = w.obj[i].kind
    BY <2>3, SaneForms
  <2>5. ASSUME NEW i \in (DOMAIN w.obj) \cap DOMAIN v.obj, Is(w, i, Movable \ Projectile),
               w.obj[i].owner \in Tile, v.obj[i].owner \in Tile, w.obj[i].owner # v.obj[i].owner
        PROVE  /\ Abs(X(w.obj[i].owner) - X(v.obj[i].owner)) + Abs(Y(w.obj[i].owner) - Y(v.obj[i].owner)) = 1
               /\ w.obj[i].last_move < v.tick
    BY <2>1, <2>2, <2>4, <2>5 DEF Strides, Strode, NextTo, Is
  <2> QED BY <2>2, <2>5 DEF Owner
<1>2. Spec => [][Single]_vars
  BY <1>1, StationIsSafe, PTL DEF Spec
<1> QED BY <1>2 DEF OneStepPerTick
=============================================================================
